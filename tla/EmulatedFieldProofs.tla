------------------------- MODULE EmulatedFieldProofs --------------------------
(***************************************************************************)
(* In a circuit over any field whose limbs fit, an element stands for the  *)
(* number it should, its limbs are counted, the membership check is the    *)
(* comparison of numbers, and an equality that is asserted is decided.     *)
(*                                                                         *)
(* The provers know nothing of recursive functions but the equation each   *)
(* is chosen by; so powers, sums and numbers made up of limbs are built    *)
(* here from the natural numbers, and their laws proved by the induction   *)
(* that the least element of a set gives (SetInduction).                   *)
(***************************************************************************)
EXTENDS EmulatedField, NaturalsInduction, WellFoundedInduction,
        FunctionTheorems, SequenceTheorems, TLAPS

\* Recursive functions, and powers.

(* Of the numbers in a set that is not empty one is the least.             *)
LEMMA LeastNumber ==
    ASSUME NEW T \in SUBSET Nat, T # {}
    PROVE  \E n \in T : \A m \in T : n <= m
<1> DEFINE R == OpToRel(<, Nat)
<1>1. IsWellFoundedOn(R, Nat)
  BY NatLessThanWellFounded
<1>2. \A x, y \in Nat : x < y => <<x, y>> \in R
  BY DEF OpToRel
<1> HIDE DEF R
<1>3. \E x \in T : \A y \in T : ~(<<y, x>> \in R)
  BY <1>1, WFMin
<1>4. PICK n \in T : \A y \in T : ~(<<y, n>> \in R)
  BY <1>3
<1>5. ASSUME NEW m \in T PROVE n <= m
  <2>1. m \in Nat /\ n \in Nat
    OBVIOUS
  <2>2. ~(m < n)
    BY <1>2, <1>4, <2>1
  <2> QED BY <2>1, <2>2
<1> QED BY <1>5

(* Every set with 0, and with each number the next, has them all.          *)
LEMMA SetInduction ==
    ASSUME NEW S, 0 \in S, \A n \in Nat : n \in S => n + 1 \in S
    PROVE  Nat \subseteq S
<1> SUFFICES ASSUME ~(Nat \subseteq S) PROVE FALSE
  OBVIOUS
<1> DEFINE T == {n \in Nat : n \notin S}
<1>1. T \in SUBSET Nat /\ T # {}
  OBVIOUS
<1>2. PICK n \in T : \A m \in T : n <= m
  BY <1>1, LeastNumber
<1>3. n # 0 /\ n \in Nat
  OBVIOUS
<1>4. n - 1 \in Nat /\ ~(n <= n - 1) /\ n - 1 + 1 = n
  BY <1>3
<1>5. n - 1 \in S
  BY <1>2, <1>4
<1> QED BY <1>4, <1>5

(* A function whose values are where the steps lead.                       *)
Steps(S) == [Nat \ {0} -> [S -> S]]

LeadsTo(f, S, a, n, go) ==
    /\ f \in [0..n -> S] /\ f[0] = a
    /\ \A i \in 1..n : f[i] = go[i][f[i - 1]]

Iterates(f, S, a, go) ==
    /\ f \in [Nat -> S] /\ f[0] = a
    /\ \A i \in Nat \ {0} : f[i] = go[i][f[i - 1]]

(* It exists up to each number ...                                         *)
LEMMA StepsExist ==
    ASSUME NEW S, NEW a, NEW n, NEW go,
           a \in S, n \in Nat, go \in Steps(S)
    PROVE  \E f : LeadsTo(f, S, a, n, go)
<1> DEFINE Good(m, f) ==
             /\ f \in [0..m -> S] /\ f[0] = a
             /\ \A i \in 1..m : f[i] = go[i][f[i - 1]]
           T == {m \in Nat : \E f : Good(m, f)}
<1>1. 0 \in T
  <2>1. Good(0, [i \in 0..0 |-> a])
    OBVIOUS
  <2> QED BY <2>1
<1>2. ASSUME NEW m \in Nat, m \in T PROVE m + 1 \in T
  <2>1. PICK f : Good(m, f)
    BY <1>2
  <2> DEFINE next == go[m + 1][f[m]]
             g == [i \in 0..(m + 1) |-> IF i = m + 1 THEN next ELSE f[i]]
  <2>2. next \in S
    <3>1. go[m + 1] \in [S -> S] /\ f[m] \in S
      BY <2>1 DEF Steps
    <3> QED BY <3>1
  <2>3. g \in [0..(m + 1) -> S] /\ g[0] = a
    BY <2>1, <2>2
  <2>4. ASSUME NEW i \in 1..(m + 1) PROVE g[i] = go[i][g[i - 1]]
    <3>1. g[i - 1] = f[i - 1]
      OBVIOUS
    <3>2. CASE i = m + 1
      <4>1. g[i] = next /\ i - 1 = m
        BY <3>2
      <4> QED BY <3>1, <3>2, <4>1
    <3>3. CASE i # m + 1
      <4>1. g[i] = f[i] /\ i \in 1..m
        BY <3>3
      <4> QED BY <2>1, <3>1, <4>1
    <3> QED BY <3>2, <3>3
  <2> HIDE DEF g
  <2>5. Good(m + 1, g)
    BY <2>3, <2>4
  <2> HIDE DEF Good
  <2> QED BY <2>5
<1> HIDE DEF T
<1>3. n \in T
  BY <1>1, <1>2, SetInduction
<1> QED BY <1>3 DEF T, LeadsTo

(* ... and is the same up to each number.                                  *)
LEMMA StepsAgree ==
    ASSUME NEW S, NEW a, NEW go, NEW f, NEW g, NEW m \in Nat, NEW n \in Nat,
           m <= n, LeadsTo(f, S, a, m, go), LeadsTo(g, S, a, n, go)
    PROVE  \A i \in 0..m : f[i] = g[i]
<1> DEFINE T == {i \in Nat : i <= m => f[i] = g[i]}
<1>1. 0 \in T
  BY DEF LeadsTo
<1>2. ASSUME NEW i \in Nat, i \in T PROVE i + 1 \in T
  <2> SUFFICES ASSUME i + 1 <= m PROVE f[i + 1] = g[i + 1]
    OBVIOUS
  <2>1. i + 1 \in 1..m /\ i + 1 \in 1..n /\ (i + 1) - 1 = i /\ i <= m
    OBVIOUS
  <2>2. f[i + 1] = go[i + 1][f[(i + 1) - 1]]
    BY <2>1 DEF LeadsTo
  <2>3. g[i + 1] = go[i + 1][g[(i + 1) - 1]]
    BY <2>1 DEF LeadsTo
  <2>4. f[i] = g[i]
    BY <1>2, <2>1
  <2> QED BY <2>1, <2>2, <2>3, <2>4
<1> HIDE DEF T
<1>3. Nat \subseteq T
  BY <1>1, <1>2, SetInduction
<1> QED BY <1>3 DEF T

(* ... and on all of them.                                                 *)
LEMMA IterationExists ==
    ASSUME NEW S, NEW a, NEW go, a \in S, go \in Steps(S)
    PROVE  \E f : Iterates(f, S, a, go)
<1> DEFINE G == [n \in Nat |-> CHOOSE f : LeadsTo(f, S, a, n, go)]
           F == [n \in Nat |-> G[n][n]]
<1>1. ASSUME NEW n \in Nat PROVE LeadsTo(G[n], S, a, n, go)
  <2>1. \E f : LeadsTo(f, S, a, n, go)
    BY StepsExist
  <2> QED BY <2>1
<1> HIDE DEF G
<1>2. ASSUME NEW n \in Nat PROVE G[n][n] \in S
  <2>1. LeadsTo(G[n], S, a, n, go)
    BY <1>1
  <2> QED BY <2>1 DEF LeadsTo
<1>3. F \in [Nat -> S]
  BY <1>2
<1>4. F[0] = a
  <2>1. LeadsTo(G[0], S, a, 0, go)
    BY <1>1
  <2> QED BY <2>1 DEF LeadsTo
<1>5. ASSUME NEW i \in Nat \ {0} PROVE F[i] = go[i][F[i - 1]]
  <2>1. i - 1 \in Nat /\ i \in 1..i /\ i - 1 <= i /\ i - 1 \in 0..(i - 1)
    OBVIOUS
  <2>2. LeadsTo(G[i], S, a, i, go)
    BY <1>1
  <2>3. LeadsTo(G[i - 1], S, a, i - 1, go)
    BY <1>1, <2>1
  <2>4. G[i][i] = go[i][G[i][i - 1]]
    BY <2>1, <2>2 DEF LeadsTo
  <2>5. G[i - 1][i - 1] = G[i][i - 1]
    BY <2>1, <2>2, <2>3, StepsAgree
  <2> QED BY <2>1, <2>4, <2>5
<1> HIDE DEF F
<1> QED BY <1>3, <1>4, <1>5 DEF Iterates

(* What a recursive function on 0..n computes.                             *)
LEMMA RecursionMeets ==
    ASSUME NEW S, NEW a, NEW go, NEW F, Iterates(F, S, a, go),
           NEW n \in Nat, NEW u, u[0] = a,
           \A i \in 1..n : u[i - 1] \in S => u[i] = go[i][u[i - 1]]
    PROVE  u[n] = F[n]
<1> DEFINE T == {i \in Nat : i <= n => u[i] = F[i]}
<1>1. 0 \in T
  BY DEF Iterates
<1>2. ASSUME NEW i \in Nat, i \in T PROVE i + 1 \in T
  <2> SUFFICES ASSUME i + 1 <= n PROVE u[i + 1] = F[i + 1]
    OBVIOUS
  <2>1. i + 1 \in 1..n /\ i + 1 \in Nat \ {0} /\ (i + 1) - 1 = i
    OBVIOUS
  <2>2. u[i] = F[i] /\ F[i] \in S
    BY <1>2 DEF Iterates
  <2>3. u[i + 1] = go[i + 1][u[i]]
    <3>1. u[(i + 1) - 1] \in S
      BY <2>1, <2>2
    <3>2. u[i + 1] = go[i + 1][u[(i + 1) - 1]]
      BY <2>1, <3>1
    <3> QED BY <2>1, <3>2
  <2>4. F[i + 1] = go[i + 1][F[(i + 1) - 1]]
    BY <2>1 DEF Iterates
  <2> QED BY <2>1, <2>2, <2>3, <2>4
<1> HIDE DEF T
<1>3. Nat \subseteq T
  BY <1>1, <1>2, SetInduction
<1> QED BY <1>3 DEF T

-----------------------------------------------------------------------------
(* The powers of a base are a function of the exponent, by their equation. *)
LEMMA PowerFunction ==
    ASSUME NEW b \in Int
    PROVE  \E F \in [Nat -> Int] :
             /\ F[0] = 1 /\ \A n \in Nat : F[n + 1] = b * F[n]
             /\ \A n \in Nat : Pow(b, n) = F[n]
<1> DEFINE go == [i \in Nat \ {0} |-> [x \in Int |-> b * x]]
<1>1. go \in Steps(Int)
  BY DEF Steps
<1>2. ASSUME NEW i \in Nat \ {0}, NEW x \in Int PROVE go[i][x] = b * x
  <2>1. go[i] = [y \in Int |-> b * y]
    BY ZenonT(30)
  <2> QED BY <2>1, ZenonT(30)
<1> HIDE DEF go
<1>3. PICK F : Iterates(F, Int, 1, go)
  BY ONLY <1>1, 1 \in Int, IterationExists
<1>4. /\ F \in [Nat -> Int] /\ F[0] = 1
      /\ \A i \in Nat \ {0} : F[i] = go[i][F[i - 1]]
  BY <1>3 DEF Iterates
<1>5. ASSUME NEW i \in Nat \ {0} PROVE F[i] = b * F[i - 1]
  <2>1. F[i - 1] \in Int
    BY <1>4
  <2>2. F[i] = go[i][F[i - 1]]
    BY <1>4
  <2> QED BY <1>2, <2>1, <2>2
<1>6. ASSUME NEW n \in Nat PROVE Pow(b, n) = F[n]
  <2> DEFINE Body(f) == [i \in 0..n |-> IF i = 0 THEN 1 ELSE b * f[i - 1]]
             power == CHOOSE f : f = Body(f)
             g == [i \in 0..n |-> F[i]]
  <2>1. g = Body(g)
    <3>1. ASSUME NEW i \in 0..n PROVE g[i] = Body(g)[i]
      <4>1. CASE i = 0
        BY <1>4, <4>1
      <4>2. CASE i # 0
        <5>1. i \in Nat \ {0} /\ i - 1 \in 0..n
          BY <4>2
        <5>2. F[i] = b * F[i - 1]
          BY <1>5, <5>1
        <5> QED BY <4>2, <5>1, <5>2
      <4> QED BY <4>1, <4>2
    <3>2. Body(g) = [i \in 0..n |-> Body(g)[i]] /\ g = [i \in 0..n |-> g[i]]
      OBVIOUS
    <3> HIDE DEF g, Body
    <3> QED BY <3>1, <3>2
  <2>2. power = Body(power)
    <3> HIDE DEF Body
    <3> QED BY <2>1
  <2>3. Pow(b, n) = power[n]
    BY DEF Pow
  <2> HIDE DEF power
  <2>4. power[0] = 1 /\ \A i \in 1..n : power[i] = b * power[i - 1]
    BY <2>2
  <2>5. ASSUME NEW i \in 1..n, power[i - 1] \in Int
        PROVE  power[i] = go[i][power[i - 1]]
    BY <1>2, <2>4, <2>5
  <2>6. power[n] = F[n]
    BY <1>3, <2>4, <2>5, RecursionMeets
  <2> QED BY <2>3, <2>6
<1>7. \A n \in Nat : F[n + 1] = b * F[n]
  <2>1. \A n \in Nat : n + 1 \in Nat \ {0} /\ (n + 1) - 1 = n
    OBVIOUS
  <2> QED BY <1>5, <2>1
<1> QED BY <1>4, <1>6, <1>7

(* So Pow is what its definition says.                                     *)
LEMMA Power ==
    ASSUME NEW b \in Int
    PROVE  /\ Pow(b, 0) = 1
           /\ \A n \in Nat : Pow(b, n) \in Int /\ Pow(b, n + 1) = b * Pow(b, n)
<1>1. PICK F \in [Nat -> Int] :
             /\ F[0] = 1 /\ \A n \in Nat : F[n + 1] = b * F[n]
             /\ \A n \in Nat : Pow(b, n) = F[n]
  BY PowerFunction
<1> QED BY <1>1

-------------------------------------------------------------------------------
\* Powers, bits and sums.

(* The power of a positive number is positive.                             *)
LEMMA PowerPositive ==
    ASSUME NEW b \in Nat \ {0}
    PROVE  \A n \in Nat : Pow(b, n) \in Nat \ {0}
<1> DEFINE T == {n \in Nat : Pow(b, n) \in Nat \ {0}}
<1>1. /\ Pow(b, 0) = 1
      /\ \A n \in Nat : Pow(b, n) \in Int /\ Pow(b, n + 1) = b * Pow(b, n)
  BY Power
<1>2. 0 \in T
  BY <1>1
<1>3. ASSUME NEW n \in Nat, n \in T PROVE n + 1 \in T
  <2>1. \A x, y \in Nat \ {0} : x * y \in Nat \ {0}
    OBVIOUS
  <2>2. Pow(b, n + 1) \in Nat \ {0}
    BY <1>1, <1>3, <2>1
  <2> QED BY <2>2
<1> HIDE DEF T
<1>4. Nat \subseteq T
  BY <1>2, <1>3, SetInduction
<1> QED BY <1>4 DEF T

(* Exponents add up.                                                       *)
LEMMA PowerSum ==
    ASSUME NEW b \in Int, NEW m \in Nat
    PROVE  \A n \in Nat : Pow(b, m + n) = Pow(b, m) * Pow(b, n)
<1> DEFINE T == {n \in Nat : Pow(b, m + n) = Pow(b, m) * Pow(b, n)}
<1>1. /\ Pow(b, 0) = 1
      /\ \A n \in Nat : Pow(b, n) \in Int /\ Pow(b, n + 1) = b * Pow(b, n)
  BY Power
<1>2. 0 \in T
  <2>1. Pow(b, m) * 1 = Pow(b, m) /\ m + 0 = m
    BY <1>1
  <2> QED BY <1>1, <2>1
<1>3. ASSUME NEW n \in Nat, n \in T PROVE n + 1 \in T
  <2>1. \A x, y \in Int : b * (x * y) = x * (b * y)
    OBVIOUS
  <2>2. m + n \in Nat /\ m + (n + 1) = (m + n) + 1
    OBVIOUS
  <2>3. Pow(b, m + (n + 1)) = b * (Pow(b, m) * Pow(b, n))
    BY <1>1, <1>3, <2>2
  <2>4. Pow(b, m + (n + 1)) = Pow(b, m) * Pow(b, n + 1)
    BY <1>1, <2>1, <2>3
  <2> QED BY <2>4
<1> HIDE DEF T
<1>4. Nat \subseteq T
  BY <1>2, <1>3, SetInduction
<1> QED BY <1>4 DEF T

(* A power of a power.                                                     *)
LEMMA PowerOfPower ==
    ASSUME NEW b \in Int, NEW m \in Nat
    PROVE  \A n \in Nat : Pow(Pow(b, m), n) = Pow(b, m * n)
<1> DEFINE T == {n \in Nat : Pow(Pow(b, m), n) = Pow(b, m * n)}
<1>1. /\ Pow(b, 0) = 1
      /\ \A n \in Nat : Pow(b, n) \in Int /\ Pow(b, n + 1) = b * Pow(b, n)
  BY Power
<1>2. /\ Pow(Pow(b, m), 0) = 1
      /\ \A n \in Nat : Pow(Pow(b, m), n + 1) = Pow(b, m) * Pow(Pow(b, m), n)
  BY <1>1, Power
<1>3. 0 \in T
  <2>1. m * 0 = 0
    OBVIOUS
  <2> QED BY <1>1, <1>2, <2>1
<1>4. ASSUME NEW n \in Nat, n \in T PROVE n + 1 \in T
  <2>1. m * n \in Nat /\ m * (n + 1) = m + m * n
    OBVIOUS
  <2>2. Pow(b, m + m * n) = Pow(b, m) * Pow(b, m * n)
    BY <2>1, PowerSum
  <2>3. Pow(Pow(b, m), n + 1) = Pow(b, m * (n + 1))
    BY <1>2, <1>4, <2>1, <2>2
  <2> QED BY <2>3
<1> HIDE DEF T
<1>5. Nat \subseteq T
  BY <1>3, <1>4, SetInduction
<1> QED BY <1>5 DEF T

(* A larger exponent makes no smaller power.                               *)
LEMMA PowerGrows ==
    ASSUME NEW b \in Nat \ {0}, NEW m \in Nat, NEW n \in Nat, m <= n
    PROVE  Pow(b, m) <= Pow(b, n)
<1>1. n - m \in Nat /\ m + (n - m) = n
  OBVIOUS
<1>2. Pow(b, n) = Pow(b, m) * Pow(b, n - m)
  BY <1>1, PowerSum
<1>3. Pow(b, m) \in Nat \ {0} /\ Pow(b, n - m) \in Nat \ {0}
  BY <1>1, PowerPositive
<1>4. \A x, y \in Nat \ {0} : x <= x * y
  OBVIOUS
<1> QED BY <1>2, <1>3, <1>4

(* Powers of two.                                                          *)
LEMMA PowersOfTwo ==
    /\ Pow(2, 0) = 1
    /\ \A n \in Nat : /\ Pow(2, n) \in Nat \ {0}
                      /\ Pow(2, n + 1) = 2 * Pow(2, n)
                      /\ n < Pow(2, n)
<1>1. Pow(2, 0) = 1 /\ \A n \in Nat : Pow(2, n + 1) = 2 * Pow(2, n)
  BY Power
<1>2. \A n \in Nat : Pow(2, n) \in Nat \ {0}
  BY PowerPositive
<1> DEFINE T == {n \in Nat : n < Pow(2, n)}
<1>3. 0 \in T
  BY <1>1
<1>4. ASSUME NEW n \in Nat, n \in T PROVE n + 1 \in T
  <2>1. n < Pow(2, n) /\ Pow(2, n) \in Nat /\ Pow(2, n + 1) = 2 * Pow(2, n)
    BY <1>1, <1>2, <1>4
  <2> QED BY <2>1
<1> HIDE DEF T
<1>5. Nat \subseteq T
  BY <1>3, <1>4, SetInduction
<1> QED BY <1>1, <1>2, <1>5 DEF T

(* Bits and CeilLog2 are the numbers they are meant to be.                 *)
LEMMA BitsHold ==
    ASSUME NEW n \in Nat
    PROVE  /\ Bits(n) \in Nat /\ n < Pow(2, Bits(n))
           /\ \A k \in Nat : n < Pow(2, k) => Bits(n) <= k
<1> DEFINE T == {k \in Nat : n < Pow(2, k)}
<1>1. n \in T
  BY PowersOfTwo
<1>2. PICK k \in T : \A m \in T : k <= m
  <2>1. T \in SUBSET Nat /\ T # {}
    BY <1>1
  <2> HIDE DEF T
  <2> QED BY <2>1, LeastNumber
<1>3. k \in 0..n
  BY <1>1, <1>2
<1>4. k > 0 => n >= Pow(2, k - 1)
  <2> SUFFICES ASSUME k > 0 PROVE n >= Pow(2, k - 1)
    OBVIOUS
  <2>1. k - 1 \in Nat /\ ~(k <= k - 1)
    BY <1>2
  <2>2. k - 1 \notin T
    BY <1>2, <2>1
  <2>3. Pow(2, k - 1) \in Nat
    BY <2>1, PowersOfTwo
  <2> QED BY <2>1, <2>2, <2>3
<1>5. n < Pow(2, k)
  BY <1>2
<1>6. \E m \in 0..n : n < Pow(2, m) /\ (m > 0 => n >= Pow(2, m - 1))
  BY <1>3, <1>4, <1>5
<1> DEFINE c == Bits(n)
<1>7. c \in 0..n /\ n < Pow(2, c) /\ (c > 0 => n >= Pow(2, c - 1))
  BY <1>6 DEF Bits
<1> HIDE DEF c
<1>8. ASSUME NEW m \in Nat, n < Pow(2, m), ~(c <= m) PROVE FALSE
  <2>1. c - 1 \in Nat /\ m <= c - 1 /\ c > 0 /\ 2 \in Nat \ {0}
    BY <1>7, <1>8
  <2>2. Pow(2, m) <= Pow(2, c - 1)
    BY ONLY m \in Nat, <2>1, PowerGrows
  <2>3. Pow(2, m) \in Nat /\ Pow(2, c - 1) \in Nat
    BY <2>1, PowersOfTwo
  <2> QED BY <1>7, <1>8, <2>1, <2>2, <2>3
<1>9. \A m \in Nat : n < Pow(2, m) => c <= m
  BY <1>8
<1> QED BY <1>7, <1>9 DEF c

(* CeilLog2 is the least exponent that reaches its number.                 *)
LEMMA CeilLog2Holds ==
    ASSUME NEW n \in Nat \ {0}
    PROVE  /\ CeilLog2(n) \in Nat /\ n <= Pow(2, CeilLog2(n))
           /\ \A k \in Nat : n <= Pow(2, k) => CeilLog2(n) <= k
<1> DEFINE T == {k \in Nat : n <= Pow(2, k)}
<1>1. n \in T
  <2>1. n < Pow(2, n) /\ Pow(2, n) \in Nat
    BY PowersOfTwo
  <2> QED BY <2>1
<1>2. PICK k \in T : \A m \in T : k <= m
  <2>1. T \in SUBSET Nat /\ T # {}
    BY <1>1
  <2> HIDE DEF T
  <2> QED BY <2>1, LeastNumber
<1>3. k \in 0..n
  BY <1>1, <1>2
<1>4. k > 0 => n > Pow(2, k - 1)
  <2> SUFFICES ASSUME k > 0 PROVE n > Pow(2, k - 1)
    OBVIOUS
  <2>1. k - 1 \in Nat /\ ~(k <= k - 1)
    BY <1>2
  <2>2. k - 1 \notin T
    BY <1>2, <2>1
  <2>3. Pow(2, k - 1) \in Nat
    BY <2>1, PowersOfTwo
  <2> QED BY <2>1, <2>2, <2>3
<1>5. n <= Pow(2, k)
  BY <1>2
<1>6. \E m \in 0..n : n <= Pow(2, m) /\ (m > 0 => n > Pow(2, m - 1))
  BY <1>3, <1>4, <1>5
<1> DEFINE c == CeilLog2(n)
<1>7. c \in 0..n /\ n <= Pow(2, c) /\ (c > 0 => n > Pow(2, c - 1))
  BY <1>6 DEF CeilLog2
<1> HIDE DEF c
<1>8. ASSUME NEW m \in Nat, n <= Pow(2, m), ~(c <= m) PROVE FALSE
  <2>1. c - 1 \in Nat /\ m <= c - 1 /\ c > 0 /\ 2 \in Nat \ {0}
    BY <1>7, <1>8
  <2>2. Pow(2, m) <= Pow(2, c - 1)
    BY ONLY m \in Nat, <2>1, PowerGrows
  <2>3. Pow(2, m) \in Nat /\ Pow(2, c - 1) \in Nat
    BY <2>1, PowersOfTwo
  <2> QED BY <1>7, <1>8, <2>1, <2>2, <2>3
<1>9. \A m \in Nat : n <= Pow(2, m) => c <= m
  BY <1>8
<1> QED BY <1>7, <1>9 DEF c

-----------------------------------------------------------------------------
(* Sums.                                                                   *)
LEMMA Sum ==
    ASSUME NEW n \in Nat, NEW f, \A i \in 1..n : f[i] \in Int
    PROVE  /\ SumTo(f, 0) = 0
           /\ \A m \in 0..n : SumTo(f, m) \in Int
           /\ \A m \in 0..(n - 1) : SumTo(f, m + 1) = SumTo(f, m) + f[m + 1]
<1> DEFINE at(i) == IF i \in 1..n THEN f[i] ELSE 0
           go == [i \in Nat \ {0} |-> [x \in Int |-> x + at(i)]]
<1>0. \A i \in Nat : at(i) \in Int
  OBVIOUS
<1>1. go \in Steps(Int)
  <2> HIDE DEF at
  <2> QED BY <1>0 DEF Steps
<1>2. \A i \in Nat \ {0}, x \in Int : go[i][x] = x + at(i)
  OBVIOUS
<1> HIDE DEF go
<1>3. PICK F : Iterates(F, Int, 0, go)
  <2>1. 0 \in Int
    OBVIOUS
  <2> HIDE DEF at
  <2> QED BY <1>1, <2>1, IterationExists
<1>4. /\ F \in [Nat -> Int] /\ F[0] = 0
      /\ \A i \in Nat \ {0} : F[i] = go[i][F[i - 1]]
  BY <1>3 DEF Iterates
<1>5. ASSUME NEW i \in Nat \ {0} PROVE F[i] = F[i - 1] + at(i)
  <2>1. F[i - 1] \in Int
    BY <1>4
  <2>2. F[i] = go[i][F[i - 1]]
    BY <1>4
  <2> HIDE DEF at
  <2> QED BY <1>2, <2>1, <2>2
<1>6. ASSUME NEW m \in 0..n PROVE SumTo(f, m) = F[m]
  <2> DEFINE Body(s) == [i \in 0..m |-> IF i = 0 THEN 0 ELSE s[i - 1] + f[i]]
             sum == CHOOSE s : s = Body(s)
             g == [i \in 0..m |-> F[i]]
  <2>1. g = Body(g)
    <3>1. ASSUME NEW i \in 0..m PROVE g[i] = Body(g)[i]
      <4>1. CASE i = 0
        BY <1>4, <4>1
      <4>2. CASE i # 0
        <5>1. i \in Nat \ {0} /\ i - 1 \in 0..m /\ i \in 1..n
          BY <4>2
        <5>2. F[i] = F[i - 1] + f[i]
          BY <1>5, <5>1
        <5> QED BY <4>2, <5>1, <5>2
      <4> QED BY <4>1, <4>2
    <3>2. Body(g) = [i \in 0..m |-> Body(g)[i]] /\ g = [i \in 0..m |-> g[i]]
      OBVIOUS
    <3> HIDE DEF g, Body
    <3> QED BY <3>1, <3>2
  <2>2. sum = Body(sum)
    <3> HIDE DEF Body
    <3> QED BY <2>1
  <2>3. SumTo(f, m) = sum[m]
    BY DEF SumTo
  <2> HIDE DEF sum
  <2>4. sum[0] = 0 /\ \A i \in 1..m : sum[i] = sum[i - 1] + f[i]
    BY <2>2
  <2>5. ASSUME NEW i \in 1..m, sum[i - 1] \in Int
        PROVE  sum[i] = go[i][sum[i - 1]]
    <3>1. i \in Nat \ {0} /\ at(i) = f[i]
      OBVIOUS
    <3>2. go[i][sum[i - 1]] = sum[i - 1] + at(i)
      BY <1>2, <2>5, <3>1
    <3> QED BY <2>4, <3>1, <3>2
  <2>6. sum[m] = F[m]
    <3>1. m \in Nat
      OBVIOUS
    <3> QED BY <1>3, <2>4, <2>5, <3>1, RecursionMeets
  <2> QED BY <2>3, <2>6
<1>7. ASSUME NEW m \in 0..(n - 1) PROVE F[m + 1] = F[m] + f[m + 1]
  <2>1. m + 1 \in Nat \ {0} /\ (m + 1) - 1 = m /\ m + 1 \in 1..n
    OBVIOUS
  <2>2. F[m + 1] = F[m] + at(m + 1)
    BY <1>5, <2>1
  <2> QED BY <2>1, <2>2
<1>8. \A m \in 0..(n - 1) : m \in 0..n /\ m + 1 \in 0..n
  OBVIOUS
<1> QED BY <1>4, <1>6, <1>7, <1>8

(* What holds of 0, and of each number up to n with its predecessor.       *)
LEMMA InductionTo ==
    ASSUME NEW n \in Nat, NEW S, 0 \in S,
           \A m \in 0..(n - 1) : m \in S => m + 1 \in S
    PROVE  \A m \in 0..n : m \in S
<1> DEFINE T == {m \in Nat : m <= n => m \in S}
<1>1. 0 \in T
  OBVIOUS
<1>2. ASSUME NEW m \in Nat, m \in T PROVE m + 1 \in T
  <2> SUFFICES ASSUME m + 1 <= n PROVE m + 1 \in S
    OBVIOUS
  <2>1. m \in 0..(n - 1) /\ m <= n
    OBVIOUS
  <2>2. m \in S
    BY <1>2, <2>1
  <2> QED BY <2>1, <2>2
<1> HIDE DEF T
<1>3. Nat \subseteq T
  BY <1>1, <1>2, SetInduction
<1>4. ASSUME NEW m \in 0..n PROVE m \in S
  <2>1. m \in T /\ m <= n
    BY <1>3
  <2> QED BY <2>1 DEF T
<1> QED BY <1>4

(* The sum of sums.                                                        *)
LEMMA SumPlus ==
    ASSUME NEW n \in Nat, NEW f, NEW g, NEW h,
           \A i \in 1..n : f[i] \in Int /\ g[i] \in Int /\ h[i] = f[i] + g[i]
    PROVE  SumTo(h, n) = SumTo(f, n) + SumTo(g, n)
<1> DEFINE S == {m \in 0..n : SumTo(h, m) = SumTo(f, m) + SumTo(g, m)}
<1>0. \A i \in 1..n : h[i] \in Int
  OBVIOUS
<1>1. /\ SumTo(h, 0) = 0
      /\ \A m \in 0..(n - 1) : SumTo(h, m + 1) = SumTo(h, m) + h[m + 1]
  BY <1>0, Sum
<1>2. /\ SumTo(f, 0) = 0 /\ \A m \in 0..n : SumTo(f, m) \in Int
      /\ \A m \in 0..(n - 1) : SumTo(f, m + 1) = SumTo(f, m) + f[m + 1]
  BY Sum
<1>3. /\ SumTo(g, 0) = 0 /\ \A m \in 0..n : SumTo(g, m) \in Int
      /\ \A m \in 0..(n - 1) : SumTo(g, m + 1) = SumTo(g, m) + g[m + 1]
  BY Sum
<1>4. 0 \in S
  BY <1>1, <1>2, <1>3
<1>5. ASSUME NEW m \in 0..(n - 1), m \in S PROVE m + 1 \in S
  <2>1. m + 1 \in 1..n /\ m + 1 \in 0..n /\ m \in 0..n
    OBVIOUS
  <2>2. SumTo(h, m + 1) = (SumTo(f, m) + SumTo(g, m)) + (f[m + 1] + g[m + 1])
    BY <1>1, <1>5, <2>1
  <2>3. \A x, y, z, w \in Int : (x + y) + (z + w) = (x + z) + (y + w)
    OBVIOUS
  <2>4. SumTo(h, m + 1) = SumTo(f, m + 1) + SumTo(g, m + 1)
    BY <1>2, <1>3, <2>1, <2>2, <2>3
  <2> QED BY <2>1, <2>4
<1> HIDE DEF S
<1>6. n \in S
  <2>1. \A m \in 0..n : m \in S
    BY ONLY n \in Nat, <1>4, <1>5, InductionTo
  <2> QED BY <2>1
<1> QED BY <1>6 DEF S

(* A factor of all.                                                        *)
LEMMA SumTimes ==
    ASSUME NEW n \in Nat, NEW c \in Int, NEW f, NEW h,
           \A i \in 1..n : f[i] \in Int /\ h[i] = c * f[i]
    PROVE  SumTo(h, n) = c * SumTo(f, n)
<1> DEFINE S == {m \in 0..n : SumTo(h, m) = c * SumTo(f, m)}
<1>0. \A i \in 1..n : h[i] \in Int
  OBVIOUS
<1>1. /\ SumTo(h, 0) = 0
      /\ \A m \in 0..(n - 1) : SumTo(h, m + 1) = SumTo(h, m) + h[m + 1]
  BY <1>0, Sum
<1>2. /\ SumTo(f, 0) = 0 /\ \A m \in 0..n : SumTo(f, m) \in Int
      /\ \A m \in 0..(n - 1) : SumTo(f, m + 1) = SumTo(f, m) + f[m + 1]
  BY Sum
<1>3. 0 \in S
  BY <1>1, <1>2
<1>4. ASSUME NEW m \in 0..(n - 1), m \in S PROVE m + 1 \in S
  <2>1. m + 1 \in 1..n /\ m + 1 \in 0..n /\ m \in 0..n
    OBVIOUS
  <2>2. SumTo(h, m + 1) = c * SumTo(f, m) + c * f[m + 1]
    BY <1>1, <1>4, <2>1
  <2>3. \A x, y \in Int : c * x + c * y = c * (x + y)
    OBVIOUS
  <2>4. SumTo(h, m + 1) = c * SumTo(f, m + 1)
    BY <1>2, <2>1, <2>2, <2>3
  <2> QED BY <2>1, <2>4
<1> HIDE DEF S
<1>5. n \in S
  <2>1. \A m \in 0..n : m \in S
    BY ONLY n \in Nat, <1>3, <1>4, InductionTo
  <2> QED BY <2>1
<1> QED BY <1>5 DEF S

(* A sum in two parts.                                                     *)
LEMMA SumSplit ==
    ASSUME NEW m \in Nat, NEW n \in Nat, NEW f, NEW g,
           \A i \in 1..(m + n) : f[i] \in Int,
           \A i \in 1..n : g[i] = f[m + i]
    PROVE  SumTo(f, m + n) = SumTo(f, m) + SumTo(g, n)
<1> DEFINE S == {k \in 0..n : SumTo(f, m + k) = SumTo(f, m) + SumTo(g, k)}
<1>0. \A i \in 1..n : m + i \in 1..(m + n) /\ g[i] \in Int
  OBVIOUS
<1>1. /\ \A k \in 0..(m + n) : SumTo(f, k) \in Int
      /\ \A k \in 0..((m + n) - 1) : SumTo(f, k + 1) = SumTo(f, k) + f[k + 1]
  BY Sum
<1>2. /\ SumTo(g, 0) = 0 /\ \A k \in 0..n : SumTo(g, k) \in Int
      /\ \A k \in 0..(n - 1) : SumTo(g, k + 1) = SumTo(g, k) + g[k + 1]
  BY <1>0, Sum
<1>3. 0 \in S
  <2>1. m \in 0..(m + n) /\ m + 0 = m
    OBVIOUS
  <2> QED BY <1>1, <1>2, <2>1
<1>4. ASSUME NEW k \in 0..(n - 1), k \in S PROVE k + 1 \in S
  <2>1. /\ k + 1 \in 1..n /\ k + 1 \in 0..n /\ k \in 0..n
        /\ m + k \in 0..((m + n) - 1) /\ (m + k) + 1 = m + (k + 1)
        /\ m \in 0..(m + n) /\ m + (k + 1) \in 1..(m + n)
    OBVIOUS
  <2>2. SumTo(f, m + (k + 1)) = (SumTo(f, m) + SumTo(g, k)) + g[k + 1]
    BY <1>1, <1>4, <2>1
  <2>3. \A x, y, z \in Int : (x + y) + z = x + (y + z)
    OBVIOUS
  <2>4. SumTo(f, m + (k + 1)) = SumTo(f, m) + SumTo(g, k + 1)
    BY <1>0, <1>1, <1>2, <2>1, <2>2, <2>3
  <2> QED BY <2>1, <2>4
<1> HIDE DEF S
<1>5. n \in S
  <2>1. \A k \in 0..n : k \in S
    BY ONLY n \in Nat, <1>3, <1>4, InductionTo
  <2> QED BY <2>1
<1> QED BY <1>5 DEF S

(* A sum depends on its terms only.                                        *)
LEMMA SumAgrees ==
    ASSUME NEW n \in Nat, NEW f, NEW g,
           \A i \in 1..n : f[i] \in Int /\ g[i] = f[i]
    PROVE  SumTo(g, n) = SumTo(f, n)
<1>1. \A i \in 1..n : f[i] \in Int /\ g[i] = 1 * f[i]
  OBVIOUS
<1>2. SumTo(g, n) = 1 * SumTo(f, n)
  BY <1>1, SumTimes
<1>3. SumTo(f, n) \in Int
  BY Sum
<1> QED BY <1>2, <1>3

(* Nothing but zeros.                                                      *)
LEMMA SumOfZeros ==
    ASSUME NEW n \in Nat, NEW f, \A i \in 1..n : f[i] = 0
    PROVE  SumTo(f, n) = 0
<1>1. \A i \in 1..n : f[i] \in Int /\ f[i] = 0 * f[i]
  OBVIOUS
<1>2. SumTo(f, n) = 0 * SumTo(f, n)
  BY <1>1, SumTimes
<1>3. SumTo(f, n) \in Int
  BY <1>1, Sum
<1> QED BY <1>2, <1>3

(* A sum with at most n summands, of which none after lo and up to hi is   *)
(* more than most, and the others are zero.                                *)
LEMMA SumIsBounded ==
    ASSUME NEW n \in Nat, NEW most \in Nat, NEW lo \in Int, NEW hi \in Nat,
           lo <= hi, NEW f, \A i \in 1..n : f[i] \in 0..most,
           \A i \in 1..n : i <= lo \/ hi < i => f[i] = 0
    PROVE  /\ SumTo(f, n) \in Nat
           /\ SumTo(f, n) <= n * most
           /\ SumTo(f, n) <= (hi - lo) * most
<1> DEFINE K(m) == IF m <= lo THEN 0
                   ELSE IF m <= hi THEN (m - lo) * most ELSE (hi - lo) * most
           S == {m \in 0..n : /\ SumTo(f, m) \in Nat
                              /\ SumTo(f, m) <= m * most
                              /\ SumTo(f, m) <= K(m)}
<1>1. /\ SumTo(f, 0) = 0
      /\ \A m \in 0..(n - 1) : SumTo(f, m + 1) = SumTo(f, m) + f[m + 1]
  <2>1. \A i \in 1..n : f[i] \in Int
    OBVIOUS
  <2> QED BY <2>1, Sum
<1>2. 0 \in S
  <2>1. 0 * most = 0 /\ \A x \in Nat : 0 <= x * most
    OBVIOUS
  <2>2. 0 <= K(0)
    BY <2>1
  <2> HIDE DEF K
  <2> QED BY <1>1, <2>1, <2>2
<1>3. ASSUME NEW m \in 0..(n - 1), m \in S PROVE m + 1 \in S
  <2> DEFINE s == SumTo(f, m)
             t == f[m + 1]
  <2>1. m + 1 \in 1..n /\ m + 1 \in 0..n /\ m \in Nat
    OBVIOUS
  <2>2. s \in Nat /\ s <= m * most /\ s <= K(m) /\ SumTo(f, m + 1) = s + t
    BY <1>1, <1>3
  <2>3. t \in Nat /\ t <= most
    BY <2>1
  <2>4. m + 1 <= lo \/ hi < m + 1 => t = 0
    BY <2>1
  <2> HIDE DEF s, t
  <2>5. (m + 1) * most = m * most + most /\ m * most \in Nat
    OBVIOUS
  <2>6. s + t \in Nat /\ s + t <= (m + 1) * most
    <3> HIDE DEF K
    <3> QED BY <2>2, <2>3, <2>5
  <2>7. s + t <= K(m + 1)
    <3>1. CASE m + 1 <= lo
      <4>1. K(m) = 0 /\ K(m + 1) = 0 /\ t = 0
        BY <2>4, <3>1
      <4> HIDE DEF K
      <4> QED BY <2>2, <4>1
    <3>2. CASE lo < m + 1 /\ m + 1 <= hi
      <4>1. (m + 1 - lo) * most = (m - lo) * most + most
        OBVIOUS
      <4>2. K(m + 1) = (m + 1 - lo) * most
        BY <3>2
      <4>3. K(m) <= (m - lo) * most
        <5>1. CASE m <= lo
          <6>1. m - lo = 0 /\ 0 * most = 0 /\ K(m) = 0
            BY <3>2, <5>1
          <6> QED BY <6>1
        <5>2. CASE ~(m <= lo)
          <6>1. K(m) = (m - lo) * most
            BY <3>2, <5>2
          <6>2. (m - lo) * most \in Int
            OBVIOUS
          <6> QED BY <6>1, <6>2
        <5> QED BY <5>1, <5>2
      <4>4. (m - lo) * most \in Int /\ K(m) \in Int
        OBVIOUS
      <4> HIDE DEF K
      <4> QED BY <2>2, <2>3, <4>1, <4>2, <4>3, <4>4
    <3>3. CASE lo < m + 1 /\ hi < m + 1
      <4>1. t = 0 /\ s + t = s
        BY <2>2, <2>3, <2>4, <3>3
      <4>2. K(m + 1) = (hi - lo) * most
        BY <3>3
      <4>3. K(m) = (hi - lo) * most
        <5>1. CASE m <= lo
          <6>1. lo = hi /\ m = hi
            BY <3>3, <5>1
          <6>2. hi - lo = 0 /\ 0 * most = 0 /\ K(m) = 0
            BY <5>1, <6>1
          <6> QED BY <6>2
        <5>2. CASE ~(m <= lo) /\ m <= hi
          <6>1. m = hi
            BY <3>3, <5>2
          <6> QED BY <5>2, <6>1
        <5>3. CASE ~(m <= lo) /\ ~(m <= hi)
          BY <5>3
        <5> QED BY <5>1, <5>2, <5>3
      <4> HIDE DEF K
      <4> QED BY <2>2, <4>1, <4>2, <4>3
    <3> QED BY <3>1, <3>2, <3>3
  <2> HIDE DEF K
  <2> QED BY <2>1, <2>2, <2>6, <2>7
<1>4. n \in S
  <2> HIDE DEF S
  <2> QED BY <1>2, <1>3, InductionTo
<1>5. K(n) <= (hi - lo) * most
  <2>1. (hi - lo) \in Nat /\ \A x, y \in Nat : x <= y => x * most <= y * most
    OBVIOUS
  <2>2. (hi - lo) * most \in Nat
    BY <2>1
  <2>3. CASE n <= lo
    BY <2>2, <2>3
  <2>4. CASE ~(n <= lo) /\ n <= hi
    <3>1. n - lo \in Nat /\ n - lo <= hi - lo /\ K(n) = (n - lo) * most
      BY <2>4
    <3> QED BY <2>1, <3>1
  <2>5. CASE ~(n <= lo) /\ ~(n <= hi)
    BY <2>2, <2>5
  <2> QED BY <2>3, <2>4, <2>5
<1>6. K(n) \in Int /\ (hi - lo) * most \in Int
  OBVIOUS
<1>7. SumTo(f, n) \in Nat /\ SumTo(f, n) <= n * most /\ SumTo(f, n) <= K(n)
  <2> HIDE DEF K
  <2> QED BY <1>4
<1> HIDE DEF K
<1> QED BY <1>5, <1>6, <1>7

-------------------------------------------------------------------------------
\* Division, and numbers modulo the prime.

(* Division.                                                               *)
LEMMA Remainder ==
    ASSUME NEW a \in Int, NEW m \in Nat \ {0}
    PROVE  /\ a % m \in 0..(m - 1) /\ a \div m \in Int
           /\ a = m * (a \div m) + (a % m)
OBVIOUS

(* There is one quotient and one remainder.                                *)
LEMMA RemainderIsUnique ==
    ASSUME NEW m \in Nat \ {0}, NEW q \in Int, NEW r \in 0..(m - 1),
           NEW a \in Int, a = m * q + r
    PROVE  a % m = r /\ a \div m = q
<1>1. /\ a % m \in 0..(m - 1) /\ a \div m \in Int
      /\ a = m * (a \div m) + (a % m)
  BY Remainder
<1> DEFINE p == a \div m
           s == a % m
<1> HIDE DEF p, s
<1>2. p \in Int /\ s \in 0..(m - 1) /\ m * q + r = m * p + s
  BY <1>1 DEF p, s
<1>3. m * (q - p) = s - r
  BY <1>2
<1>4. \A d \in Int : d >= 1 => m * d >= m
  OBVIOUS
<1>5. \A d \in Int : d <= -1 => m * d <= -m
  OBVIOUS
<1>6. q - p \in Int /\ s - r < m /\ s - r > -m
  BY <1>2
<1>7. q - p = 0
  BY <1>3, <1>4, <1>5, <1>6
<1>8. q = p /\ s = r
  <2>1. m * 0 = 0
    OBVIOUS
  <2> QED BY <1>2, <1>3, <1>7, <2>1
<1> QED BY <1>8 DEF p, s

(* Dividing by a product is dividing by one factor and by the other.       *)
LEMMA DivideTwice ==
    ASSUME NEW n \in Int, NEW a \in Nat \ {0}, NEW b \in Nat \ {0}
    PROVE  (n \div a) \div b = n \div (b * a)
<1> DEFINE q == n \div a
           r == n % a
           p == q \div b
           s == q % b
<1>1. q \in Int /\ r \in 0..(a - 1) /\ n = a * q + r
  BY Remainder
<1> HIDE DEF q, r
<1>2. p \in Int /\ s \in 0..(b - 1) /\ q = b * p + s
  BY <1>1, Remainder
<1> HIDE DEF p, s
<1>3. b * a \in Nat \ {0}
  OBVIOUS
<1>4. n = (b * a) * p + (a * s + r)
  BY <1>1, <1>2
<1>5. a * s + r \in 0..(b * a - 1)
  <2>1. a * s \in Nat
    BY <1>2
  <2>2. a * s <= a * (b - 1)
    BY <1>2
  <2>3. a * (b - 1) = b * a - a
    OBVIOUS
  <2> QED BY <1>1, <1>3, <2>1, <2>2, <2>3
<1>6. n \div (b * a) = p
  BY <1>1, <1>2, <1>3, <1>4, <1>5, RemainderIsUnique
<1> QED BY <1>6 DEF p, q

-----------------------------------------------------------------------------
(* The numbers of the field.                                               *)
LEMMA FieldNumbers ==
    /\ BitsPerLimb \in Nat \ {0} /\ NumLimbs \in Nat \ {0, 1}
    /\ Capacity \in Nat /\ E \in Nat \ {0}
    /\ Base \in Nat \ {0, 1} /\ Native \in Nat \ {0}
    /\ Modulus \in Nat \ {0} /\ Modulus < Pow(Base, NumLimbs)
    /\ max_overflow \in Nat /\ BitsPerLimb <= max_overflow
    /\ BitsPerLimb + CeilLog2(NumLimbs) < max_overflow
    /\ (Base - 1) * Pow(2, max_overflow) < Native
<1>1. /\ BitsPerLimb \in Nat \ {0} /\ NumLimbs \in Nat \ {0, 1}
      /\ Capacity \in Nat /\ 2 * BitsPerLimb <= Capacity
  BY FieldAssumption
<1>2. /\ max_overflow \in Nat /\ BitsPerLimb <= max_overflow
      /\ BitsPerLimb + CeilLog2(NumLimbs) < max_overflow
  <2>1. CeilLog2(NumLimbs) \in Nat
    BY <1>1, CeilLog2Holds
  <2>2. 2 * BitsPerLimb + CeilLog2(NumLimbs) < Capacity
    BY FieldAssumption
  <2> QED BY <1>1, <2>1, <2>2 DEF max_overflow
<1>3. Base \in Nat \ {0, 1}
  <2>1. Pow(2, BitsPerLimb) \in Nat \ {0} /\ BitsPerLimb < Pow(2, BitsPerLimb)
    BY <1>1, PowersOfTwo
  <2> QED BY <1>1, <2>1 DEF Base
<1>4. Native \in Nat \ {0} /\ Pow(2, Capacity) < Native
  <2>1. Pow(2, Capacity) \in Nat \ {0} /\ Pow(2, Capacity + 1) \in Nat
    BY <1>1, PowersOfTwo
  <2>2. Native \in (Pow(2, Capacity) + 1)..(Pow(2, Capacity + 1) - 1)
    BY FieldAssumption
  <2> QED BY <2>1, <2>2
<1>5. (Base - 1) * Pow(2, max_overflow) < Native
  <2>1. Pow(2, Capacity) = Base * Pow(2, max_overflow)
    <3>1. BitsPerLimb + max_overflow = Capacity
      BY <1>1 DEF max_overflow
    <3>2. Pow(2, BitsPerLimb + max_overflow)
            = Pow(2, BitsPerLimb) * Pow(2, max_overflow)
      BY <1>1, <1>2, PowerSum
    <3> QED BY <3>1, <3>2 DEF Base
  <2>2. Pow(2, max_overflow) \in Nat \ {0}
    BY <1>2, PowersOfTwo
  <2>3. \A p \in Nat : (Base - 1) * p = Base * p - p
    BY <1>3
  <2>4. \A p \in Nat : Base * p \in Nat
    BY <1>3
  <2> QED BY <1>4, <2>1, <2>2, <2>3, <2>4
<1>6. /\ E \in Nat \ {0} /\ E - 1 \in Nat /\ E <= BitsPerLimb * NumLimbs
      /\ BitsPerLimb * NumLimbs \in Nat
  <2>1. E \in ((NumLimbs - 1) * BitsPerLimb + 1)..(NumLimbs * BitsPerLimb)
    BY FieldAssumption
  <2>2. /\ (NumLimbs - 1) * BitsPerLimb \in Nat
        /\ NumLimbs * BitsPerLimb \in Nat
        /\ NumLimbs * BitsPerLimb = BitsPerLimb * NumLimbs
    BY <1>1
  <2> QED BY <2>1, <2>2
<1>7. Modulus \in Nat \ {0} /\ Modulus < Pow(2, E)
  <2>1. C \in 1..Pow(2, E - 1)
    BY FieldAssumption
  <2>2. Pow(2, E - 1) \in Nat \ {0} /\ Pow(2, (E - 1) + 1) = 2 * Pow(2, E - 1)
    BY <1>6, PowersOfTwo
  <2>3. (E - 1) + 1 = E
    BY <1>6
  <2> QED BY <2>1, <2>2, <2>3 DEF Modulus
<1>8. Modulus < Pow(Base, NumLimbs)
  <2>1. Pow(Base, NumLimbs) = Pow(2, BitsPerLimb * NumLimbs)
    BY <1>1, PowerOfPower DEF Base
  <2>2. Pow(2, E) <= Pow(2, BitsPerLimb * NumLimbs)
    BY <1>6, PowerGrows
  <2>3. Pow(2, E) \in Nat /\ Pow(2, BitsPerLimb * NumLimbs) \in Nat
    BY <1>6, PowersOfTwo
  <2> QED BY <1>7, <2>1, <2>2, <2>3
<1> QED BY <1>1, <1>2, <1>3, <1>4, <1>5, <1>6, <1>7, <1>8

(* Congruence modulo the emulated prime.                                   *)
Cong(a, b) == \E k \in Int : a = b + Modulus * k

(* A number is congruent to its remainder.                                 *)
LEMMA CongRemainder ==
    ASSUME NEW a \in Int
    PROVE  a % Modulus \in 0..(Modulus - 1) /\ Cong(a % Modulus, a)
<1>1. Modulus \in Nat \ {0}
  BY FieldNumbers
<1> DEFINE q == a \div Modulus
           r == a % Modulus
<1>2. r \in 0..(Modulus - 1) /\ q \in Int /\ a = Modulus * q + r
  BY <1>1, Remainder
<1> HIDE DEF q, r
<1>3. -q \in Int /\ r = a + Modulus * (-q)
  BY <1>1, <1>2
<1>4. Cong(r, a)
  BY <1>3 DEF Cong
<1> QED BY <1>2, <1>4 DEF r

(* Congruence is an equivalence,                                           *)
LEMMA CongReflexive ==
    ASSUME NEW a \in Int
    PROVE  Cong(a, a)
<1>1. a = a + Modulus * 0
  BY FieldNumbers
<1> QED BY <1>1 DEF Cong

(* in both directions,                                                     *)
LEMMA CongSymmetric ==
    ASSUME NEW a \in Int, NEW b \in Int, Cong(a, b)
    PROVE  Cong(b, a)
<1>1. PICK k \in Int : a = b + Modulus * k
  BY DEF Cong
<1>2. -k \in Int /\ b = a + Modulus * (-k)
  BY <1>1, FieldNumbers
<1> QED BY <1>2 DEF Cong

(* in steps,                                                               *)
LEMMA CongTransitive ==
    ASSUME NEW a \in Int, NEW b \in Int, NEW c \in Int, Cong(a, b), Cong(b, c)
    PROVE  Cong(a, c)
<1>1. PICK k \in Int : a = b + Modulus * k
  BY DEF Cong
<1>2. PICK j \in Int : b = c + Modulus * j
  BY DEF Cong
<1>3. k + j \in Int /\ a = c + Modulus * (k + j)
  BY <1>1, <1>2, FieldNumbers
<1> QED BY <1>3 DEF Cong

(* kept by sums                                                            *)
LEMMA CongPlus ==
    ASSUME NEW a \in Int, NEW b \in Int, NEW c \in Int, NEW d \in Int,
           Cong(a, b), Cong(c, d)
    PROVE  Cong(a + c, b + d)
<1>1. PICK k \in Int : a = b + Modulus * k
  BY DEF Cong
<1>2. PICK j \in Int : c = d + Modulus * j
  BY DEF Cong
<1>3. k + j \in Int /\ a + c = (b + d) + Modulus * (k + j)
  BY <1>1, <1>2, FieldNumbers
<1> QED BY <1>3 DEF Cong

(* and by products,                                                        *)
LEMMA CongTimes ==
    ASSUME NEW a \in Int, NEW b \in Int, NEW c \in Int, NEW d \in Int,
           Cong(a, b), Cong(c, d)
    PROVE  Cong(a * c, b * d)
<1>1. PICK k \in Int : a = b + Modulus * k
  BY DEF Cong
<1>2. PICK j \in Int : c = d + Modulus * j
  BY DEF Cong
<1> DEFINE m == Modulus
<1>3. m \in Int
  BY FieldNumbers
<1>4. b * j + k * d + m * (k * j) \in Int
  BY <1>3
<1>5. (b + m * k) * (d + m * j) = b * d + m * (b * j + k * d + m * (k * j))
  <2> HIDE DEF m
  <2>1. (b + m * k) * (d + m * j)
          = b * d + b * (m * j) + (m * k) * d + (m * k) * (m * j)
    BY <1>3
  <2>2. b * (m * j) = m * (b * j) /\ (m * k) * d = m * (k * d)
    BY <1>3
  <2>3. (m * k) * (m * j) = m * (m * (k * j))
    BY <1>3
  <2>4. m * (b * j + k * d + m * (k * j))
          = m * (b * j) + m * (k * d) + m * (m * (k * j))
    BY <1>3
  <2> QED BY <1>3, <2>1, <2>2, <2>3, <2>4
<1> QED BY <1>1, <1>2, <1>4, <1>5 DEF Cong

(* and is that remainders are equal.                                       *)
LEMMA CongIsEqualRemainder ==
    ASSUME NEW a \in Int, NEW b \in Int
    PROVE  Cong(a, b) <=> a % Modulus = b % Modulus
<1>1. Modulus \in Nat \ {0}
  BY FieldNumbers
<1>2. ASSUME Cong(a, b) PROVE a % Modulus = b % Modulus
  <2>1. PICK k \in Int : a = b + Modulus * k
    BY <1>2 DEF Cong
  <2> DEFINE q == b \div Modulus
             r == b % Modulus
  <2>2. r \in 0..(Modulus - 1) /\ q \in Int /\ b = Modulus * q + r
    BY <1>1, Remainder
  <2> HIDE DEF q, r
  <2>3. q + k \in Int /\ a = Modulus * (q + k) + r
    BY <1>1, <2>1, <2>2
  <2>4. a % Modulus = r
    BY <1>1, <2>2, <2>3, RemainderIsUnique
  <2> QED BY <2>4 DEF r
<1>3. ASSUME a % Modulus = b % Modulus PROVE Cong(a, b)
  <2>1. Cong(a % Modulus, a) /\ Cong(b % Modulus, b)
        /\ a % Modulus \in Int
    BY <1>1, CongRemainder
  <2>2. Cong(a, a % Modulus)
    BY <2>1, CongSymmetric
  <2> QED BY <1>3, <2>1, <2>2, CongTransitive
<1> QED BY <1>2, <1>3

-------------------------------------------------------------------------------
\* Limbs: the number they make up.

(* The sum of the first n numbers that f gives, weighed as limbs.          *)
Weighed(f, n) == SumTo([i \in 1..n |-> f[i] * Pow(Base, i - 1)], n)

(* Powers of the base.                                                     *)
LEMMA PowersOfBase ==
    /\ Pow(Base, 0) = 1
    /\ \A n \in Nat : /\ Pow(Base, n) \in Nat \ {0}
                      /\ Pow(Base, n + 1) = Base * Pow(Base, n)
<1>1. Base \in Nat \ {0} /\ Base \in Int
  BY FieldNumbers
<1>2. \A n \in Nat : Pow(Base, n) \in Nat \ {0}
  BY ONLY <1>1, PowerPositive
<1>3. /\ Pow(Base, 0) = 1
      /\ \A n \in Nat : Pow(Base, n + 1) = Base * Pow(Base, n)
  BY ONLY <1>1, Power
<1> QED BY <1>2, <1>3

(* The terms of a weighed sum.                                             *)
LEMMA Weights ==
    ASSUME NEW n \in Nat
    PROVE  \A i \in 1..n : i - 1 \in Nat /\ Pow(Base, i - 1) \in Nat \ {0}
<1>1. \A i \in 1..n : i - 1 \in Nat
  OBVIOUS
<1> QED BY <1>1, PowersOfBase

(* Nothing depends on how far f goes.                                      *)
LEMMA WeighedSteps ==
    ASSUME NEW n \in Nat, NEW f, \A i \in 1..n : f[i] \in Int
    PROVE  /\ Weighed(f, 0) = 0
           /\ \A m \in 0..n : Weighed(f, m) \in Int
           /\ \A m \in 0..(n - 1) :
                  Weighed(f, m + 1) = Weighed(f, m) + f[m + 1] * Pow(Base, m)
<1> DEFINE w == [i \in 1..n |-> f[i] * Pow(Base, i - 1)]
<1>1. \A i \in 1..n : w[i] \in Int
  BY Weights
<1>2. ASSUME NEW m \in 0..n PROVE Weighed(f, m) = SumTo(w, m)
  <2> DEFINE v == [i \in 1..m |-> f[i] * Pow(Base, i - 1)]
  <2>1. \A i \in 1..m : i \in 1..n /\ v[i] = f[i] * Pow(Base, i - 1)
    OBVIOUS
  <2>2. \A i \in 1..m : w[i] \in Int /\ v[i] = w[i]
    BY <1>1, <2>1
  <2>3. m \in Nat
    OBVIOUS
  <2>4. Weighed(f, m) = SumTo(v, m)
    BY DEF Weighed
  <2> HIDE DEF v, w
  <2> QED BY <2>2, <2>3, <2>4, SumAgrees
<1>3. \A m \in 0..(n - 1) : m + 1 \in 1..n /\ m \in 0..n /\ m + 1 \in 0..n
                            /\ (m + 1) - 1 = m
  OBVIOUS
<1>4. \A m \in 0..(n - 1) : w[m + 1] = f[m + 1] * Pow(Base, m)
  BY <1>3
<1> HIDE DEF w
<1>5. /\ SumTo(w, 0) = 0 /\ \A m \in 0..n : SumTo(w, m) \in Int
      /\ \A m \in 0..(n - 1) : SumTo(w, m + 1) = SumTo(w, m) + w[m + 1]
  BY <1>1, Sum
<1>6. 0 \in 0..n
  OBVIOUS
<1> QED BY <1>2, <1>3, <1>4, <1>5, <1>6

(* A weighed sum depends on its limbs only.                                *)
LEMMA WeighedAgrees ==
    ASSUME NEW n \in Nat, NEW f, NEW g,
           \A i \in 1..n : f[i] \in Int /\ g[i] = f[i]
    PROVE  Weighed(g, n) = Weighed(f, n)
<1> DEFINE v == [i \in 1..n |-> f[i] * Pow(Base, i - 1)]
           w == [i \in 1..n |-> g[i] * Pow(Base, i - 1)]
<1>1. \A i \in 1..n : v[i] \in Int
  BY Weights
<1>2. \A i \in 1..n : w[i] = v[i]
  OBVIOUS
<1>3. Weighed(f, n) = SumTo(v, n) /\ Weighed(g, n) = SumTo(w, n)
  BY DEF Weighed
<1> HIDE DEF v, w
<1> QED BY <1>1, <1>2, <1>3, SumAgrees

(* The sum of weighed sums,                                                *)
LEMMA WeighedPlus ==
    ASSUME NEW n \in Nat, NEW f, NEW g, NEW h,
           \A i \in 1..n : f[i] \in Int /\ g[i] \in Int /\ h[i] = f[i] + g[i]
    PROVE  Weighed(h, n) = Weighed(f, n) + Weighed(g, n)
<1> DEFINE u == [i \in 1..n |-> f[i] * Pow(Base, i - 1)]
           v == [i \in 1..n |-> g[i] * Pow(Base, i - 1)]
           w == [i \in 1..n |-> h[i] * Pow(Base, i - 1)]
<1>1. ASSUME NEW i \in 1..n
      PROVE  u[i] \in Int /\ v[i] \in Int /\ w[i] = u[i] + v[i]
  <2> DEFINE p == Pow(Base, i - 1)
  <2>1. p \in Int
    BY Weights
  <2>2. u[i] = f[i] * p /\ v[i] = g[i] * p /\ w[i] = (f[i] + g[i]) * p
    OBVIOUS
  <2>3. f[i] \in Int /\ g[i] \in Int
    OBVIOUS
  <2>4. \A x, y, z \in Int : /\ (x + y) * z = x * z + y * z
                             /\ x * z \in Int /\ y * z \in Int
    OBVIOUS
  <2> HIDE DEF u, v, w, p
  <2> QED BY <2>1, <2>2, <2>3, <2>4
<1>2. /\ Weighed(f, n) = SumTo(u, n) /\ Weighed(g, n) = SumTo(v, n)
      /\ Weighed(h, n) = SumTo(w, n)
  BY DEF Weighed
<1> HIDE DEF u, v, w
<1>3. SumTo(w, n) = SumTo(u, n) + SumTo(v, n)
  BY ONLY n \in Nat, <1>1, SumPlus
<1> QED BY <1>2, <1>3

(* a factor of one,                                                        *)
LEMMA WeighedTimes ==
    ASSUME NEW n \in Nat, NEW c \in Int, NEW f, NEW h,
           \A i \in 1..n : f[i] \in Int /\ h[i] = c * f[i]
    PROVE  Weighed(h, n) = c * Weighed(f, n)
<1> DEFINE v == [i \in 1..n |-> f[i] * Pow(Base, i - 1)]
           w == [i \in 1..n |-> h[i] * Pow(Base, i - 1)]
<1>1. ASSUME NEW i \in 1..n PROVE v[i] \in Int /\ w[i] = c * v[i]
  <2> DEFINE p == Pow(Base, i - 1)
  <2>1. p \in Int
    BY Weights
  <2>2. v[i] = f[i] * p /\ w[i] = (c * f[i]) * p
    OBVIOUS
  <2>3. f[i] \in Int
    OBVIOUS
  <2>4. \A x, z \in Int : (c * x) * z = c * (x * z) /\ x * z \in Int
    OBVIOUS
  <2> HIDE DEF v, w, p
  <2> QED BY <2>1, <2>2, <2>3, <2>4
<1>2. Weighed(f, n) = SumTo(v, n) /\ Weighed(h, n) = SumTo(w, n)
  BY DEF Weighed
<1> HIDE DEF v, w
<1> QED BY <1>1, <1>2, SumTimes

(* one in two parts,                                                       *)
LEMMA WeighedSplit ==
    ASSUME NEW m \in Nat, NEW n \in Nat, NEW f, NEW g,
           \A i \in 1..(m + n) : f[i] \in Int,
           \A i \in 1..n : g[i] = f[m + i]
    PROVE  Weighed(f, m + n)
             = Weighed(f, m) + Pow(Base, m) * Weighed(g, n)
<1> DEFINE S == {k \in 0..n : Weighed(f, m + k)
                     = Weighed(f, m) + Pow(Base, m) * Weighed(g, k)}
<1>0. \A i \in 1..n : m + i \in 1..(m + n) /\ g[i] \in Int
  OBVIOUS
<1>1. /\ \A k \in 0..(m + n) : Weighed(f, k) \in Int
      /\ \A k \in 0..((m + n) - 1) :
             Weighed(f, k + 1) = Weighed(f, k) + f[k + 1] * Pow(Base, k)
  BY WeighedSteps
<1>2. /\ Weighed(g, 0) = 0 /\ \A k \in 0..n : Weighed(g, k) \in Int
      /\ \A k \in 0..(n - 1) :
             Weighed(g, k + 1) = Weighed(g, k) + g[k + 1] * Pow(Base, k)
  BY <1>0, WeighedSteps
<1>3. Pow(Base, m) \in Int
  BY PowersOfBase
<1>4. 0 \in S
  <2>1. m \in 0..(m + n) /\ m + 0 = m /\ 0 \in 0..n
    OBVIOUS
  <2>2. Pow(Base, m) * 0 = 0
    BY <1>3
  <2>3. Weighed(f, m) \in Int
    BY <1>1, <2>1
  <2>4. Weighed(f, m + 0) = Weighed(f, m) + Pow(Base, m) * Weighed(g, 0)
    BY <1>2, <2>1, <2>2, <2>3
  <2> QED BY <2>1, <2>4
<1>5. ASSUME NEW k \in 0..(n - 1), k \in S PROVE k + 1 \in S
  <2>1. /\ k + 1 \in 1..n /\ k + 1 \in 0..n /\ k \in 0..n /\ k \in Nat
        /\ m + k \in 0..((m + n) - 1) /\ (m + k) + 1 = m + (k + 1)
        /\ m \in 0..(m + n) /\ m + (k + 1) \in 1..(m + n)
    OBVIOUS
  <2>2. Pow(Base, m + k) = Pow(Base, m) * Pow(Base, k)
        /\ Pow(Base, k) \in Int
    <3>1. Base \in Int
      BY FieldNumbers
    <3>2. Pow(Base, m + k) = Pow(Base, m) * Pow(Base, k)
      BY ONLY m \in Nat, <2>1, <3>1, PowerSum
    <3> QED BY <2>1, <3>2, PowersOfBase
  <2>3. /\ Weighed(f, m + k)
             = Weighed(f, m) + Pow(Base, m) * Weighed(g, k)
        /\ Weighed(f, m + (k + 1))
             = Weighed(f, m + k) + g[k + 1] * (Pow(Base, m) * Pow(Base, k))
        /\ Weighed(g, k + 1) = Weighed(g, k) + g[k + 1] * Pow(Base, k)
    BY <1>1, <1>2, <1>5, <2>1, <2>2
  <2>4. \A a, b, c, d, e \in Int :
            (a + b * c) + d * (b * e) = a + b * (c + d * e)
    OBVIOUS
  <2>5. /\ Weighed(f, m) \in Int /\ Weighed(g, k) \in Int
        /\ g[k + 1] \in Int
    BY <1>0, <1>1, <1>2, <2>1
  <2>6. Weighed(f, m + (k + 1))
          = Weighed(f, m) + Pow(Base, m) * Weighed(g, k + 1)
    BY <1>3, <2>2, <2>3, <2>4, <2>5
  <2> QED BY <2>1, <2>6
<1> HIDE DEF S
<1>6. n \in S
  <2>1. \A k \in 0..n : k \in S
    BY ONLY n \in Nat, <1>4, <1>5, InductionTo
  <2> QED BY <2>1
<1> QED BY <1>6 DEF S

(* and one of zeros.                                                       *)
LEMMA WeighedZeros ==
    ASSUME NEW n \in Nat, NEW f, \A i \in 1..n : f[i] = 0
    PROVE  Weighed(f, n) = 0
<1>1. \A i \in 1..n : f[i] \in Int /\ f[i] = 0 * f[i]
  OBVIOUS
<1>2. Weighed(f, n) = 0 * Weighed(f, n)
  BY <1>1, WeighedTimes
<1>3. Weighed(f, n) \in Int
  BY <1>1, WeighedSteps
<1> QED BY <1>2, <1>3

(* recompose weighs the limbs.                                             *)
LEMMA RecomposeWeighs ==
    ASSUME NEW limbs \in Seq(Int)
    PROVE  recompose(limbs) = Weighed(limbs, Len(limbs))
<1> DEFINE n == Len(limbs)
           Body(s) == [i \in 1..(n + 1) |->
                          IF i > n THEN 0 ELSE limbs[i] + Base * s[i + 1]]
           from == CHOOSE s : s = Body(s)
           at(k) == IF k \in 1..n THEN limbs[(n + 1) - k] ELSE 0
           go == [k \in Nat \ {0} |-> [x \in Int |-> at(k) + Base * x]]
<1>1. n \in Nat /\ \A i \in 1..n : limbs[i] \in Int
  OBVIOUS
<1>2. Base \in Int
  BY FieldNumbers
<1>3. recompose(limbs) = from[1]
  BY DEF recompose
<1> HIDE DEF n
<1>4. \A k \in Nat : at(k) \in Int
  BY <1>1
<1>5. go \in Steps(Int)
  <2> HIDE DEF at
  <2> QED BY <1>2, <1>4 DEF Steps
<1>6. \A k \in Nat \ {0}, x \in Int : go[k][x] = at(k) + Base * x
  OBVIOUS
<1> HIDE DEF go
<1>7. PICK F : Iterates(F, Int, 0, go)
  <2>1. 0 \in Int
    OBVIOUS
  <2> HIDE DEF at
  <2> QED BY <1>5, <2>1, IterationExists
<1>8. /\ F \in [Nat -> Int] /\ F[0] = 0
      /\ \A k \in Nat \ {0} : F[k] = go[k][F[k - 1]]
  BY <1>7 DEF Iterates
<1>9. ASSUME NEW k \in 1..n
      PROVE  F[k] = limbs[(n + 1) - k] + Base * F[k - 1]
  <2>1. k \in Nat \ {0} /\ k - 1 \in Nat /\ at(k) = limbs[(n + 1) - k]
    BY <1>1
  <2>2. F[k - 1] \in Int /\ F[k] = go[k][F[k - 1]]
    BY <1>8, <2>1
  <2> HIDE DEF at
  <2> QED BY <1>6, <2>1, <2>2
<1> DEFINE g == [i \in 1..(n + 1) |-> F[(n + 1) - i]]
<1>10. g = Body(g)
  <2>1. ASSUME NEW i \in 1..(n + 1) PROVE g[i] = Body(g)[i]
    <3>1. CASE i > n
      <4>1. (n + 1) - i = 0
        BY <1>1, <3>1
      <4> QED BY <1>8, <3>1, <4>1
    <3>2. CASE ~(i > n)
      <4>1. /\ (n + 1) - i \in 1..n /\ i + 1 \in 1..(n + 1)
            /\ (n + 1) - ((n + 1) - i) = i
            /\ ((n + 1) - i) - 1 = (n + 1) - (i + 1)
        BY <1>1, <3>2
      <4>2. F[(n + 1) - i] = limbs[i] + Base * F[(n + 1) - (i + 1)]
        BY <1>9, <4>1
      <4> QED BY <3>2, <4>1, <4>2
    <3> QED BY <3>1, <3>2
  <2>2. Body(g) = [i \in 1..(n + 1) |-> Body(g)[i]]
        /\ g = [i \in 1..(n + 1) |-> g[i]]
    OBVIOUS
  <2> HIDE DEF g, Body
  <2> QED BY <2>1, <2>2
<1>11. from = Body(from)
  <2> HIDE DEF Body, g
  <2> QED BY <1>10
<1> HIDE DEF from, g
<1>12. from[n + 1] = 0 /\ \A i \in 1..n : from[i] = limbs[i] + Base * from[i + 1]
  BY <1>1, <1>11
<1> DEFINE R == {k \in 0..n : from[(n + 1) - k] \in Int}
<1>13. \A k \in 0..n : k \in R
  <2>1. 0 \in R
    BY <1>1, <1>12
  <2>2. ASSUME NEW k \in 0..(n - 1), k \in R PROVE k + 1 \in R
    <3>1. /\ (n + 1) - (k + 1) \in 1..n /\ k + 1 \in 0..n
          /\ ((n + 1) - (k + 1)) + 1 = (n + 1) - k
      BY <1>1
    <3>2. from[(n + 1) - k] \in Int
      BY <2>2
    <3>3. from[(n + 1) - (k + 1)] \in Int
      <4> DEFINE i == (n + 1) - (k + 1)
      <4>1. i \in 1..n /\ i + 1 = (n + 1) - k
        BY <3>1
      <4> HIDE DEF i
      <4>2. from[i] = limbs[i] + Base * from[i + 1] /\ limbs[i] \in Int
        BY <1>1, <1>12, <4>1
      <4>3. from[i + 1] \in Int
        BY <3>2, <4>1
      <4>4. \A x, y, z \in Int : x + y * z \in Int
        OBVIOUS
      <4>5. from[i] \in Int
        BY <1>2, <4>2, <4>3, <4>4
      <4> QED BY <4>5 DEF i
    <3> QED BY <3>1, <3>3
  <2> HIDE DEF R
  <2> QED BY ONLY <1>1, <2>1, <2>2, InductionTo
<1>14. \A i \in 1..(n + 1) : from[i] \in Int
  <2>1. ASSUME NEW i \in 1..(n + 1) PROVE from[i] \in Int
    <3>1. (n + 1) - i \in 0..n /\ (n + 1) - ((n + 1) - i) = i
      BY <1>1
    <3>2. (n + 1) - i \in R
      BY <1>13, <3>1
    <3> QED BY <3>1, <3>2
  <2> QED BY <2>1
<1> HIDE DEF R
<1> DEFINE T == {k \in 0..n :
                     from[1] = Weighed(limbs, k) + Pow(Base, k) * from[k + 1]}
<1>15. /\ Weighed(limbs, 0) = 0 /\ \A k \in 0..n : Weighed(limbs, k) \in Int
       /\ \A k \in 0..(n - 1) : Weighed(limbs, k + 1)
                                   = Weighed(limbs, k) + limbs[k + 1] * Pow(Base, k)
  BY <1>1, WeighedSteps
<1>16. 0 \in T
  <2>1. 0 \in 0..n /\ 0 + 1 = 1 /\ 1 \in 1..(n + 1)
    BY <1>1
  <2>2. from[1] = 0 + 1 * from[1]
    BY <1>14, <2>1
  <2> QED BY <1>15, <2>1, <2>2, PowersOfBase
<1>17. ASSUME NEW k \in 0..(n - 1), k \in T PROVE k + 1 \in T
  <2>1. /\ k + 1 \in 0..n /\ k + 1 \in 1..n /\ k \in Nat /\ k \in 0..n
        /\ (k + 1) + 1 \in 1..(n + 1)
    BY <1>1
  <2> DEFINE p == Pow(Base, k)
             l == limbs[k + 1]
             r == from[(k + 1) + 1]
             w == Weighed(limbs, k)
  <2>2. /\ p \in Int /\ l \in Int /\ r \in Int /\ w \in Int
        /\ Pow(Base, k + 1) = Base * p
    <3>1. p \in Int /\ Pow(Base, k + 1) = Base * p
      BY <2>1, PowersOfBase
    <3>2. l \in Int
      BY <1>1, <2>1
    <3>3. r \in Int
      BY <1>14, <2>1
    <3>4. w \in Int
      BY <1>15, <2>1
    <3> QED BY <3>1, <3>2, <3>3, <3>4
  <2>3. from[1] = w + p * (l + Base * r)
    BY <1>12, <1>17, <2>1
  <2>4. Weighed(limbs, k + 1) = w + l * p
    BY <1>15
  <2>5. \A b \in Int : w + p * (l + b * r) = (w + l * p) + (b * p) * r
    <3> HIDE DEF w, p, l, r
    <3> QED BY <2>2
  <2>6. from[1] = Weighed(limbs, k + 1) + Pow(Base, k + 1) * r
    <3> HIDE DEF w, p, l, r
    <3> QED BY <1>2, <2>2, <2>3, <2>4, <2>5
  <2> QED BY <2>1, <2>6
<1>18. n \in T
  <2> HIDE DEF T
  <2>1. \A k \in 0..n : k \in T
    BY ONLY <1>1, <1>16, <1>17, InductionTo
  <2> QED BY <1>1, <2>1
<1>19. from[1] = Weighed(limbs, n) + Pow(Base, n) * from[n + 1]
  BY <1>18
<1>20. from[1] = Weighed(limbs, n)
  <2>1. n \in 0..n /\ Pow(Base, n) \in Int
    BY <1>1, PowersOfBase
  <2>2. Pow(Base, n) * 0 = 0 /\ Weighed(limbs, n) \in Int
    BY <1>15, <2>1
  <2> QED BY <1>12, <1>19, <2>2
<1> QED BY <1>3, <1>20 DEF n

(* Max and Min of two numbers.                                             *)
LEMMA MaxOfTwo ==
    ASSUME NEW a \in Int, NEW b \in Int
    PROVE  Max({a, b}) = IF a < b THEN b ELSE a
<1>1. ASSUME a < b PROVE Max({a, b}) = b
  <2>1. b \in {a, b} /\ \A y \in {a, b} : b >= y
    BY <1>1
  <2>2. \A x \in {a, b} : (\A y \in {a, b} : x >= y) => x = b
    BY <1>1
  <2> QED BY <2>1, <2>2 DEF Max
<1>2. ASSUME ~(a < b) PROVE Max({a, b}) = a
  <2>1. a \in {a, b} /\ \A y \in {a, b} : a >= y
    BY <1>2
  <2>2. \A x \in {a, b} : (\A y \in {a, b} : x >= y) => x = a
    BY <1>2
  <2> QED BY <2>1, <2>2 DEF Max
<1> QED BY <1>1, <1>2

(* The lesser of two numbers.                                              *)
LEMMA MinOfTwo ==
    ASSUME NEW a \in Int, NEW b \in Int
    PROVE  Min({a, b}) = IF a < b THEN a ELSE b
<1>1. ASSUME a < b PROVE Min({a, b}) = a
  <2>1. a \in {a, b} /\ \A y \in {a, b} : a <= y
    BY <1>1
  <2>2. \A x \in {a, b} : (\A y \in {a, b} : x <= y) => x = a
    BY <1>1
  <2> QED BY <2>1, <2>2 DEF Min
<1>2. ASSUME ~(a < b) PROVE Min({a, b}) = b
  <2>1. b \in {a, b} /\ \A y \in {a, b} : b <= y
    BY <1>2
  <2>2. \A x \in {a, b} : (\A y \in {a, b} : x <= y) => x = b
    BY <1>2
  <2> QED BY <2>1, <2>2 DEF Min
<1> QED BY <1>1, <1>2

(* An element's limbs, with zeros after the last.                          *)
Limbs(x, n) == [i \in 1..n |-> Limb(x, i)]

(* The number that limbs make up, with zeros above them or not.            *)
LEMMA IntegerWeighs ==
    ASSUME NEW x, x.limbs \in Seq(Int), NEW n \in Nat, Len(x.limbs) <= n
    PROVE  Integer(x) = Weighed(Limbs(x, n), n) /\ Integer(x) \in Int
<1> DEFINE m == Len(x.limbs)
           l == x.limbs
           f == Limbs(x, n)
           g == [i \in 1..(n - m) |-> f[m + i]]
<1>1. m \in Nat /\ n - m \in Nat /\ m + (n - m) = n /\ m \in 0..m
  OBVIOUS
<1>2. \A i \in 1..m : l[i] \in Int /\ f[i] = l[i]
  BY DEF Limbs, Limb
<1>3. \A i \in 1..n : f[i] \in Int
  BY DEF Limbs, Limb
<1>4. \A i \in 1..(n - m) : g[i] = f[m + i] /\ g[i] = 0
  BY DEF Limbs, Limb
<1>5. Integer(x) = Weighed(l, m)
  BY RecomposeWeighs DEF Integer
<1> HIDE DEF m, l, f, g
<1>6. Weighed(f, m) = Weighed(l, m)
  BY <1>1, <1>2, WeighedAgrees
<1>7. \A i \in 1..(m + (n - m)) : f[i] \in Int
  BY <1>1, <1>3
<1>8. Weighed(f, m + (n - m))
        = Weighed(f, m) + Pow(Base, m) * Weighed(g, n - m)
  BY ONLY <1>1, <1>4, <1>7, WeighedSplit
<1>9. Weighed(g, n - m) = 0
  BY ONLY <1>1, <1>4, WeighedZeros
<1>10. Weighed(l, m) \in Int /\ Pow(Base, m) \in Int
  <2>1. Pow(Base, m) \in Int
    BY <1>1, PowersOfBase
  <2>2. \A k \in 0..m : Weighed(l, k) \in Int
    BY ONLY <1>1, <1>2, WeighedSteps
  <2> QED BY <1>1, <2>1, <2>2
<1>11. Weighed(f, n) = Weighed(l, m)
  <2>1. Pow(Base, m) * 0 = 0 /\ \A z \in Int : z + 0 = z
    BY <1>10
  <2> QED BY <1>1, <1>6, <1>8, <1>9, <1>10, <2>1
<1> QED BY <1>5, <1>10, <1>11 DEF f

-----------------------------------------------------------------------------
(* Numbers that fit are what their limbs stand for.                        *)
LEMMA DecomposeLimbs ==
    ASSUME NEW n \in Nat, NEW count \in Nat
    PROVE  /\ Decompose(n, count) \in Seq(0..(Base - 1))
           /\ Len(Decompose(n, count)) = count
<1>1. ASSUME NEW i \in 1..count
      PROVE  (n \div Pow(Base, i - 1)) % Base \in 0..(Base - 1)
  <2>1. Pow(Base, i - 1) \in Nat \ {0} /\ Base \in Nat \ {0}
    BY Weights, FieldNumbers
  <2>2. n \div Pow(Base, i - 1) \in Int
    BY ONLY n \in Int, <2>1, Remainder
  <2> QED BY ONLY <2>1, <2>2, Remainder
<1>2. Decompose(n, count) \in [1..count -> 0..(Base - 1)]
  BY <1>1 DEF Decompose
<1> DEFINE d == Decompose(n, count)
           D == 0..(Base - 1)
<1> HIDE DEF d, D
<1>3. d \in [1..count -> D]
  BY <1>2 DEF d, D
<1>4. d \in Seq(D) /\ Len(d) = count
  BY <1>3
<1> QED BY <1>4 DEF d, D

(* Splitting a number into limbs loses nothing.                            *)
LEMMA DecomposeIsInverse ==
    ASSUME NEW count \in Nat, NEW n \in Nat, n < Pow(Base, count)
    PROVE  recompose(Decompose(n, count)) = n
<1> DEFINE d == Decompose(n, count)
           S == {k \in 0..count :
                     n = Weighed(d, k) + Pow(Base, k) * (n \div Pow(Base, k))}
<1>1. d \in Seq(0..(Base - 1)) /\ Len(d) = count
  BY DecomposeLimbs
<1>2. Base \in Nat \ {0} /\ Base \in Int
  BY FieldNumbers
<1>3. d \in Seq(Int) /\ \A i \in 1..count : d[i] \in Int
  BY <1>1, <1>2
<1>4. \A i \in 1..count : d[i] = (n \div Pow(Base, i - 1)) % Base
  BY DEF Decompose
<1> HIDE DEF d
<1>5. /\ Weighed(d, 0) = 0 /\ \A k \in 0..count : Weighed(d, k) \in Int
      /\ \A k \in 0..(count - 1) : Weighed(d, k + 1)
                                    = Weighed(d, k) + d[k + 1] * Pow(Base, k)
  BY <1>3, WeighedSteps
<1>6. 0 \in S
  <2>1. 0 \in 0..count /\ n \div 1 = n /\ n = 0 + 1 * n
    OBVIOUS
  <2> QED BY <1>5, <2>1, PowersOfBase
<1>7. ASSUME NEW k \in 0..(count - 1), k \in S PROVE k + 1 \in S
  <2> DEFINE p == Pow(Base, k)
             q == n \div p
             r == q \div Base
             w == Weighed(d, k)
  <2>1. k \in Nat /\ k + 1 \in 0..count /\ k \in 0..count /\ k + 1 \in 1..count
        /\ (k + 1) - 1 = k
    OBVIOUS
  <2>2. p \in Nat \ {0} /\ Pow(Base, k + 1) = Base * p
    BY <2>1, PowersOfBase
  <2>3. q \in Int /\ w \in Int
    <3>1. n \in Int /\ p \in Nat \ {0}
      BY <2>2
    <3>2. n \div p \in Int
      BY ONLY <3>1, Remainder
    <3> QED BY <1>5, <2>1, <3>2
  <2>4. n = w + p * q
    BY <1>7
  <2>5. n \div Pow(Base, k + 1) = r
    BY <1>2, <2>2, DivideTwice
  <2>6. Weighed(d, k + 1) = w + (q % Base) * p
    BY <1>4, <1>5, <2>1
  <2> HIDE DEF p, q, w
  <2>7. /\ q % Base \in Int /\ r \in Int
        /\ q = Base * r + (q % Base)
    BY ONLY <1>2, <2>3, Remainder DEF r
  <2> DEFINE s == q % Base
  <2> HIDE DEF r, s
  <2>8. s \in Int /\ r \in Int /\ q = Base * r + s
    BY <2>7 DEF s
  <2>9. \A b \in Int : w + p * (b * r + s) = (w + s * p) + (b * p) * r
    BY <2>2, <2>3, <2>8
  <2>10. n = (w + s * p) + (Base * p) * r
    BY <1>2, <2>4, <2>8, <2>9
  <2>11. n = Weighed(d, k + 1) + Pow(Base, k + 1) * (n \div Pow(Base, k + 1))
    BY <2>2, <2>5, <2>6, <2>10 DEF s
  <2> QED BY <2>1, <2>11
<1>8. count \in S
  <2> HIDE DEF S
  <2>1. \A k \in 0..count : k \in S
    BY ONLY count \in Nat, <1>6, <1>7, InductionTo
  <2> QED BY <2>1
<1>9. n = Weighed(d, count) + Pow(Base, count) * (n \div Pow(Base, count))
  BY <1>8
<1>10. Pow(Base, count) \in Nat \ {0} /\ n \div Pow(Base, count) = 0
  <2> DEFINE p == Pow(Base, count)
  <2>1. p \in Nat \ {0}
    BY PowersOfBase
  <2>2. n \in 0..(p - 1) /\ n = p * 0 + n
    BY <2>1
  <2> HIDE DEF p
  <2>3. n \div p = 0
    BY <2>1, <2>2, RemainderIsUnique
  <2> QED BY <2>1, <2>3 DEF p
<1>11. recompose(d) = Weighed(d, count)
  BY <1>1, <1>3, RecomposeWeighs
<1>12. Weighed(d, count) \in Int
  BY <1>5
<1>13. recompose(d) = n
  <2>1. Pow(Base, count) * 0 = 0
    BY <1>10
  <2> QED BY <1>9, <1>10, <1>11, <1>12, <2>1
<1> QED BY <1>13 DEF d

-----------------------------------------------------------------------------
(* What the operations on limbs do to what they stand for.                 *)
LEMMA AddLimbsAdd ==
    ASSUME NEW a, NEW b, a.limbs \in Seq(Nat), b.limbs \in Seq(Nat)
    PROVE  /\ AddLimbs(a, b) \in Seq(Nat)
           /\ Len(AddLimbs(a, b)) = Longest(a, b)
           /\ recompose(AddLimbs(a, b)) = Integer(a) + Integer(b)
<1> DEFINE n == Longest(a, b)
           h == AddLimbs(a, b)
<1>1. n \in Nat /\ Len(a.limbs) <= n /\ Len(b.limbs) <= n
  <2>1. Len(a.limbs) \in Nat /\ Len(b.limbs) \in Nat
    OBVIOUS
  <2> DEFINE l == Len(a.limbs)
             r == Len(b.limbs)
  <2>2. n = Max({l, r})
    BY DEF Longest
  <2> HIDE DEF l, r, n
  <2>3. l \in Nat /\ r \in Nat
    BY <2>1 DEF l, r
  <2>5. l \in Int /\ r \in Int
    BY <2>3
  <2>6. n = IF l < r THEN r ELSE l
    BY ONLY <2>2, <2>5, MaxOfTwo
  <2>4. n \in Nat /\ l <= n /\ r <= n
    BY <2>3, <2>6
  <2> QED BY <2>4 DEF l, r
<1>2. \A i \in 1..n : Limb(a, i) \in Nat /\ Limb(b, i) \in Nat
  BY DEF Limb
<1>3. h = [i \in 1..n |-> Limb(a, i) + Limb(b, i)]
  BY DEF AddLimbs
<1> HIDE DEF n, h
<1>4. h \in Seq(Nat) /\ Len(h) = n /\ h \in Seq(Int)
  <2>1. h \in [1..n -> Nat]
    BY <1>2, <1>3
  <2> QED BY <1>1, <2>1
<1>5. recompose(h) = Weighed(h, n)
  BY <1>4, RecomposeWeighs
<1>6. Integer(a) = Weighed(Limbs(a, n), n) /\ Integer(b) = Weighed(Limbs(b, n), n)
  <2>1. a.limbs \in Seq(Int) /\ b.limbs \in Seq(Int)
    OBVIOUS
  <2> QED BY <1>1, <2>1, IntegerWeighs
<1>7. \A i \in 1..n : /\ Limbs(a, n)[i] \in Int /\ Limbs(b, n)[i] \in Int
                      /\ h[i] = Limbs(a, n)[i] + Limbs(b, n)[i]
  BY <1>2, <1>3 DEF Limbs
<1>8. Weighed(h, n) = Weighed(Limbs(a, n), n) + Weighed(Limbs(b, n), n)
  BY ONLY <1>1, <1>7, WeighedPlus
<1> QED BY <1>4, <1>5, <1>6, <1>8 DEF n, h

(* Limbs times a number.                                                   *)
LEMMA ScaledLimbs ==
    ASSUME NEW limbs \in Seq(Nat), NEW c \in Nat, NEW scaled,
           scaled = [i \in DOMAIN limbs |-> limbs[i] * c]
    PROVE  /\ scaled \in Seq(Nat) /\ Len(scaled) = Len(limbs)
           /\ recompose(scaled) = c * recompose(limbs)
<1> DEFINE n == Len(limbs)
<1>1. n \in Nat /\ DOMAIN limbs = 1..n /\ \A i \in 1..n : limbs[i] \in Nat
  OBVIOUS
<1> HIDE DEF n
<1>2. \A i \in 1..n : scaled[i] = c * limbs[i] /\ scaled[i] \in Nat
  <2>1. \A z \in Nat : z * c = c * z /\ z * c \in Nat
    OBVIOUS
  <2> QED BY <1>1, <2>1
<1>3. scaled \in [1..n -> Nat]
  BY <1>1, <1>2
<1>4. scaled \in Seq(Nat) /\ Len(scaled) = n
  BY <1>1, <1>3
<1>5. limbs \in Seq(Int) /\ scaled \in Seq(Int)
  BY <1>4
<1>6. recompose(limbs) = Weighed(limbs, n) /\ recompose(scaled) = Weighed(scaled, n)
  BY <1>4, <1>5, RecomposeWeighs DEF n
<1>7. \A i \in 1..n : limbs[i] \in Int /\ scaled[i] = c * limbs[i]
  BY <1>1, <1>2
<1>8. c \in Int
  OBVIOUS
<1>9. Weighed(scaled, n) = c * Weighed(limbs, n)
  BY ONLY <1>1, <1>7, <1>8, WeighedTimes
<1> QED BY <1>4, <1>6, <1>9 DEF n

(* The limbs of a number times a power of the base.                        *)
LEMMA ShiftedLimbs ==
    ASSUME NEW b, b.limbs \in Seq(Nat), NEW m \in Nat, NEW n \in Nat,
           m + Len(b.limbs) <= n
    PROVE  Weighed([i \in 1..n |-> Limb(b, i - m)], n)
             = Pow(Base, m) * Integer(b)
<1> DEFINE f == [i \in 1..n |-> Limb(b, i - m)]
           g == Limbs(b, n - m)
<1>1. n - m \in Nat /\ m + (n - m) = n /\ Len(b.limbs) <= n - m
  OBVIOUS
<1>2. \A i \in 1..(m + (n - m)) : f[i] \in Int
  BY <1>1 DEF Limb
<1>3. \A i \in 1..m : f[i] = 0
  <2>1. ASSUME NEW i \in 1..m PROVE f[i] = 0
    <3>1. i \in 1..n /\ ~(i - m \in 1..Len(b.limbs))
      BY <1>1
    <3>2. DOMAIN b.limbs = 1..Len(b.limbs)
      OBVIOUS
    <3> QED BY <3>1, <3>2 DEF Limb
  <2> QED BY <2>1
<1>4. \A i \in 1..(n - m) : g[i] = f[m + i]
  <2>1. \A i \in 1..(n - m) : m + i \in 1..n /\ (m + i) - m = i
    OBVIOUS
  <2> QED BY <2>1 DEF Limbs
<1>5. b.limbs \in Seq(Int)
  OBVIOUS
<1>6. Integer(b) = Weighed(g, n - m) /\ Integer(b) \in Int
  BY <1>1, <1>5, IntegerWeighs
<1> DEFINE r == n - m
<1> HIDE DEF f, g, r
<1>7. Weighed(f, m + (n - m)) = Weighed(f, m) + Pow(Base, m) * Weighed(g, n - m)
  <2>1. /\ r \in Nat /\ \A i \in 1..(m + r) : f[i] \in Int
        /\ \A i \in 1..r : g[i] = f[m + i]
    BY <1>1, <1>2, <1>4 DEF r
  <2>2. Weighed(f, m + r) = Weighed(f, m) + Pow(Base, m) * Weighed(g, r)
    BY ONLY m \in Nat, <2>1, WeighedSplit
  <2> QED BY <2>2 DEF r
<1>8. Weighed(f, m) = 0
  BY ONLY m \in Nat, <1>3, WeighedZeros
<1>9. Pow(Base, m) * Integer(b) \in Int
  BY <1>6, PowersOfBase
<1>10. Weighed(f, n) = Pow(Base, m) * Integer(b)
  BY <1>1, <1>6, <1>7, <1>8, <1>9
<1> QED BY <1>10 DEF f

(* A product's limbs are sums of products, of which there are no more than *)
(* either factor has limbs.                                                *)
Products(a, b, i) == [j \in DOMAIN a.limbs |-> a.limbs[j] * Limb(b, i + 1 - j)]

(* How large a product's limb may be.                                      *)
LEMMA ProductsAreCounted ==
    ASSUME NEW a, NEW b, a.limbs \in Seq(Nat), b.limbs \in Seq(Nat),
           NEW u \in Nat, NEW v \in Nat,
           \A j \in DOMAIN a.limbs : a.limbs[j] <= u,
           \A j \in DOMAIN b.limbs : b.limbs[j] <= v,
           NEW i \in Nat
    PROVE  /\ \A j \in 1..Len(a.limbs) : Products(a, b, i)[j] \in Nat
           /\ SumTo(Products(a, b, i), Len(a.limbs)) \in Nat
           /\ SumTo(Products(a, b, i), Len(a.limbs)) <= Len(a.limbs) * (u * v)
           /\ SumTo(Products(a, b, i), Len(a.limbs)) <= Len(b.limbs) * (u * v)
<1> DEFINE n == Len(a.limbs)
           l == Len(b.limbs)
           f == Products(a, b, i)
<1>1. /\ n \in Nat /\ l \in Nat /\ u * v \in Nat
      /\ DOMAIN a.limbs = 1..n /\ DOMAIN b.limbs = 1..l
  OBVIOUS
<1>2. \A j \in 1..n : f[j] = a.limbs[j] * Limb(b, i + 1 - j)
  BY <1>1 DEF Products
<1>3. \A j \in 1..n : a.limbs[j] \in Nat /\ a.limbs[j] <= u
  <2>1. \A j \in 1..Len(a.limbs) : a.limbs[j] \in Nat
    OBVIOUS
  <2>2. \A j \in 1..Len(a.limbs) : a.limbs[j] <= u
    BY <1>1
  <2> QED BY <2>1, <2>2
<1>4. \A k \in Int : /\ Limb(b, k) \in Nat /\ Limb(b, k) <= v
                     /\ ~(k \in 1..l) => Limb(b, k) = 0
  <2>1. \A j \in 1..Len(b.limbs) : b.limbs[j] \in Nat
    OBVIOUS
  <2>2. \A j \in DOMAIN b.limbs : b.limbs[j] \in Nat /\ b.limbs[j] <= v
    BY <1>1, <2>1
  <2>3. ASSUME NEW k \in Int
        PROVE  /\ Limb(b, k) \in Nat /\ Limb(b, k) <= v
               /\ ~(k \in 1..l) => Limb(b, k) = 0
    <3>1. CASE k \in DOMAIN b.limbs
      BY <1>1, <2>2, <3>1 DEF Limb
    <3>2. CASE ~(k \in DOMAIN b.limbs)
      BY <3>2 DEF Limb
    <3> QED BY <3>1, <3>2
  <2> QED BY <2>3
<1>5. \A x, y \in Nat : x <= u /\ y <= v => x * y \in 0..(u * v)
  <2>1. ASSUME NEW x \in Nat, NEW y \in Nat, x <= u, y <= v
        PROVE  x * y \in 0..(u * v)
    <3>1. x * y <= u * y
      BY <2>1
    <3>2. u * y <= u * v
      BY <2>1
    <3>3. x * y \in Nat /\ u * y \in Nat
      OBVIOUS
    <3> DEFINE p == x * y
               q == u * y
               r == u * v
    <3>4. p \in Nat /\ q \in Nat /\ r \in Nat /\ p <= q /\ q <= r
      BY <1>1, <3>1, <3>2, <3>3
    <3> HIDE DEF p, q, r
    <3>5. p \in 0..r
      BY <3>4
    <3> QED BY <3>5 DEF p, r
  <2> QED BY <2>1
<1> HIDE DEF n, l, f
<1>6. \A j \in 1..n : f[j] \in 0..(u * v)
  <2>1. \A j \in 1..n : i + 1 - j \in Int
    BY <1>1
  <2> QED BY <1>2, <1>3, <1>4, <1>5, <2>1
<1>7. \A j \in 1..n : j <= i - l \/ i < j => f[j] = 0
  <2>1. ASSUME NEW j \in 1..n, j <= i - l \/ i < j PROVE f[j] = 0
    <3>1. i + 1 - j \in Int /\ ~(i + 1 - j \in 1..l)
      BY <1>1, <2>1
    <3>2. Limb(b, i + 1 - j) = 0 /\ a.limbs[j] \in Nat
      BY <1>3, <1>4, <3>1
    <3> QED BY <1>2, <3>2
  <2> QED BY <2>1
<1>8. i - l \in Int /\ i - l <= i /\ i - (i - l) = l
  BY <1>1
<1>9. /\ SumTo(f, n) \in Nat /\ SumTo(f, n) <= n * (u * v)
      /\ SumTo(f, n) <= (i - (i - l)) * (u * v)
  BY ONLY i \in Nat, <1>1, <1>6, <1>7, <1>8, SumIsBounded
<1>10. \A j \in 1..n : f[j] \in Nat
  BY <1>1, <1>6
<1> QED BY <1>8, <1>9, <1>10 DEF n, l, f

(* Limbs that are counted have a bound.                                    *)
LEMMA LimbsHaveBound ==
    ASSUME NEW limbs \in Seq(Nat)
    PROVE  \E u \in Nat : \A j \in DOMAIN limbs : limbs[j] <= u
<1> DEFINE n == Len(limbs)
           S == {k \in 0..n : \E u \in Nat : \A j \in 1..k : limbs[j] <= u}
<1>1. n \in Nat /\ DOMAIN limbs = 1..n /\ \A j \in 1..n : limbs[j] \in Nat
  OBVIOUS
<1> HIDE DEF n
<1>2. 0 \in S
  <2>1. \A j \in 1..0 : limbs[j] <= 0
    OBVIOUS
  <2> QED BY <1>1, <2>1
<1>3. ASSUME NEW k \in 0..(n - 1), k \in S PROVE k + 1 \in S
  <2>1. PICK u \in Nat : \A j \in 1..k : limbs[j] <= u
    BY <1>3
  <2>2. k + 1 \in 1..n /\ k + 1 \in 0..n
    BY <1>1
  <2> DEFINE w == u + limbs[k + 1]
  <2>3. w \in Nat
    BY <1>1, <2>2
  <2>4. ASSUME NEW j \in 1..(k + 1) PROVE limbs[j] <= w
    <3>1. limbs[k + 1] \in Nat /\ j \in 1..n
      BY <1>1, <2>2
    <3>2. CASE j = k + 1
      BY <3>1, <3>2
    <3>3. CASE j # k + 1
      <4>1. j \in 1..k
        BY <1>1, <3>3
      <4>2. limbs[j] <= u /\ limbs[j] \in Nat
        BY <1>1, <2>1, <3>1, <4>1
      <4> QED BY <3>1, <4>2
    <3> QED BY <3>2, <3>3
  <2> HIDE DEF w
  <2> QED BY <2>2, <2>3, <2>4
<1> HIDE DEF S
<1>4. \A k \in 0..n : k \in S
  BY ONLY <1>1, <1>2, <1>3, InductionTo
<1>5. n \in S
  BY <1>1, <1>4
<1> QED BY <1>1, <1>5 DEF S

(* The product of limbs as polynomials makes up the product of numbers.    *)
LEMMA MulLimbsMultiply ==
    ASSUME NEW a, NEW b, a.limbs \in Seq(Nat), b.limbs \in Seq(Nat),
           Len(a.limbs) >= 1, Len(b.limbs) >= 1
    PROVE  /\ MulLimbs(a, b) \in Seq(Nat)
           /\ Len(MulLimbs(a, b)) = Len(a.limbs) + Len(b.limbs) - 1
           /\ recompose(MulLimbs(a, b)) = Integer(a) * Integer(b)
<1> DEFINE la == Len(a.limbs)
           lb == Len(b.limbs)
           n == la + lb - 1
           h == MulLimbs(a, b)
<1>1. la \in Nat \ {0} /\ lb \in Nat \ {0} /\ n \in Nat /\ la \in 0..la
  <2>1. la \in Nat /\ lb \in Nat /\ la >= 1 /\ lb >= 1
    OBVIOUS
  <2> HIDE DEF la, lb
  <2> QED BY <2>1
<1>2. /\ DOMAIN a.limbs = 1..la /\ \A j \in 1..la : a.limbs[j] \in Nat
      /\ a.limbs \in Seq(Int) /\ b.limbs \in Seq(Int)
  OBVIOUS
<1>3. PICK u \in Nat : \A j \in DOMAIN a.limbs : a.limbs[j] <= u
  BY LimbsHaveBound
<1>4. PICK v \in Nat : \A j \in DOMAIN b.limbs : b.limbs[j] <= v
  BY LimbsHaveBound
<1>5. h = [i \in 1..n |-> SumTo(Products(a, b, i), la)]
  BY DEF MulLimbs, Products
<1>6. ASSUME NEW i \in 1..n
      PROVE  /\ SumTo(Products(a, b, i), la) \in Nat
             /\ \A j \in 1..la : Products(a, b, i)[j] \in Int
  <2>1. i \in Nat
    OBVIOUS
  <2>2. /\ \A j \in 1..la : Products(a, b, i)[j] \in Nat
        /\ SumTo(Products(a, b, i), la) \in Nat
    BY <1>3, <1>4, <2>1, ProductsAreCounted
  <2> QED BY <2>2
<1>7. \A i \in 1..n, m \in 0..(la - 1) :
          Products(a, b, i)[m + 1] = a.limbs[m + 1] * Limb(b, i - m)
  <2>1. ASSUME NEW i \in 1..n, NEW m \in 0..(la - 1)
        PROVE  Products(a, b, i)[m + 1] = a.limbs[m + 1] * Limb(b, i - m)
    <3>1. m + 1 \in 1..la /\ i + 1 - (m + 1) = i - m
      BY <1>1
    <3> QED BY <1>2, <3>1 DEF Products
  <2> QED BY <2>1
<1>8. Integer(b) \in Int
  <2>1. lb \in Nat /\ Len(b.limbs) <= lb
    BY <1>1
  <2>2. b.limbs \in Seq(Int)
    BY <1>2
  <2> HIDE DEF lb
  <2>3. Integer(b) = Weighed(Limbs(b, lb), lb) /\ Integer(b) \in Int
    BY ONLY <2>1, <2>2, IntegerWeighs
  <2> QED BY <2>3
<1>9. \A m \in 0..(la - 1) : m \in Nat /\ m + lb <= n
  <2> HIDE DEF la, lb
  <2> QED BY <1>1
<1>10. b.limbs \in Seq(Nat) /\ lb = Len(b.limbs)
  OBVIOUS
<1> HIDE DEF n, h, la, lb
<1> DEFINE P(m) == [i \in 1..n |-> SumTo(Products(a, b, i), m)]
           S == {m \in 0..la :
                     Weighed(P(m), n) = Weighed(a.limbs, m) * Integer(b)}
<1>11. /\ Weighed(a.limbs, 0) = 0
       /\ \A m \in 0..la : Weighed(a.limbs, m) \in Int
       /\ \A m \in 0..(la - 1) :
              Weighed(a.limbs, m + 1)
                = Weighed(a.limbs, m) + a.limbs[m + 1] * Pow(Base, m)
  <2>1. la \in Nat /\ \A j \in 1..la : a.limbs[j] \in Int
    BY <1>1, <1>2
  <2> QED BY ONLY <2>1, WeighedSteps
<1>12. ASSUME NEW i \in 1..n
       PROVE  /\ SumTo(Products(a, b, i), 0) = 0
              /\ \A m \in 0..la : SumTo(Products(a, b, i), m) \in Int
              /\ \A m \in 0..(la - 1) :
                     SumTo(Products(a, b, i), m + 1)
                       = SumTo(Products(a, b, i), m)
                           + Products(a, b, i)[m + 1]
  <2>1. la \in Nat /\ \A j \in 1..la : Products(a, b, i)[j] \in Int
    BY <1>1, <1>6
  <2> QED BY ONLY <2>1, Sum
<1>13. 0 \in S
  <2>1. \A i \in 1..n : P(0)[i] = 0
    BY <1>12
  <2>2. Weighed(P(0), n) = 0
    <3> DEFINE f == P(0)
    <3>1. \A i \in 1..n : f[i] = 0
      BY <2>1
    <3> HIDE DEF f
    <3>2. Weighed(f, n) = 0
      BY ONLY <1>1, <3>1, WeighedZeros
    <3> QED BY <3>2 DEF f
  <2>3. 0 * Integer(b) = 0 /\ 0 \in 0..la
    BY <1>1, <1>8
  <2> QED BY <1>11, <2>2, <2>3
<1>14. ASSUME NEW m \in 0..(la - 1), m \in S PROVE m + 1 \in S
  <2> DEFINE f == P(m)
             c == a.limbs[m + 1]
             s == [i \in 1..n |-> Limb(b, i - m)]
             g == [i \in 1..n |-> c * s[i]]
             t == P(m + 1)
  <2>1. m \in 0..la /\ m + 1 \in 0..la /\ m + 1 \in 1..la /\ m \in Nat
    BY <1>1
  <2>2. c \in Int
    BY <1>2, <2>1
  <2>3. \A i \in 1..n : s[i] \in Int
    BY <1>10 DEF Limb
  <2>4. \A i \in 1..n : f[i] \in Int
    BY <1>12, <2>1
  <2>5. \A i \in 1..n : t[i] = f[i] + g[i]
    BY <1>7, <1>12
  <2>6. \A i \in 1..n : g[i] = c * s[i]
    OBVIOUS
  <2>7. Weighed(s, n) = Pow(Base, m) * Integer(b)
    BY <1>1, <1>9, <1>10, ShiftedLimbs
  <2>8. Weighed(f, n) = Weighed(a.limbs, m) * Integer(b)
    BY <1>14
  <2> HIDE DEF f, c, s, g, t
  <2>9. \A i \in 1..n : g[i] \in Int
    BY <2>2, <2>3, <2>6
  <2>10. Weighed(g, n) = c * Weighed(s, n)
    BY ONLY <1>1, <2>2, <2>3, <2>6, WeighedTimes
  <2>11. Weighed(t, n) = Weighed(f, n) + Weighed(g, n)
    BY ONLY <1>1, <2>4, <2>5, <2>9, WeighedPlus
  <2>12. Weighed(a.limbs, m + 1) = Weighed(a.limbs, m) + c * Pow(Base, m)
         /\ Weighed(a.limbs, m) \in Int /\ Pow(Base, m) \in Int
    <3>1. Weighed(a.limbs, m) \in Int /\ Pow(Base, m) \in Int
      BY <1>11, <2>1, PowersOfBase
    <3>2. Weighed(a.limbs, m + 1) = Weighed(a.limbs, m) + c * Pow(Base, m)
      BY <1>11 DEF c
    <3> QED BY <3>1, <3>2
  <2>13. \A w, z, p \in Int : w * z + c * (p * z) = (w + c * p) * z
    BY <2>2
  <2>14. Weighed(t, n) = Weighed(a.limbs, m + 1) * Integer(b)
    BY <1>8, <2>7, <2>8, <2>10, <2>11, <2>12, <2>13
  <2> QED BY <2>1, <2>14 DEF t
<1> HIDE DEF S
<1>15. \A m \in 0..la : m \in S
  <2>1. la \in Nat
    BY <1>1
  <2> QED BY ONLY <2>1, <1>13, <1>14, InductionTo
<1>16. Weighed(h, n) = Weighed(a.limbs, la) * Integer(b)
  <2>1. la \in S
    BY <1>1, <1>15
  <2> QED BY <1>5, <2>1 DEF S
<1>17. h \in [1..n -> Nat]
  BY <1>5, <1>6
<1>18. h \in Seq(Nat) /\ Len(h) = n
  BY <1>1, <1>17
<1>19. h \in Seq(Int)
  BY <1>18
<1>20. recompose(h) = Weighed(h, n)
  BY <1>18, <1>19, RecomposeWeighs
<1>21. Integer(a) = Weighed(a.limbs, la)
  BY <1>2, RecomposeWeighs DEF Integer, la
<1>22. h = MulLimbs(a, b) /\ n = Len(a.limbs) + Len(b.limbs) - 1
  BY DEF h, n, la, lb
<1> QED BY <1>16, <1>18, <1>20, <1>21, <1>22

-------------------------------------------------------------------------------
\* What every element has.

(***************************************************************************)
(* What an element has in every state: limbs that are numbers, counted,    *)
(* and room for them; and it stands for n.                                 *)
(***************************************************************************)
Sized(x) == x.limbs \in Seq(Nat) /\ x.overflow \in Nat /\ Counted(x)

Keeps(x, n) ==
    /\ Len(x.limbs) >= 1
    /\ x.overflow <= max_overflow
    /\ x.overflow = 0 => Len(x.limbs) <= NumLimbs
    /\ IsConstant(x) => x.overflow = 0
    /\ Cong(Integer(x), n)

Sound(x, n) == Sized(x) /\ (IsElement(x) => Keeps(x, n))

(* What has failed stands for any number.                                  *)
LEMMA SoundFailure ==
    ASSUME NEW x, NEW m, NEW n, Sound(x, m), ~IsElement(x)
    PROVE  Sound(x, n)
BY DEF Sound

(* A failure is no element.                                                *)
LEMMA FailsIsSound ==
    ASSUME NEW how, ~(how \in {"allocated", "constant"}), NEW n
    PROVE  Sound(Fails(how), n) /\ ~IsElement(Fails(how))
<1>1. Fails(how).limbs = <<>> /\ Fails(how).overflow = 0 /\ Fails(how).is = how
  BY DEF Fails
<1>2. Sized(Fails(how))
  BY <1>1 DEF Sized, Counted
<1>3. ~IsElement(Fails(how))
  BY <1>1 DEF IsElement
<1> QED BY <1>2, <1>3 DEF Sound

(* What limbs make up is a number.                                         *)
LEMMA SoundInteger ==
    ASSUME NEW x, x.limbs \in Seq(Nat)
    PROVE  Integer(x) \in Int /\ x.limbs \in Seq(Int)
           /\ Integer(x) = recompose(x.limbs)
<1>1. x.limbs \in Seq(Int) /\ Len(x.limbs) \in Nat
      /\ Len(x.limbs) <= Len(x.limbs)
  OBVIOUS
<1> DEFINE n == Len(x.limbs)
<1> HIDE DEF n
<1>2. n \in Nat /\ Len(x.limbs) <= n
  BY <1>1 DEF n
<1>3. Integer(x) = Weighed(Limbs(x, n), n) /\ Integer(x) \in Int
  BY ONLY <1>1, <1>2, IntegerWeighs
<1> QED BY <1>1, <1>3 DEF Integer

(* A number that the limbs hold.                                           *)
LEMMA FreshIsSound ==
    ASSUME NEW n \in Nat, n < Pow(Base, NumLimbs), NEW m \in Int, Cong(n, m),
           NEW x, x.limbs = Decompose(n, NumLimbs), x.overflow = 0
    PROVE  Sound(x, m) /\ Integer(x) = n
<1>1. NumLimbs \in Nat \ {0, 1} /\ Base \in Nat \ {0, 1} /\ max_overflow \in Nat
  BY FieldNumbers
<1>2. /\ x.limbs \in Seq(0..(Base - 1)) /\ Len(x.limbs) = NumLimbs
  BY <1>1, DecomposeLimbs
<1>3. x.limbs \in Seq(Nat)
  BY <1>1, <1>2
<1>4. Integer(x) = n
  BY <1>1, DecomposeIsInverse DEF Integer
<1>5. ASSUME NEW i \in DOMAIN x.limbs
      PROVE  x.limbs[i] <= (Base - 1) * Pow(2, x.overflow)
  <2> DEFINE D == 0..(Base - 1)
             l == x.limbs
  <2>3. l \in Seq(D) /\ i \in DOMAIN l
    BY <1>2
  <2> HIDE DEF D, l
  <2>4. l[i] \in D
    BY <2>3
  <2>1. x.limbs[i] \in 0..(Base - 1)
    BY <2>4 DEF D, l
  <2>2. Pow(2, x.overflow) = 1
    BY PowersOfTwo
  <2> QED BY <1>1, <2>1, <2>2
<1>6. Sized(x)
  BY <1>3, <1>5 DEF Sized, Counted
<1>7. Keeps(x, m)
  BY <1>1, <1>2, <1>4 DEF Keeps
<1> QED BY <1>4, <1>6, <1>7 DEF Sound

(* A number that is allocated.                                             *)
LEMMA AllocateIsSound ==
    ASSUME NEW n \in Nat, n < Pow(Base, NumLimbs), NEW m \in Int, Cong(n, m)
    PROVE  Sound(Allocate(n), m) /\ Allocate(n).overflow = 0
           /\ IsElement(Allocate(n)) /\ Integer(Allocate(n)) = n
           /\ Len(Allocate(n).limbs) = NumLimbs
<1> DEFINE x == Allocate(n)
<1>1. x.limbs = Decompose(n, NumLimbs) /\ x.overflow = 0 /\ IsElement(x)
  BY DEF Allocate, Allocated, IsElement
<1>2. NumLimbs \in Nat
  BY FieldNumbers
<1> HIDE DEF x
<1>3. Sound(x, m) /\ Integer(x) = n
  BY <1>1, FreshIsSound
<1>4. Len(x.limbs) = NumLimbs
  BY <1>1, <1>2, DecomposeLimbs
<1> QED BY <1>1, <1>3, <1>4 DEF x

(* A constant.                                                             *)
LEMMA FromIsSound ==
    ASSUME NEW n \in Nat, NEW m \in Int, Cong(n, m)
    PROVE  Sound(From(n), m)
<1>1. Modulus \in Nat \ {0} /\ Modulus < Pow(Base, NumLimbs)
      /\ Pow(Base, NumLimbs) \in Nat
  <2>1. NumLimbs \in Nat
    BY FieldNumbers
  <2> QED BY <2>1, FieldNumbers, PowersOfBase
<1> DEFINE r == IF n > Modulus THEN n % Modulus ELSE n
<1>2. r \in Nat /\ r < Pow(Base, NumLimbs) /\ Cong(r, m)
  <2>1. CASE n > Modulus
    <3>1. n % Modulus \in 0..(Modulus - 1) /\ Cong(n % Modulus, n)
      BY CongRemainder
    <3>2. n % Modulus \in Nat /\ n % Modulus < Modulus /\ n % Modulus \in Int
      BY <1>1, <3>1
    <3>3. Cong(n % Modulus, m)
      BY <3>1, <3>2, CongTransitive
    <3>4. r = n % Modulus
      BY <2>1
    <3> HIDE DEF r
    <3> QED BY <1>1, <3>2, <3>3, <3>4
  <2>2. CASE ~(n > Modulus)
    BY <1>1, <2>2
  <2> QED BY <2>1, <2>2
<1> DEFINE x == From(n)
<1>3. x.limbs = Decompose(r, NumLimbs) /\ x.overflow = 0
  BY DEF From, Constant
<1> HIDE DEF r, x
<1>4. Sound(x, m)
  BY <1>2, <1>3, FreshIsSound
<1> QED BY <1>4 DEF x

-----------------------------------------------------------------------------
(* Checks tell how they end, never what an element is.                     *)
LEMMA IsMultipleEnds ==
    ASSUME NEW diff
    PROVE  ~(IsMultiple(diff) \in {"allocated", "constant"})
<1>1. \A a, b, g, o :
          assert_limbs_equality_slow(a, b, g, o) \in {"panic", "holds", "unsat"}
  BY DEF assert_limbs_equality_slow
<1>2. \A a, b : assert_limbs_equality(a, b) \in {"panic", "holds", "unsat"}
  BY <1>1 DEF assert_limbs_equality, EqualInGroups
<1>3. CASE ~IsElement(diff)
  <2>1. IsMultiple(diff) = diff.is
    BY <1>3 DEF IsMultiple
  <2> QED BY <1>3, <2>1 DEF IsElement
<1>4. CASE IsElement(diff)
  <2>1. IsMultiple(diff) = "unsat"
        \/ \E a, b : IsMultiple(diff) = assert_limbs_equality(a, b)
    BY <1>4 DEF IsMultiple
  <2> QED BY <1>2, <2>1
<1> QED BY <1>3, <1>4

(* Nor is the outcome of a comparison.                                     *)
LEMMA EqualityEnds ==
    ASSUME NEW a, NEW b
    PROVE  ~(assert_is_equal(a, b) \in {"allocated", "constant"})
BY IsMultipleEnds DEF assert_is_equal

(* An element, or the failure of its check.                                *)
LEMMA ProvidedIsSound ==
    ASSUME NEW check, ~(check \in {"allocated", "constant"}), NEW n,
           NEW x, Sound(x, n)
    PROVE  /\ Sound(Provided(check, x), n)
           /\ IsElement(Provided(check, x)) => Provided(check, x) = x
<1>1. CASE check = "holds"
  BY <1>1 DEF Provided
<1>2. CASE check # "holds"
  BY <1>2, FailsIsSound DEF Provided
<1> QED BY <1>1, <1>2

(* reduce keeps the number.                                                *)
LEMMA ReduceIsSound ==
    ASSUME NEW n \in Int, NEW x, Sound(x, n)
    PROVE  /\ Sound(reduce(x), n)
           /\ IsElement(reduce(x)) => reduce(x).overflow = 0
<1> DEFINE r == Allocate(Integer(x) % Modulus)
<1>1. CASE ~IsElement(x)
  <2>1. reduce(x) = x
    BY <1>1 DEF reduce
  <2> QED BY <1>1, <2>1
<1>2. CASE IsElement(x) /\ x.overflow + 2 > max_overflow
  <2>1. reduce(x) = Fails("panic")
    BY <1>2 DEF reduce
  <2> QED BY <2>1, FailsIsSound
<1>3. CASE IsElement(x) /\ ~(x.overflow + 2 > max_overflow) /\ x.overflow = 0
  <2>1. reduce(x) = x
    BY <1>3 DEF reduce
  <2> QED BY <1>3, <2>1
<1>4. CASE IsElement(x) /\ ~(x.overflow + 2 > max_overflow) /\ x.overflow # 0
  <2> DEFINE check == IsMultiple(Compute("sub", r, x))
  <2>1. reduce(x) = Provided(check, r)
    BY <1>4 DEF reduce
  <2>2. Integer(x) \in Int /\ Cong(Integer(x), n)
    BY <1>4, SoundInteger DEF Sound, Sized, Keeps
  <2> DEFINE k == Integer(x) % Modulus
  <2>3. k \in 0..(Modulus - 1) /\ Cong(k, Integer(x))
    BY <2>2, CongRemainder
  <2>4. Modulus \in Nat \ {0} /\ Modulus < Pow(Base, NumLimbs)
        /\ Pow(Base, NumLimbs) \in Nat
    <3>1. NumLimbs \in Nat
      BY FieldNumbers
    <3> QED BY <3>1, FieldNumbers, PowersOfBase
  <2> HIDE DEF k
  <2>5. k \in Nat /\ k < Pow(Base, NumLimbs) /\ k \in Int
    BY <2>3, <2>4
  <2>6. Cong(k, n)
    BY <2>2, <2>3, <2>5, CongTransitive
  <2>7. Sound(Allocate(k), n) /\ Allocate(k).overflow = 0
    BY <2>5, <2>6, AllocateIsSound
  <2>8. r = Allocate(k)
    BY DEF k
  <2>9. ~(check \in {"allocated", "constant"})
    BY IsMultipleEnds
  <2> HIDE DEF r, check
  <2>10. Sound(Provided(check, r), n)
         /\ (IsElement(Provided(check, r)) => Provided(check, r) = r)
    BY <2>7, <2>8, <2>9, ProvidedIsSound
  <2> QED BY <2>1, <2>7, <2>8, <2>10
<1> QED BY <1>1, <1>2, <1>3, <1>4

(* No limb that is counted reaches the native prime.                       *)
LEMMA CountedIsNotWrapped ==
    ASSUME NEW limbs \in Seq(Nat), NEW o \in Nat, o <= max_overflow,
           \A i \in DOMAIN limbs : limbs[i] <= (Base - 1) * Pow(2, o)
    PROVE  Wrapped(limbs) = limbs
<1> DEFINE n == Len(limbs)
<1>1. n \in Nat /\ DOMAIN limbs = 1..n /\ limbs \in [1..n -> Nat]
  OBVIOUS
<1> HIDE DEF n
<1>2. /\ Base - 1 \in Nat /\ Native \in Nat \ {0} /\ max_overflow \in Nat
      /\ (Base - 1) * Pow(2, max_overflow) < Native
  BY FieldNumbers
<1>3. /\ Pow(2, o) \in Nat /\ Pow(2, max_overflow) \in Nat
      /\ Pow(2, o) <= Pow(2, max_overflow)
  <2>1. max_overflow \in Nat /\ 2 \in Nat \ {0} /\ o \in Nat
    BY <1>2
  <2>2. Pow(2, o) <= Pow(2, max_overflow)
    BY ONLY <2>1, o <= max_overflow, PowerGrows
  <2> QED BY <2>1, <2>2, PowersOfTwo
<1>4. (Base - 1) * Pow(2, o) <= (Base - 1) * Pow(2, max_overflow)
  <2>1. \A b, x, y \in Nat : x <= y => b * x <= b * y
    OBVIOUS
  <2> QED BY <1>2, <1>3, <2>1
<1>5. ASSUME NEW i \in 1..n PROVE limbs[i] % Native = limbs[i]
  <2> DEFINE l == limbs[i]
             p == (Base - 1) * Pow(2, o)
             q == (Base - 1) * Pow(2, max_overflow)
  <2>1. l \in Nat /\ p \in Nat /\ q \in Nat /\ l <= p /\ p <= q /\ q < Native
    <3>1. l \in Nat /\ l <= p
      BY <1>1
    <3>2. \A b, x \in Nat : b * x \in Nat
      OBVIOUS
    <3>3. p \in Nat /\ q \in Nat
      BY <1>2, <1>3, <3>2
    <3> QED BY <1>2, <1>4, <3>1, <3>3
  <2> HIDE DEF l, p, q
  <2>2. l \in 0..(Native - 1) /\ l = Native * 0 + l
    BY <1>2, <2>1
  <2>3. l % Native = l
    <3>1. l \in Int /\ 0 \in Int /\ Native \in Nat \ {0}
      BY <1>2, <2>1
    <3> QED BY ONLY <2>2, <3>1, RemainderIsUnique
  <2> QED BY <2>3 DEF l
<1>6. Wrapped(limbs) = [i \in 1..n |-> limbs[i]]
  BY <1>1, <1>5 DEF Wrapped
<1> QED BY <1>1, <1>6

(* A result with limbs that are counted, and that fit.                     *)
LEMMA ResultIsSound ==
    ASSUME NEW limbs \in Seq(Nat), NEW o \in Nat, o <= max_overflow,
           \A i \in DOMAIN limbs : limbs[i] <= (Base - 1) * Pow(2, o),
           Len(limbs) >= 1, o = 0 => Len(limbs) <= NumLimbs,
           NEW n, Cong(recompose(limbs), n)
    PROVE  Sound(Allocated(Wrapped(limbs), o), n)
<1> DEFINE x == Allocated(Wrapped(limbs), o)
<1>1. Wrapped(limbs) = limbs
  BY CountedIsNotWrapped
<1>2. x.limbs = limbs /\ x.overflow = o /\ x.is = "allocated"
  BY <1>1 DEF Allocated
<1> HIDE DEF x
<1>3. Sized(x)
  BY <1>2 DEF Sized, Counted
<1>4. Keeps(x, n)
  BY <1>2 DEF Keeps, Integer, IsConstant
<1>5. Sound(x, n)
  BY <1>3, <1>4 DEF Sound
<1> QED BY <1>5 DEF x

-----------------------------------------------------------------------------
(* add_precondition counts the limbs of a sum.                             *)
LEMMA AddIsCounted ==
    ASSUME NEW a, NEW b, Sized(a), Sized(b),
           NEW i \in DOMAIN AddLimbs(a, b)
    PROVE  AddLimbs(a, b)[i] <= (Base - 1) * Pow(2, NextOverflow("add", a, b))
<1> DEFINE o == Max({a.overflow, b.overflow})
           d == Base - 1
<1>1. /\ a.overflow \in Nat /\ b.overflow \in Nat
      /\ a.limbs \in Seq(Nat) /\ b.limbs \in Seq(Nat)
  BY DEF Sized
<1>2. d \in Nat
  BY FieldNumbers
<1>3. o \in Nat /\ a.overflow <= o /\ b.overflow <= o
  <2>1. a.overflow \in Int /\ b.overflow \in Int
    BY <1>1
  <2>2. o = IF a.overflow < b.overflow THEN b.overflow ELSE a.overflow
    BY ONLY <2>1, MaxOfTwo DEF o
  <2> HIDE DEF o
  <2> QED BY <1>1, <2>2
<1>4. NextOverflow("add", a, b) = o + 1
  BY DEF NextOverflow
<1> HIDE DEF o, d
<1>5. /\ Pow(2, o) \in Nat /\ Pow(2, o + 1) = 2 * Pow(2, o)
      /\ Pow(2, a.overflow) \in Nat /\ Pow(2, b.overflow) \in Nat
      /\ Pow(2, a.overflow) <= Pow(2, o) /\ Pow(2, b.overflow) <= Pow(2, o)
  <2>1. 2 \in Nat \ {0}
    OBVIOUS
  <2> QED BY <1>1, <1>3, <2>1, PowersOfTwo, PowerGrows
<1>6. ASSUME NEW x, Sized(x), x.overflow \in Nat,
             Pow(2, x.overflow) \in Nat, Pow(2, x.overflow) <= Pow(2, o)
      PROVE  Limb(x, i) \in Nat /\ Limb(x, i) <= d * Pow(2, o)
  <2>1. d * Pow(2, o) \in Nat /\ d * Pow(2, x.overflow) \in Nat
        /\ d * Pow(2, x.overflow) <= d * Pow(2, o)
    BY <1>2, <1>5, <1>6
  <2>2. CASE i \in DOMAIN x.limbs
    <3>1. x.limbs[i] \in Nat
      BY <1>6, <2>2 DEF Sized
    <3>2. x.limbs[i] <= d * Pow(2, x.overflow)
      BY <1>6, <2>2 DEF Sized, Counted, d
    <3>3. Limb(x, i) = x.limbs[i]
      BY <2>2 DEF Limb
    <3> QED BY <2>1, <3>1, <3>2, <3>3
  <2>3. CASE ~(i \in DOMAIN x.limbs)
    BY <2>1, <2>3 DEF Limb
  <2> QED BY <2>2, <2>3
<1>7. Limb(a, i) \in Nat /\ Limb(a, i) <= d * Pow(2, o)
  BY <1>1, <1>5, <1>6
<1>8. Limb(b, i) \in Nat /\ Limb(b, i) <= d * Pow(2, o)
  BY <1>1, <1>5, <1>6
<1>9. AddLimbs(a, b)[i] = Limb(a, i) + Limb(b, i)
  BY DEF AddLimbs
<1>10. d * Pow(2, o + 1) = d * Pow(2, o) + d * Pow(2, o) /\ d * Pow(2, o) \in Nat
  <2>1. \A p \in Nat : d * (2 * p) = d * p + d * p /\ d * p \in Nat
    BY <1>2
  <2> QED BY <1>5, <2>1
<1>11. AddLimbs(a, b)[i] <= d * Pow(2, o + 1)
  BY <1>7, <1>8, <1>9, <1>10
<1> QED BY <1>4, <1>11 DEF d

(* mul_precondition counts the limbs of a product.                         *)
LEMMA MulIsCounted ==
    ASSUME NEW a, NEW b, Sized(a), Sized(b),
           Len(a.limbs) >= 1, Len(b.limbs) >= 1,
           NEW i \in DOMAIN MulLimbs(a, b)
    PROVE  /\ MulLimbs(a, b)[i]
                <= (Base - 1) * Pow(2, NextOverflow("mul", a, b))
           /\ NextOverflow("mul", a, b) \in Nat \ {0}
<1> DEFINE la == Len(a.limbs)
           lb == Len(b.limbs)
           l == Min({la, lb})
           d == Base - 1
           p == Pow(2, a.overflow)
           q == Pow(2, b.overflow)
           r == Pow(2, CeilLog2(l))
           s == MulLimbs(a, b)[i]
<1>1. /\ a.overflow \in Nat /\ b.overflow \in Nat
      /\ a.limbs \in Seq(Nat) /\ b.limbs \in Seq(Nat)
  BY DEF Sized
<1>2. d \in Nat /\ d <= Base /\ Base \in Nat /\ BitsPerLimb \in Nat \ {0}
  BY FieldNumbers
<1>3. p \in Nat /\ q \in Nat
  BY <1>1, PowersOfTwo
<1>4. la \in Nat /\ lb \in Nat /\ la >= 1 /\ lb >= 1
  BY <1>1
<1>5. l \in Nat \ {0} /\ (l = la \/ l = lb)
  <2> HIDE DEF la, lb, l
  <2>1. l = Min({la, lb}) /\ la \in Int /\ lb \in Int
    BY <1>4 DEF l
  <2>2. l = IF la < lb THEN la ELSE lb
    BY ONLY <2>1, MinOfTwo
  <2> QED BY <1>4, <2>2
<1>6. CeilLog2(l) \in Nat /\ l <= r /\ r \in Nat
  <2> HIDE DEF l
  <2>1. CeilLog2(l) \in Nat /\ l <= Pow(2, CeilLog2(l))
    BY ONLY <1>5, CeilLog2Holds
  <2> QED BY <2>1, PowersOfTwo
<1>7. NextOverflow("mul", a, b)
        = BitsPerLimb + a.overflow + b.overflow + CeilLog2(l)
  BY DEF NextOverflow
<1>8. /\ \A j \in DOMAIN a.limbs : a.limbs[j] <= d * p
      /\ \A j \in DOMAIN b.limbs : b.limbs[j] <= d * q
      /\ d * p \in Nat /\ d * q \in Nat
  <2>1. d * p \in Nat /\ d * q \in Nat
    <3> HIDE DEF d, p, q
    <3> QED BY <1>2, <1>3
  <2> QED BY <2>1 DEF Sized, Counted
<1>9. i \in Nat /\ s = SumTo(Products(a, b, i), la)
  <2>1. DOMAIN MulLimbs(a, b) = 1..(la + lb - 1)
    BY DEF MulLimbs
  <2>2. i \in 1..(la + lb - 1)
    BY <2>1
  <2>3. s = SumTo(Products(a, b, i), la)
    BY <2>2 DEF MulLimbs, Products
  <2> QED BY <1>4, <2>2, <2>3
<1> DEFINE t == (d * p) * (d * q)
<1>10. /\ SumTo(Products(a, b, i), la) \in Nat
       /\ SumTo(Products(a, b, i), la) <= la * t
       /\ SumTo(Products(a, b, i), la) <= lb * t
  <2> DEFINE u == d * p
             v == d * q
  <2>1. /\ u \in Nat /\ v \in Nat /\ i \in Nat
        /\ \A j \in DOMAIN a.limbs : a.limbs[j] <= u
        /\ \A j \in DOMAIN b.limbs : b.limbs[j] <= v
    BY <1>8, <1>9
  <2> HIDE DEF u, v
  <2>2. /\ SumTo(Products(a, b, i), la) \in Nat
        /\ SumTo(Products(a, b, i), la) <= la * (u * v)
        /\ SumTo(Products(a, b, i), la) <= lb * (u * v)
    BY ONLY <1>1, <2>1, ProductsAreCounted
  <2> QED BY <2>2 DEF u, v
<1> HIDE DEF la, lb, l, s, t
<1>11. s \in Nat /\ s <= l * t
  BY <1>5, <1>9, <1>10
<1>12. t \in Nat
  <2> HIDE DEF d, p, q
  <2>1. \A x, y \in Nat : x * y \in Nat
    OBVIOUS
  <2> QED BY <1>8, <2>1 DEF t
<1>13. l * t <= r * t /\ l * t \in Nat /\ r * t \in Nat
  <2>1. \A x, y, z \in Nat : /\ x <= y => x * z <= y * z
                             /\ x * z \in Nat
    OBVIOUS
  <2> HIDE DEF r
  <2> QED BY <1>5, <1>6, <1>12, <2>1
<1>14. Pow(2, NextOverflow("mul", a, b)) = ((Base * p) * q) * r
  <2> DEFINE m == BitsPerLimb + a.overflow
             n == m + b.overflow
             k == CeilLog2(l)
  <2>1. m \in Nat /\ n \in Nat /\ k \in Nat /\ 2 \in Int /\ BitsPerLimb \in Nat
    <3>1. m \in Nat
      BY <1>1, <1>2
    <3>2. n \in Nat
      BY <1>1, <3>1
    <3> QED BY <1>2, <1>6, <3>1, <3>2
  <2>2. Pow(2, m) = Base * p
    BY <1>1, <2>1, PowerSum DEF Base
  <2> HIDE DEF m
  <2>3. Pow(2, n) = Pow(2, m) * q
    BY <1>1, <2>1, PowerSum
  <2> HIDE DEF n, k
  <2>4. Pow(2, n + k) = Pow(2, n) * Pow(2, k)
    BY <2>1, PowerSum
  <2>5. NextOverflow("mul", a, b) = n + k
    BY <1>7 DEF m, n, k
  <2>6. r = Pow(2, k)
    BY DEF k
  <2> QED BY <2>2, <2>3, <2>4, <2>5, <2>6
<1>15. r * t <= d * (((Base * p) * q) * r)
  <2> HIDE DEF d, p, q, r
  <2>1. \A x, y, z \in Nat : /\ x <= y => z * x <= z * y
                             /\ z * x \in Nat
    OBVIOUS
  <2> DEFINE w == d * ((p * q) * r)
  <2>2. w \in Nat
    BY <1>2, <1>3, <1>6, <2>1
  <2>3. r * t = w * d
    <3>1. \A e, x, y, z \in Int : z * ((e * x) * (e * y)) = (e * ((x * y) * z)) * e
      OBVIOUS
    <3> QED BY <1>2, <1>3, <1>6, <3>1 DEF t
  <2>4. d * (((Base * p) * q) * r) = w * Base
    <3>1. \A e, x, y, z, c \in Int :
              e * (((c * x) * y) * z) = (e * ((x * y) * z)) * c
      OBVIOUS
    <3> QED BY <1>2, <1>3, <1>6, <3>1
  <2> HIDE DEF w
  <2> QED BY <1>2, <2>1, <2>2, <2>3, <2>4
<1>16. s <= d * Pow(2, NextOverflow("mul", a, b))
  <2> DEFINE x == l * t
             y == r * t
             z == d * (((Base * p) * q) * r)
  <2>1. z \in Nat
    <3>1. \A u, v \in Nat : u * v \in Nat
      OBVIOUS
    <3> HIDE DEF d, p, q, r
    <3> QED BY <1>2, <1>3, <1>6, <3>1
  <2>2. s <= x /\ x <= y /\ y <= z /\ x \in Nat /\ y \in Nat /\ s \in Nat
    BY <1>11, <1>13, <1>15
  <2> HIDE DEF x, y, z
  <2>3. s <= z
    BY <2>1, <2>2
  <2> QED BY <1>14, <2>3 DEF z
<1>17. NextOverflow("mul", a, b) \in Nat \ {0}
  BY <1>1, <1>2, <1>6, <1>7
<1> QED BY <1>16, <1>17 DEF s, d

-------------------------------------------------------------------------------
\* The operations keep it.

OfIntegers(op, m, n) == IF op = "add" THEN m + n ELSE m * n

(* Congruent operands have congruent results.                              *)
LEMMA CongOfIntegers ==
    ASSUME NEW op, NEW a \in Int, NEW b \in Int, NEW m \in Int, NEW n \in Int,
           Cong(a, m), Cong(b, n)
    PROVE  /\ OfIntegers(op, m, n) \in Int /\ OfIntegers(op, a, b) \in Int
           /\ Cong(OfIntegers(op, a, b), OfIntegers(op, m, n))
<1>1. Cong(a + b, m + n) /\ a + b \in Int /\ m + n \in Int
  BY CongPlus
<1>2. Cong(a * b, m * n) /\ a * b \in Int /\ m * n \in Int
  BY CongTimes
<1>3. CASE op = "add"
  BY <1>1, <1>3 DEF OfIntegers
<1>4. CASE op # "add"
  BY <1>2, <1>4 DEF OfIntegers
<1> QED BY <1>3, <1>4

(* A sum or product whose limbs fit stands for that of the numbers.        *)
LEMMA ComputeIsSound ==
    ASSUME NEW op \in {"add", "mul"}, NEW a, NEW b,
           NEW m \in Int, NEW n \in Int, Sound(a, m), Sound(b, n),
           IsElement(a) /\ IsElement(b) => NextOverflow(op, a, b) <= max_overflow
    PROVE  Sound(Compute(op, a, b), OfIntegers(op, m, n))
<1> DEFINE v == OfIntegers(op, m, n)
<1>1. CASE ~IsElement(a)
  <2>1. Compute(op, a, b) = a
    BY <1>1 DEF Compute
  <2> QED BY <1>1, <2>1, SoundFailure
<1>2. CASE IsElement(a) /\ ~IsElement(b)
  <2>1. Compute(op, a, b) = b
    BY <1>2 DEF Compute
  <2> QED BY <1>2, <2>1, SoundFailure
<1>3. ASSUME IsElement(a), IsElement(b)
      PROVE  /\ Sized(a) /\ Sized(b) /\ Keeps(a, m) /\ Keeps(b, n)
             /\ Integer(a) \in Int /\ Integer(b) \in Int
             /\ v \in Int /\ OfIntegers(op, Integer(a), Integer(b)) \in Int
             /\ Cong(OfIntegers(op, Integer(a), Integer(b)), v)
  <2>1. Sized(a) /\ Sized(b) /\ Keeps(a, m) /\ Keeps(b, n)
    BY <1>3 DEF Sound
  <2>2. Integer(a) \in Int /\ Integer(b) \in Int
    BY <2>1, SoundInteger DEF Sized
  <2>3. Cong(Integer(a), m) /\ Cong(Integer(b), n)
    BY <2>1 DEF Keeps
  <2> QED BY <2>1, <2>2, <2>3, CongOfIntegers
<1>4. CASE IsElement(a) /\ IsElement(b) /\ IsConstant(a) /\ IsConstant(b)
  <2> DEFINE w == OfIntegers(op, Integer(a), Integer(b))
             r == w % Modulus
  <2>1. w \in Int /\ v \in Int /\ Cong(w, v)
    BY <1>3, <1>4
  <2>2. Compute(op, a, b) = From(r)
    BY <1>4 DEF Compute, OfConstants, OfIntegers
  <2> HIDE DEF v, w
  <2>3. r \in 0..(Modulus - 1) /\ Cong(r, w)
    BY <2>1, CongRemainder
  <2> HIDE DEF r
  <2>4. r \in Nat /\ r \in Int
    BY <2>3, FieldNumbers
  <2>5. Cong(r, v)
    BY <2>1, <2>3, <2>4, CongTransitive
  <2>6. Sound(From(r), v)
    BY <2>1, <2>4, <2>5, FromIsSound
  <2> QED BY <2>2, <2>6 DEF v
<1>5. CASE IsElement(a) /\ IsElement(b) /\ ~(IsConstant(a) /\ IsConstant(b))
  <2> DEFINE limbs == IF op = "add" THEN AddLimbs(a, b) ELSE MulLimbs(a, b)
             o == NextOverflow(op, a, b)
  <2>1. Compute(op, a, b) = Allocated(Wrapped(limbs), o)
    BY <1>5 DEF Compute
  <2>2. /\ Sized(a) /\ Sized(b) /\ a.limbs \in Seq(Nat) /\ b.limbs \in Seq(Nat)
        /\ Len(a.limbs) >= 1 /\ Len(b.limbs) >= 1
        /\ a.overflow \in Nat /\ b.overflow \in Nat
    BY <1>3, <1>5 DEF Sized, Keeps
  <2>3. /\ limbs \in Seq(Nat) /\ Len(limbs) >= 1
        /\ recompose(limbs) = OfIntegers(op, Integer(a), Integer(b))
        /\ o \in Nat /\ o # 0
        /\ \A i \in DOMAIN limbs : limbs[i] <= (Base - 1) * Pow(2, o)
    <3>1. CASE op = "add"
      <4>1. /\ AddLimbs(a, b) \in Seq(Nat)
            /\ Len(AddLimbs(a, b)) = Longest(a, b)
            /\ recompose(AddLimbs(a, b)) = Integer(a) + Integer(b)
        BY <2>2, AddLimbsAdd
      <4>2. Longest(a, b) >= 1
        <5>1. Len(a.limbs) \in Int /\ Len(b.limbs) \in Int
          BY <2>2
        <5>2. Longest(a, b) = IF Len(a.limbs) < Len(b.limbs)
                              THEN Len(b.limbs) ELSE Len(a.limbs)
          BY ONLY <5>1, MaxOfTwo DEF Longest
        <5> QED BY <2>2, <5>2
      <4>3. NextOverflow("add", a, b) \in Nat /\ NextOverflow("add", a, b) # 0
        <5>1. a.overflow \in Int /\ b.overflow \in Int
          BY <2>2
        <5>2. Max({a.overflow, b.overflow})
                = IF a.overflow < b.overflow THEN b.overflow ELSE a.overflow
          BY ONLY <5>1, MaxOfTwo
        <5>3. NextOverflow("add", a, b) = Max({a.overflow, b.overflow}) + 1
          BY DEF NextOverflow
        <5> QED BY <2>2, <5>2, <5>3
      <4>4. limbs = AddLimbs(a, b)
            /\ OfIntegers(op, Integer(a), Integer(b)) = Integer(a) + Integer(b)
        BY <3>1 DEF OfIntegers
      <4>5. \A i \in DOMAIN AddLimbs(a, b) :
                AddLimbs(a, b)[i]
                  <= (Base - 1) * Pow(2, NextOverflow("add", a, b))
        BY <2>2, AddIsCounted
      <4> HIDE DEF limbs
      <4> QED BY <3>1, <4>1, <4>2, <4>3, <4>4, <4>5
    <3>2. CASE op = "mul"
      <4>1. /\ MulLimbs(a, b) \in Seq(Nat)
            /\ Len(MulLimbs(a, b)) = Len(a.limbs) + Len(b.limbs) - 1
            /\ recompose(MulLimbs(a, b)) = Integer(a) * Integer(b)
        BY <2>2, MulLimbsMultiply
      <4>2. limbs = MulLimbs(a, b)
            /\ OfIntegers(op, Integer(a), Integer(b)) = Integer(a) * Integer(b)
        BY <3>2 DEF OfIntegers
      <4>3. Len(MulLimbs(a, b)) >= 1
        <5> DEFINE la == Len(a.limbs)
                   lb == Len(b.limbs)
        <5>1. la \in Nat /\ lb \in Nat /\ la >= 1 /\ lb >= 1
          BY <2>2
        <5> HIDE DEF la, lb
        <5>2. la + lb - 1 >= 1
          BY <5>1
        <5> QED BY <4>1, <5>2 DEF la, lb
      <4>4. \A i \in DOMAIN MulLimbs(a, b) :
                /\ MulLimbs(a, b)[i]
                     <= (Base - 1) * Pow(2, NextOverflow("mul", a, b))
                /\ NextOverflow("mul", a, b) \in Nat \ {0}
        BY <2>2, MulIsCounted
      <4>5. 1 \in DOMAIN MulLimbs(a, b)
        <5> DEFINE s == MulLimbs(a, b)
        <5>1. s \in Seq(Nat) /\ Len(s) >= 1
          BY <4>1, <4>3
        <5> HIDE DEF s
        <5>2. 1 \in DOMAIN s
          BY <5>1
        <5> QED BY <5>2 DEF s
      <4> HIDE DEF limbs
      <4> QED BY <3>2, <4>1, <4>2, <4>3, <4>4, <4>5
    <3> QED BY <3>1, <3>2
  <2>4. o <= max_overflow /\ Cong(recompose(limbs), v)
    BY <1>3, <1>5, <2>3
  <2> HIDE DEF limbs, o, v
  <2>5. Sound(Allocated(Wrapped(limbs), o), v)
    BY <2>3, <2>4, ResultIsSound
  <2> QED BY <2>1, <2>5 DEF v
<1> QED BY <1>1, <1>2, <1>4, <1>5

-----------------------------------------------------------------------------
(* Reducing the one with more overflow, twice, makes room.                 *)
Pair(p, m, n) == p = <<p[1], p[2]>> /\ Sound(p[1], m) /\ Sound(p[2], n)

Roomy(op, p) ==
    IsElement(p[1]) /\ IsElement(p[2]) =>
        NextOverflow(op, p[1], p[2]) <= max_overflow

(* What the preconditions compute.                                         *)
LEMMA NextOverflowIsNatural ==
    ASSUME NEW op \in {"add", "mul"}, NEW a, NEW b, NEW m, NEW n,
           Sound(a, m), Sound(b, n), IsElement(a), IsElement(b)
    PROVE  NextOverflow(op, a, b) \in Nat
<1>1. /\ a.overflow \in Nat /\ b.overflow \in Nat
      /\ Len(a.limbs) \in Nat \ {0} /\ Len(b.limbs) \in Nat \ {0}
  <2>1. /\ a.overflow \in Nat /\ b.overflow \in Nat
        /\ Len(a.limbs) \in Nat /\ Len(b.limbs) \in Nat
    BY DEF Sound, Sized
  <2>2. Len(a.limbs) >= 1 /\ Len(b.limbs) >= 1
    BY DEF Sound, Keeps
  <2> DEFINE la == Len(a.limbs)
             lb == Len(b.limbs)
  <2>3. la \in Nat /\ lb \in Nat /\ la >= 1 /\ lb >= 1
    BY <2>1, <2>2
  <2> HIDE DEF la, lb
  <2>4. la \in Nat \ {0} /\ lb \in Nat \ {0}
    BY <2>3
  <2> QED BY <2>1, <2>4 DEF la, lb
<1>2. CASE op = "add"
  <2> DEFINE o == Max({a.overflow, b.overflow})
  <2>1. a.overflow \in Int /\ b.overflow \in Int
    BY <1>1
  <2>2. o = IF a.overflow < b.overflow THEN b.overflow ELSE a.overflow
    BY ONLY <2>1, MaxOfTwo DEF o
  <2>3. NextOverflow(op, a, b) = o + 1
    BY <1>2 DEF NextOverflow
  <2> HIDE DEF o
  <2> QED BY <1>1, <2>2, <2>3
<1>3. CASE op = "mul"
  <2> DEFINE la == Len(a.limbs)
             lb == Len(b.limbs)
             l == Min({la, lb})
  <2>1. la \in Nat \ {0} /\ lb \in Nat \ {0}
    BY <1>1
  <2>2. NextOverflow(op, a, b)
          = BitsPerLimb + a.overflow + b.overflow + CeilLog2(l)
    BY <1>3 DEF NextOverflow
  <2> HIDE DEF la, lb
  <2>3. la \in Int /\ lb \in Int
    BY <2>1
  <2>4. l = IF la < lb THEN la ELSE lb
    BY ONLY <2>3, MinOfTwo DEF l
  <2> HIDE DEF l
  <2>5. l \in Nat \ {0}
    BY <2>1, <2>4
  <2>6. CeilLog2(l) \in Nat /\ BitsPerLimb \in Nat
    BY <2>5, CeilLog2Holds, FieldNumbers
  <2> QED BY <1>1, <2>2, <2>6
<1> QED BY <1>2, <1>3

(* Two elements without overflow can be added and multiplied.              *)
LEMMA ReducedHaveRoom ==
    ASSUME NEW op \in {"add", "mul"}, NEW a, NEW b, NEW m, NEW n,
           Sound(a, m), Sound(b, n), IsElement(a), IsElement(b),
           a.overflow = 0, b.overflow = 0
    PROVE  NextOverflow(op, a, b) <= max_overflow
<1>1. /\ BitsPerLimb \in Nat \ {0} /\ NumLimbs \in Nat \ {0, 1}
      /\ max_overflow \in Nat /\ BitsPerLimb <= max_overflow
      /\ BitsPerLimb + CeilLog2(NumLimbs) < max_overflow
  BY FieldNumbers
<1>2. CASE op = "add"
  <2>1. 0 \in Int
    OBVIOUS
  <2>2. Max({0, 0}) = 0
    BY <2>1, MaxOfTwo
  <2>3. NextOverflow(op, a, b) = 0 + 1
    BY <1>2, <2>2 DEF NextOverflow
  <2> QED BY <1>1, <2>3
<1>3. CASE op = "mul"
  <2> DEFINE la == Len(a.limbs)
             lb == Len(b.limbs)
             l == Min({la, lb})
  <2>1. /\ la \in Nat /\ lb \in Nat /\ la >= 1 /\ lb >= 1
        /\ la <= NumLimbs /\ lb <= NumLimbs
    BY DEF Sound, Sized, Keeps
  <2>2. NextOverflow(op, a, b) = BitsPerLimb + 0 + 0 + CeilLog2(l)
    BY <1>3 DEF NextOverflow
  <2> HIDE DEF la, lb
  <2>3. la \in Int /\ lb \in Int
    BY <2>1
  <2>4. l = IF la < lb THEN la ELSE lb
    BY ONLY <2>3, MinOfTwo DEF l
  <2> HIDE DEF l
  <2>5. l \in Nat \ {0} /\ l <= NumLimbs /\ NumLimbs \in Nat \ {0}
    BY <1>1, <2>1, <2>4
  <2>6. CeilLog2(l) \in Nat /\ \A k \in Nat : l <= Pow(2, k) => CeilLog2(l) <= k
    BY ONLY <2>5, CeilLog2Holds
  <2>7. CeilLog2(NumLimbs) \in Nat /\ NumLimbs <= Pow(2, CeilLog2(NumLimbs))
    BY ONLY <2>5, CeilLog2Holds
  <2>8. l <= Pow(2, CeilLog2(NumLimbs))
    <3>1. Pow(2, CeilLog2(NumLimbs)) \in Nat
      BY <2>7, PowersOfTwo
    <3> QED BY <2>5, <2>7, <3>1
  <2>9. CeilLog2(l) <= CeilLog2(NumLimbs)
    BY <2>6, <2>7, <2>8
  <2> QED BY <1>1, <2>2, <2>6, <2>7, <2>9
<1> QED BY <1>2, <1>3

(* One round of reductions.                                                *)
LEMMA SettleSteps ==
    ASSUME NEW op \in {"add", "mul"}, NEW p, NEW m \in Int, NEW n \in Int,
           Pair(p, m, n)
    PROVE  /\ Pair(Settle(op, p), m, n)
           /\ Roomy(op, p) => Settle(op, p) = p
           /\ ~Roomy(op, p) =>
                  Settle(op, p) = IF p[1].overflow < p[2].overflow
                                  THEN <<p[1], reduce(p[2])>>
                                  ELSE <<reduce(p[1]), p[2]>>
<1> DEFINE t == IF p[1].overflow < p[2].overflow
                THEN <<p[1], reduce(p[2])>> ELSE <<reduce(p[1]), p[2]>>
<1>1. /\ p = <<p[1], p[2]>> /\ Sound(p[1], m) /\ Sound(p[2], n)
  BY DEF Pair
<1>2. CASE Roomy(op, p)
  <2>1. ASSUME IsElement(p[1]), IsElement(p[2])
        PROVE  ~(NextOverflow(op, p[1], p[2]) > max_overflow)
    <3>1. NextOverflow(op, p[1], p[2]) \in Nat /\ max_overflow \in Nat
      BY <1>1, <2>1, NextOverflowIsNatural, FieldNumbers
    <3>2. NextOverflow(op, p[1], p[2]) <= max_overflow
      BY <1>2, <2>1 DEF Roomy
    <3> QED BY <3>1, <3>2
  <2>2. Settle(op, p) = p
    BY <2>1 DEF Settle
  <2> QED BY <1>2, <2>2
<1>3. CASE ~Roomy(op, p)
  <2>1. /\ IsElement(p[1]) /\ IsElement(p[2])
        /\ ~(NextOverflow(op, p[1], p[2]) <= max_overflow)
    BY <1>3 DEF Roomy
  <2>2. NextOverflow(op, p[1], p[2]) \in Nat /\ max_overflow \in Nat
    BY <1>1, <2>1, NextOverflowIsNatural, FieldNumbers
  <2>3. NextOverflow(op, p[1], p[2]) > max_overflow
    BY <2>1, <2>2
  <2>4. Settle(op, p) = t
    <3> DEFINE larger == IF p[1].overflow < p[2].overflow THEN 2 ELSE 1
    <3>1. Settle(op, p) = [p EXCEPT ![larger] = reduce(@)]
      BY <2>1, <2>3 DEF Settle
    <3>2. CASE p[1].overflow < p[2].overflow
      <4>1. Settle(op, p) = [p EXCEPT ![2] = reduce(p[2])]
        BY <3>1, <3>2
      <4>2. [p EXCEPT ![2] = reduce(p[2])] = <<p[1], reduce(p[2])>>
        BY <1>1
      <4> QED BY <3>2, <4>1, <4>2
    <3>3. CASE ~(p[1].overflow < p[2].overflow)
      <4>1. Settle(op, p) = [p EXCEPT ![1] = reduce(p[1])]
        BY <3>1, <3>3
      <4>2. [p EXCEPT ![1] = reduce(p[1])] = <<reduce(p[1]), p[2]>>
        BY <1>1
      <4> QED BY <3>3, <4>1, <4>2
    <3> QED BY <3>2, <3>3
  <2>5. Sound(reduce(p[1]), m) /\ Sound(reduce(p[2]), n)
    BY <1>1, ReduceIsSound
  <2>6. Pair(t, m, n)
    BY <1>1, <2>5 DEF Pair
  <2> HIDE DEF t
  <2>7. Pair(Settle(op, p), m, n)
    BY <2>4, <2>6
  <2> QED BY <1>3, <2>4, <2>7 DEF t
<1> QED BY <1>2, <1>3

(* After two rounds the result fits.                                       *)
LEMMA SettledHasRoom ==
    ASSUME NEW op \in {"add", "mul"}, NEW p, NEW m \in Int, NEW n \in Int,
           Pair(p, m, n)
    PROVE  /\ Pair(Settle(op, Settle(op, p)), m, n)
           /\ Roomy(op, Settle(op, Settle(op, p)))
<1> DEFINE q == Settle(op, p)
           r == Settle(op, q)
<1>1. /\ Pair(q, m, n)
      /\ Roomy(op, p) => q = p
      /\ ~Roomy(op, p) => q = IF p[1].overflow < p[2].overflow
                              THEN <<p[1], reduce(p[2])>>
                              ELSE <<reduce(p[1]), p[2]>>
  BY SettleSteps
<1> HIDE DEF q
<1>2. /\ Pair(r, m, n)
      /\ Roomy(op, q) => r = q
      /\ ~Roomy(op, q) => r = IF q[1].overflow < q[2].overflow
                              THEN <<q[1], reduce(q[2])>>
                              ELSE <<reduce(q[1]), q[2]>>
  BY <1>1, SettleSteps
<1> HIDE DEF r
<1>3. ASSUME NEW x, NEW k \in Int, Sound(x, k)
      PROVE  IsElement(reduce(x)) => reduce(x).overflow = 0
  BY <1>3, ReduceIsSound
<1>4. ASSUME NEW s, Pair(s, m, n), IsElement(s[1]) => s[1].overflow = 0,
             IsElement(s[2]) => s[2].overflow = 0
      PROVE  Roomy(op, s)
  BY <1>4, ReducedHaveRoom DEF Roomy, Pair
<1>5. CASE Roomy(op, q)
  BY <1>2, <1>5 DEF q, r
<1>6. CASE ~Roomy(op, q)
  <2>1. ~Roomy(op, p)
    BY <1>1, <1>6
  <2>2. /\ IsElement(q[1]) /\ IsElement(q[2])
        /\ q[1].overflow \in Nat /\ q[2].overflow \in Nat
        /\ Sound(q[1], m) /\ Sound(q[2], n)
    BY <1>1, <1>6 DEF Roomy, Pair, Sound, Sized
  <2>3. Sound(p[1], m) /\ Sound(p[2], n)
    BY DEF Pair
  <2>4. q[1].overflow = 0 \/ q[2].overflow = 0
    <3>1. CASE p[1].overflow < p[2].overflow
      <4>1. q[2] = reduce(p[2])
        BY <1>1, <2>1, <3>1
      <4> QED BY <1>3, <2>2, <2>3, <4>1
    <3>2. CASE ~(p[1].overflow < p[2].overflow)
      <4>1. q[1] = reduce(p[1])
        BY <1>1, <2>1, <3>2
      <4> QED BY <1>3, <2>2, <2>3, <4>1
    <3> QED BY <3>1, <3>2
  <2>5. CASE q[1].overflow < q[2].overflow
    <3>1. q[1].overflow = 0
      BY <2>2, <2>4, <2>5
    <3>2. r = <<q[1], reduce(q[2])>>
      BY <1>2, <1>6, <2>5
    <3>3. r[1] = q[1] /\ r[2] = reduce(q[2])
      BY <3>2
    <3>4. IsElement(r[2]) => r[2].overflow = 0
      BY <1>3, <2>2, <3>3
    <3>5. Roomy(op, r)
      BY <1>2, <1>4, <3>1, <3>3, <3>4
    <3> QED BY <1>2, <3>5 DEF q, r
  <2>6. CASE ~(q[1].overflow < q[2].overflow)
    <3>1. q[2].overflow = 0
      BY <2>2, <2>4, <2>6
    <3>2. r = <<reduce(q[1]), q[2]>>
      BY <1>2, <1>6, <2>6
    <3>3. r[1] = reduce(q[1]) /\ r[2] = q[2]
      BY <3>2
    <3>4. IsElement(r[1]) => r[1].overflow = 0
      BY <1>3, <2>2, <3>3
    <3>5. Roomy(op, r)
      BY <1>2, <1>4, <3>1, <3>3, <3>4
    <3> QED BY <1>2, <3>5 DEF q, r
  <2> QED BY <2>5, <2>6
<1> QED BY <1>5, <1>6

(* So reduce_and_apply_op gives the sum or product.                        *)
LEMMA ApplyIsSound ==
    ASSUME NEW op \in {"add", "mul"}, NEW a, NEW b,
           NEW m \in Int, NEW n \in Int, Sound(a, m), Sound(b, n)
    PROVE  Sound(reduce_and_apply_op(op, a, b), OfIntegers(op, m, n))
<1> DEFINE p == <<a, b>>
           q == Settle(op, Settle(op, p))
<1>1. Pair(p, m, n)
  BY DEF Pair
<1> HIDE DEF p
<1>2. Pair(q, m, n) /\ Roomy(op, q)
  BY <1>1, SettledHasRoom
<1> HIDE DEF q
<1>3. /\ Sound(q[1], m) /\ Sound(q[2], n)
      /\ IsElement(q[1]) /\ IsElement(q[2]) =>
             NextOverflow(op, q[1], q[2]) <= max_overflow
  BY <1>2 DEF Pair, Roomy
<1>4. Sound(Compute(op, q[1], q[2]), OfIntegers(op, m, n))
  BY <1>3, ComputeIsSound
<1>5. reduce_and_apply_op(op, a, b) = Compute(op, q[1], q[2])
  BY DEF reduce_and_apply_op, Apply, p, q
<1> QED BY <1>4, <1>5

(* An element stands for every congruent number.                           *)
LEMMA SoundCongruent ==
    ASSUME NEW x, NEW m \in Int, NEW n \in Int, Sound(x, m), Cong(m, n)
    PROVE  Sound(x, n)
<1>1. Integer(x) \in Int
  BY SoundInteger DEF Sound, Sized
<1>2. Cong(Integer(x), m) => Cong(Integer(x), n)
  BY <1>1, CongTransitive
<1> QED BY <1>2 DEF Sound, Keeps

-----------------------------------------------------------------------------
(* Multiplying by a constant.                                              *)
LEMMA TimesIsSound ==
    ASSUME NEW c \in Nat, NEW x, NEW n \in Int, Sound(x, n),
           IsElement(x) => Bits(c) + x.overflow <= max_overflow
    PROVE  Sound(Times(x, c), c * n)
<1>1. CASE ~IsElement(x)
  <2>1. Times(x, c) = x
    BY <1>1 DEF Times
  <2> QED BY <1>1, <2>1, SoundFailure
<1>2. CASE IsElement(x) /\ IsConstant(x)
  <2>1. Times(x, c) = Fails("not implemented")
    BY <1>2 DEF Times
  <2> QED BY <2>1, FailsIsSound
<1>3. CASE IsElement(x) /\ ~IsConstant(x)
  <2> DEFINE l == x.limbs
             o == Bits(c) + x.overflow
             h == [i \in DOMAIN l |-> l[i] * c]
  <2>1. /\ x.limbs \in Seq(Nat) /\ x.overflow \in Nat /\ Len(x.limbs) >= 1
        /\ \A i \in DOMAIN x.limbs :
               x.limbs[i] <= (Base - 1) * Pow(2, x.overflow)
        /\ x.overflow = 0 => Len(x.limbs) <= NumLimbs
        /\ Cong(Integer(x), n)
    BY <1>3 DEF Sound, Sized, Keeps, Counted
  <2>2. Bits(c) \in Nat /\ c < Pow(2, Bits(c))
    BY BitsHold
  <2>3. Times(x, c) = Allocated(Wrapped(h), o)
    BY <1>3 DEF Times
  <2>4. h \in Seq(Nat) /\ Len(h) = Len(l) /\ recompose(h) = c * recompose(l)
    <3> HIDE DEF h
    <3>1. l \in Seq(Nat) /\ h = [i \in DOMAIN l |-> l[i] * c]
      BY <2>1 DEF h
    <3> HIDE DEF l
    <3> QED BY ONLY c \in Nat, <3>1, ScaledLimbs
  <2>5. Integer(x) = recompose(l) /\ Integer(x) \in Int
    BY <2>1, SoundInteger
  <2>6. Cong(recompose(h), c * n)
    <3>1. Cong(c, c)
      BY CongReflexive
    <3>2. c \in Int
      OBVIOUS
    <3>3. Cong(c * Integer(x), c * n)
      BY <2>1, <2>5, <3>1, <3>2, CongTimes
    <3> QED BY <2>4, <2>5, <3>3
  <2>7. ASSUME NEW i \in DOMAIN h PROVE h[i] <= (Base - 1) * Pow(2, o)
    <3> DEFINE d == Base - 1
               p == Pow(2, x.overflow)
               q == Pow(2, Bits(c))
    <3>1. i \in DOMAIN l /\ h[i] = l[i] * c
      OBVIOUS
    <3>2. l[i] \in Nat /\ l[i] <= d * p
      BY <2>1, <3>1
    <3>3. d \in Nat /\ p \in Nat /\ q \in Nat /\ c < q
      <4>1. Base \in Nat \ {0, 1}
        BY FieldNumbers
      <4>2. d \in Nat
        BY <4>1
      <4> HIDE DEF d
      <4> QED BY <2>1, <2>2, <4>2, PowersOfTwo
    <3>4. Pow(2, o) = q * p
      <4>1. 2 \in Int /\ Bits(c) \in Nat /\ x.overflow \in Nat
        BY <2>1, <2>2
      <4> QED BY ONLY <4>1, PowerSum DEF o
    <3> HIDE DEF d, p, q, o, h
    <3>5. \A a, b, e, f \in Nat : a <= b /\ e <= f => a * e <= b * f
      <4>1. ASSUME NEW a \in Nat, NEW b \in Nat, NEW e \in Nat, NEW f \in Nat,
                   a <= b, e <= f
            PROVE  a * e <= b * f
        <5>1. a * e <= b * e
          BY <4>1
        <5>2. b * e <= b * f
          BY <4>1
        <5>3. a * e \in Nat /\ b * e \in Nat /\ b * f \in Nat
          OBVIOUS
        <5> DEFINE u == a * e
                   v == b * e
                   w == b * f
        <5> HIDE DEF u, v, w
        <5>4. u <= v /\ v <= w /\ u \in Nat /\ v \in Nat /\ w \in Nat
          BY <5>1, <5>2, <5>3 DEF u, v, w
        <5>5. u <= w
          BY <5>4
        <5> QED BY <5>5 DEF u, w
      <4> QED BY <4>1
    <3>6. d * p \in Nat /\ c <= q
      BY <3>3
    <3>7. l[i] * c <= (d * p) * q
      BY <3>2, <3>3, <3>5, <3>6
    <3>8. (d * p) * q = d * (q * p)
      BY <3>3
    <3> QED BY <3>1, <3>4, <3>7, <3>8 DEF d
  <2>8. o \in Nat /\ o <= max_overflow /\ (o = 0 => x.overflow = 0)
    BY <1>3, <2>1, <2>2
  <2> HIDE DEF h, o
  <2>9. Len(h) >= 1 /\ (o = 0 => Len(h) <= NumLimbs)
    BY <2>1, <2>4, <2>8
  <2>10. Sound(Allocated(Wrapped(h), o), c * n)
    BY <2>4, <2>6, <2>7, <2>8, <2>9, ResultIsSound
  <2> QED BY <2>3, <2>10
<1> QED BY <1>1, <1>2, <1>3

(* mul_const multiplies by its constant, reducing where it must.           *)
LEMMA MulConstIsSound ==
    ASSUME NEW c \in Nat, NEW x, NEW n \in Int, Sound(x, n)
    PROVE  Sound(mul_const(x, c), c * n)
<1> DEFINE b == Bits(c)
           y == IF b + x.overflow <= max_overflow THEN x ELSE reduce(x)
<1>1. b \in Nat /\ max_overflow \in Nat
  BY BitsHold, FieldNumbers
<1>2. CASE ~IsElement(x)
  <2>1. mul_const(x, c) = x
    BY <1>2 DEF mul_const
  <2> QED BY <1>2, <2>1, SoundFailure
<1>3. CASE IsElement(x) /\ b > max_overflow
  <2>1. mul_const(x, c) = Fails("unsat")
    BY <1>3 DEF mul_const
  <2> QED BY <2>1, FailsIsSound
<1>4. CASE IsElement(x) /\ ~(b > max_overflow)
  <2>1. mul_const(x, c) = Times(y, c)
    BY <1>4 DEF mul_const
  <2>2. Sound(reduce(x), n) /\ (IsElement(reduce(x)) => reduce(x).overflow = 0)
    BY ReduceIsSound
  <2>3. Sound(y, n) /\ (IsElement(y) => b + y.overflow <= max_overflow)
    <3>1. CASE b + x.overflow <= max_overflow
      BY <3>1
    <3>2. CASE ~(b + x.overflow <= max_overflow)
      <4>1. y = reduce(x)
        BY <3>2
      <4>2. b + 0 <= max_overflow
        BY <1>1, <1>4
      <4> HIDE DEF y, b
      <4> QED BY <2>2, <4>1, <4>2
    <3> QED BY <3>1, <3>2
  <2> HIDE DEF y
  <2>4. Sound(Times(y, c), c * n)
    BY <2>3, TimesIsSound
  <2> QED BY <2>1, <2>4
<1> QED BY <1>2, <1>3, <1>4

-----------------------------------------------------------------------------
(* 2^E is C, so that a chunk is moved down by multiplying it.              *)
LEMMA ScaleIsPower ==
    ASSUME NEW i \in Nat
    PROVE  /\ FoldScale(i) \in Nat
           /\ Cong(FoldScale(i), Pow(Base, i * NumLimbs))
<1>1. /\ BitsPerLimb \in Nat /\ NumLimbs \in Nat /\ E \in Nat \ {0}
      /\ Modulus \in Nat \ {0}
  BY FieldNumbers
<1> DEFINE k == i * NumLimbs
           width == k * BitsPerLimb
           q == width \div E
           r == width % E
<1>2. k \in Nat
  BY <1>1
<1> HIDE DEF k
<1>3. width \in Nat /\ width = BitsPerLimb * k
  BY <1>1, <1>2
<1> HIDE DEF width
<1>4. r \in 0..(E - 1) /\ q \in Int /\ width = E * q + r
  <2>1. width \in Int
    BY <1>3
  <2> QED BY ONLY <1>1, <2>1, Remainder DEF q, r
<1>5. FoldScale(i) = Pow(C, q) * Pow(2, r)
  BY DEF FoldScale, k, width
<1> HIDE DEF q, r
<1>6. q \in Nat /\ r \in Nat
  <2>1. r \in Nat /\ r < E
    BY <1>1, <1>4
  <2>2. CASE q >= 0
    BY <1>4, <2>1, <2>2
  <2>3. CASE q <= -1
    <3>1. E * q <= -E
      BY <1>1, <1>4, <2>3
    <3>2. E * q \in Int
      BY <1>1, <1>4
    <3>3. width < 0
      BY <1>1, <1>4, <2>1, <3>1, <3>2
    <3> QED BY <1>3, <3>3
  <2> QED BY <1>4, <2>1, <2>2, <2>3
<1>7. C \in Nat \ {0} /\ Pow(2, E) \in Int /\ Cong(C, Pow(2, E))
  <2>1. E - 1 \in Nat
    BY <1>1
  <2>2. C \in 1..Pow(2, E - 1) /\ Pow(2, E - 1) \in Nat /\ Pow(2, E) \in Nat
    BY <1>1, <2>1, FieldAssumption, PowersOfTwo
  <2>3. C = Pow(2, E) + Modulus * (-1)
    BY <2>2 DEF Modulus
  <2> QED BY <2>2, <2>3 DEF Cong
<1> DEFINE p == Pow(2, E)
           S == {j \in 0..q : Cong(Pow(C, j), Pow(p, j))}
<1> HIDE DEF p
<1>8. p \in Int /\ C \in Int /\ Cong(C, p)
  BY <1>7 DEF p
<1>9. /\ Pow(C, 0) = 1
      /\ \A j \in Nat : Pow(C, j) \in Int /\ Pow(C, j + 1) = C * Pow(C, j)
  BY ONLY <1>8, Power
<1>10. /\ Pow(p, 0) = 1
       /\ \A j \in Nat : Pow(p, j) \in Int /\ Pow(p, j + 1) = p * Pow(p, j)
  BY ONLY <1>8, Power
<1>11. 0 \in S
  <2>1. Cong(1, 1)
    BY CongReflexive
  <2> QED BY <1>6, <1>9, <1>10, <2>1
<1>12. ASSUME NEW j \in 0..(q - 1), j \in S PROVE j + 1 \in S
  <2>1. j \in Nat /\ j + 1 \in 0..q
    BY <1>6
  <2>2. Cong(Pow(C, j), Pow(p, j)) /\ Pow(C, j) \in Int /\ Pow(p, j) \in Int
    BY <1>9, <1>10, <1>12, <2>1
  <2>3. Cong(C * Pow(C, j), p * Pow(p, j))
    BY <1>8, <2>2, CongTimes
  <2>4. Cong(Pow(C, j + 1), Pow(p, j + 1))
    BY <1>9, <1>10, <2>1, <2>3
  <2> QED BY <2>1, <2>4
<1>13. Cong(Pow(C, q), Pow(p, q))
  <2> HIDE DEF S
  <2>1. \A j \in 0..q : j \in S
    BY ONLY <1>6, <1>11, <1>12, InductionTo
  <2>2. q \in S
    BY <1>6, <2>1
  <2> QED BY <2>2 DEF S
<1>14. Pow(2, r) \in Nat /\ Pow(2, r) \in Int /\ Pow(C, q) \in Nat
       /\ Pow(C, q) \in Int /\ Pow(p, q) \in Int
  <2>1. Pow(C, q) \in Nat \ {0}
    BY ONLY <1>6, <1>7, PowerPositive
  <2>2. Pow(2, r) \in Nat
    BY <1>6, PowersOfTwo
  <2> QED BY <1>6, <1>10, <2>1, <2>2
<1>15. Cong(Pow(C, q) * Pow(2, r), Pow(p, q) * Pow(2, r))
  <2>1. Cong(Pow(2, r), Pow(2, r))
    BY <1>14, CongReflexive
  <2> QED BY <1>13, <1>14, <2>1, CongTimes
<1>16. Pow(Base, k) = Pow(p, q) * Pow(2, r)
  <2>1. 2 \in Int /\ E \in Nat /\ BitsPerLimb \in Nat
    BY <1>1
  <2>2. Pow(p, q) = Pow(2, E * q)
    BY ONLY <1>6, <2>1, PowerOfPower DEF p
  <2>3. Pow(Base, k) = Pow(2, BitsPerLimb * k)
    BY ONLY <1>2, <2>1, PowerOfPower DEF Base
  <2>4. E * q \in Nat
    BY <1>6, <2>1
  <2>5. Pow(2, E * q + r) = Pow(2, E * q) * Pow(2, r)
    BY ONLY <1>6, <2>1, <2>4, PowerSum
  <2> QED BY <1>3, <1>4, <2>2, <2>3, <2>5
<1>17. FoldScale(i) \in Nat
  <2>1. \A x, y \in Nat : x * y \in Nat
    OBVIOUS
  <2> QED BY <1>5, <1>14, <2>1
<1> QED BY <1>5, <1>15, <1>16, <1>17 DEF k

-------------------------------------------------------------------------------
\* Folding.

(***************************************************************************)
(* fold_limbs.  Chunks of an element's limbs, and what comes of them.      *)
(***************************************************************************)
Count(x) == (Len(x.limbs) + NumLimbs - 1) \div NumLimbs
ChunkOf(x, i) ==
    Allocated(SubSeq(x.limbs, i * NumLimbs + 1,
                     Min({(i + 1) * NumLimbs, Len(x.limbs)})), x.overflow)
Folded(x, f, i) ==
    IF i = 0 THEN ChunkOf(x, 0)
    ELSE reduce_and_apply_op("add", f[i - 1],
                             mul_const(ChunkOf(x, i), FoldScale(i)))
Folds(x, f, k) == f = [i \in 0..k |-> Folded(x, f, i)]

\* Where the i-th chunk ends.
End(x, i) == IF (i + 1) * NumLimbs < Len(x.limbs)
             THEN (i + 1) * NumLimbs ELSE Len(x.limbs)

(* The partial sums of fold_limbs are a function of their number.          *)
LEMMA FoldsExist ==
    ASSUME NEW x, NEW n \in Nat
    PROVE  \E f : Folds(x, f, n)
<1> DEFINE T == {k \in Nat : \E f : Folds(x, f, k)}
<1>1. 0 \in T
  <2> DEFINE f == [i \in 0..0 |-> ChunkOf(x, 0)]
  <2>1. f = [i \in 0..0 |-> Folded(x, f, i)]
    BY DEF Folded
  <2>2. Folds(x, f, 0)
    BY <2>1 DEF Folds
  <2> QED BY <2>2
<1>2. ASSUME NEW k \in Nat, k \in T PROVE k + 1 \in T
  <2>1. PICK f : Folds(x, f, k)
    BY <1>2
  <2> DEFINE g == [i \in 0..(k + 1) |-> IF i = k + 1 THEN Folded(x, f, i)
                                                     ELSE f[i]]
  <2>2. f = [i \in 0..k |-> Folded(x, f, i)]
    BY <2>1 DEF Folds
  <2>3. \A i \in 0..k : f[i] = Folded(x, f, i)
    <3> HIDE DEF Folded
    <3> QED BY <2>2
  <2>4. ASSUME NEW i \in 0..(k + 1) PROVE g[i] = Folded(x, g, i)
    <3>1. Folded(x, g, i) = Folded(x, f, i)
      <4>1. CASE i = 0
        BY <4>1 DEF Folded
      <4>2. CASE i # 0
        <5>1. i - 1 \in 0..(k + 1) /\ i - 1 # k + 1
          BY <4>2
        <5>2. g[i - 1] = f[i - 1]
          BY <5>1
        <5> HIDE DEF g
        <5> QED BY <4>2, <5>2 DEF Folded
      <4> QED BY <4>1, <4>2
    <3>2. CASE i = k + 1
      <4>1. g[i] = Folded(x, f, i)
        BY <3>2
      <4> QED BY <3>1, <4>1
    <3>3. CASE i # k + 1
      <4>1. g[i] = f[i] /\ i \in 0..k
        BY <3>3
      <4>2. f[i] = Folded(x, f, i)
        BY <2>3, <4>1
      <4> QED BY <3>1, <4>1, <4>2
    <3> QED BY <3>2, <3>3
  <2>5. g = [i \in 0..(k + 1) |-> g[i]]
    OBVIOUS
  <2> HIDE DEF g
  <2>6. g = [i \in 0..(k + 1) |-> Folded(x, g, i)]
    BY <2>4, <2>5
  <2>7. Folds(x, g, k + 1)
    BY <2>6 DEF Folds
  <2> QED BY <2>7
<1> HIDE DEF T
<1>3. Nat \subseteq T
  BY <1>1, <1>2, SetInduction
<1>4. n \in T
  BY <1>3
<1> QED BY <1>4 DEF T

(* The chunks cover the limbs.                                             *)
LEMMA CountHolds ==
    ASSUME NEW x, x.limbs \in Seq(Nat), Len(x.limbs) >= 1
    PROVE  /\ Count(x) \in Nat \ {0}
           /\ \A i \in 0..(Count(x) - 1) : i * NumLimbs \in Nat
                                           /\ i * NumLimbs < Len(x.limbs)
           /\ Len(x.limbs) <= Count(x) * NumLimbs
<1> DEFINE l == Len(x.limbs)
           c == Count(x)
           b == NumLimbs
           s == l + b - 1
           r == s % b
<1>1. l \in Nat /\ l >= 1
  OBVIOUS
<1>2. b \in Nat \ {0}
  BY FieldNumbers
<1> HIDE DEF l, b
<1>3. s \in Int
  BY <1>1, <1>2
<1>4. c = s \div b
  BY DEF Count, l, b
<1> HIDE DEF c
<1>5. r \in 0..(b - 1) /\ c \in Int /\ s = b * c + r
  BY ONLY <1>2, <1>3, <1>4, Remainder DEF r
<1> HIDE DEF r
<1>6. b * c <= l + b - 1 /\ l <= b * c /\ b * c \in Int
  BY <1>1, <1>2, <1>5
<1>7. c \in Nat \ {0}
  <2>1. ASSUME c <= 0 PROVE FALSE
    <3>1. b * c <= 0
      BY <1>2, <1>5, <2>1
    <3> QED BY <1>1, <1>6, <3>1
  <2> QED BY <1>5, <2>1
<1>8. ASSUME NEW i \in 0..(c - 1) PROVE i * b \in Nat /\ i * b < l
  <2>1. i \in Nat /\ i + 1 <= c
    BY <1>7
  <2>2. b * (i + 1) <= b * c
    BY <1>2, <1>7, <2>1
  <2>3. b * (i + 1) = i * b + b /\ i * b \in Nat
    BY <1>2, <2>1
  <2> QED BY <1>1, <1>2, <1>6, <2>2, <2>3
<1>9. l <= c * b
  <2>1. c * b = b * c
    BY <1>2, <1>7
  <2> QED BY <1>6, <2>1
<1> QED BY <1>7, <1>8, <1>9 DEF c, l, b

(* A chunk has limbs that are counted.                                     *)
LEMMA ChunkIsSound ==
    ASSUME NEW x, NEW n, Sound(x, n), x.is = "allocated",
           NEW i \in 0..(Count(x) - 1)
    PROVE  /\ Integer(ChunkOf(x, i)) \in Int
           /\ Sound(ChunkOf(x, i), Integer(ChunkOf(x, i)))
           /\ i * NumLimbs \in Nat /\ End(x, i) \in 0..Len(x.limbs)
           /\ Weighed(x.limbs, End(x, i))
                = Weighed(x.limbs, i * NumLimbs)
                    + Pow(Base, i * NumLimbs) * Integer(ChunkOf(x, i))
<1> DEFINE l == x.limbs
           b == NumLimbs
           k == i * b
           e == End(x, i)
           y == ChunkOf(x, i)
           w == e - k
<1>1. /\ l \in Seq(Nat) /\ x.overflow \in Nat /\ Counted(x)
      /\ Len(l) \in Nat /\ Len(l) >= 1 /\ x.overflow <= max_overflow
  BY DEF Sound, Sized, Keeps, IsElement
<1>2. b \in Nat \ {0}
  BY FieldNumbers
<1>3. i \in Nat /\ k \in Nat /\ k < Len(l)
  <2>1. x.limbs \in Seq(Nat) /\ Len(x.limbs) >= 1
    BY <1>1
  <2>2. /\ Count(x) \in Nat \ {0}
        /\ \A j \in 0..(Count(x) - 1) : j * NumLimbs \in Nat
                                         /\ j * NumLimbs < Len(x.limbs)
    BY ONLY <2>1, CountHolds
  <2> QED BY <2>2
<1>4. (i + 1) * b = k + b
  BY <1>2, <1>3
<1>5. /\ e = IF k + b < Len(l) THEN k + b ELSE Len(l)
      /\ y.limbs = SubSeq(l, k + 1, Min({k + b, Len(l)}))
      /\ y.overflow = x.overflow /\ y.is = "allocated"
  <2>1. e = IF (i + 1) * b < Len(l) THEN (i + 1) * b ELSE Len(l)
    BY DEF End
  <2>2. /\ y.limbs = SubSeq(l, k + 1, Min({(i + 1) * b, Len(l)}))
        /\ y.overflow = x.overflow /\ y.is = "allocated"
    BY DEF ChunkOf, Allocated
  <2> QED BY <1>4, <2>1, <2>2
<1> HIDE DEF b, k, e, y
<1>6. /\ e \in Nat /\ k + 1 \in Nat /\ k < e /\ e <= k + b /\ e <= Len(l)
      /\ w \in Nat \ {0} /\ w <= b /\ k + w = e
  BY <1>1, <1>2, <1>3, <1>5
<1>7. y.limbs = SubSeq(l, k + 1, e)
  <2> DEFINE p == k + b
             q == Len(l)
  <2>1. p \in Int /\ q \in Int
    BY <1>1, <1>2, <1>3
  <2>2. Min({p, q}) = IF p < q THEN p ELSE q
    BY ONLY <2>1, MinOfTwo
  <2> QED BY <1>5, <2>2
<1>8. /\ y.limbs \in Seq(Nat) /\ Len(y.limbs) = w
      /\ \A j \in 1..w : y.limbs[j] = l[k + j] /\ k + j \in DOMAIN l
  <2>1. /\ k + 1 \in Int /\ e \in Int
        /\ \A j \in (k + 1)..e : l[j] \in Nat
    BY <1>1, <1>3, <1>6
  <2>2. /\ SubSeq(l, k + 1, e) \in Seq(Nat)
        /\ Len(SubSeq(l, k + 1, e))
             = IF k + 1 <= e THEN e - (k + 1) + 1 ELSE 0
        /\ \A j \in 1..(e - (k + 1) + 1) :
               SubSeq(l, k + 1, e)[j] = l[(k + 1) + j - 1]
    BY ONLY <2>1, SubSeqProperties
  <2>3. e - (k + 1) + 1 = w /\ k + 1 <= e
    BY <1>3, <1>6
  <2>4. \A j \in 1..w : (k + 1) + j - 1 = k + j /\ k + j \in 1..Len(l)
    BY <1>1, <1>3, <1>6
  <2> QED BY <1>7, <2>2, <2>3, <2>4
<1> HIDE DEF w
<1>9. Counted(y)
  <2>1. ASSUME NEW j \in DOMAIN y.limbs
        PROVE  y.limbs[j] <= (Base - 1) * Pow(2, y.overflow)
    <3>1. j \in 1..w
      BY <1>8
    <3>2. y.limbs[j] = l[k + j] /\ k + j \in DOMAIN l
      BY <1>8, <3>1
    <3> QED BY <1>1, <1>5, <3>2 DEF Counted
  <2> QED BY <2>1 DEF Counted
<1>10. Integer(y) \in Int /\ y.limbs \in Seq(Int)
       /\ Integer(y) = recompose(y.limbs)
  BY <1>8, SoundInteger
<1>11. Sound(y, Integer(y))
  <2>1. Cong(Integer(y), Integer(y))
    BY <1>10, CongReflexive
  <2>2. Len(y.limbs) >= 1 /\ Len(y.limbs) <= NumLimbs
    BY <1>2, <1>6, <1>8 DEF b
  <2> QED BY <1>1, <1>5, <1>8, <1>9, <2>1, <2>2
          DEF Sound, Sized, Keeps, IsConstant
<1>12. Weighed(l, e) = Weighed(l, k) + Pow(Base, k) * Integer(y)
  <2>1. Integer(y) = Weighed(y.limbs, w)
    BY <1>8, <1>10, RecomposeWeighs
  <2> DEFINE g == y.limbs
  <2>2. w \in Nat /\ \A j \in 1..w : g[j] = l[k + j]
    BY <1>6, <1>8
  <2>3. \A j \in 1..(k + w) : l[j] \in Int
    BY <1>1, <1>3, <1>6
  <2>5. k \in Nat /\ w \in Nat
    BY <1>3, <2>2
  <2>6. \A j \in 1..w : g[j] = l[k + j]
    BY <2>2
  <2> HIDE DEF g, l
  <2>4. Weighed(l, k + w) = Weighed(l, k) + Pow(Base, k) * Weighed(g, w)
    BY ONLY <2>3, <2>5, <2>6, WeighedSplit
  <2> QED BY <1>6, <2>1, <2>4 DEF g
<1>13. e \in 0..Len(l)
  BY <1>1, <1>6
<1> QED BY <1>3, <1>10, <1>11, <1>12, <1>13 DEF l, b, k, e, y

(* Each partial sum stands for the number of the limbs it has taken.       *)
LEMMA FoldsAreSound ==
    ASSUME NEW x, NEW n \in Int, Sound(x, n), x.is = "allocated",
           NEW f, Folds(x, f, Count(x) - 1)
    PROVE  Sound(f[Count(x) - 1], n)
<1> DEFINE l == x.limbs
           c == Count(x)
           W(i) == Weighed(l, End(x, i))
<1>1. /\ l \in Seq(Nat) /\ Len(l) \in Nat /\ Len(l) >= 1
      /\ Cong(Integer(x), n)
  BY DEF Sound, Sized, Keeps, IsElement
<1>2. /\ c \in Nat \ {0}
      /\ \A i \in 0..(c - 1) : i * NumLimbs \in Nat /\ i * NumLimbs < Len(l)
      /\ Len(l) <= c * NumLimbs
  BY ONLY <1>1, CountHolds
<1>3. NumLimbs \in Nat
  BY FieldNumbers
<1> HIDE DEF c
<1>4. \A k \in 0..Len(l) : Weighed(l, k) \in Int
  <2>1. \A j \in 1..Len(l) : l[j] \in Int
    BY <1>1
  <2> DEFINE m == Len(l)
  <2>2. m \in Nat
    BY <1>1
  <2> HIDE DEF l, m
  <2>3. \A j \in 1..m : l[j] \in Int
    BY <2>1 DEF m
  <2>4. \A k \in 0..m : Weighed(l, k) \in Int
    BY ONLY <2>2, <2>3, WeighedSteps
  <2> QED BY <2>4 DEF m
<1>5. ASSUME NEW i \in 0..(c - 1)
      PROVE  /\ Integer(ChunkOf(x, i)) \in Int
             /\ Sound(ChunkOf(x, i), Integer(ChunkOf(x, i)))
             /\ i * NumLimbs \in Nat /\ End(x, i) \in 0..Len(l)
             /\ W(i) = Weighed(l, i * NumLimbs)
                         + Pow(Base, i * NumLimbs) * Integer(ChunkOf(x, i))
  BY ChunkIsSound DEF c
<1>6. \A i \in 0..(c - 1) : f[i] = Folded(x, f, i)
  <2>1. f = [i \in 0..(c - 1) |-> Folded(x, f, i)]
    BY DEF Folds, c
  <2> QED BY <2>1
<1> DEFINE S == {i \in 0..(c - 1) : Sound(f[i], W(i))}
<1>7. 0 \in S
  <2>1. 0 \in 0..(c - 1) /\ 0 * NumLimbs = 0
    BY <1>2, <1>3
  <2>2. f[0] = ChunkOf(x, 0)
    BY <1>6, <2>1 DEF Folded
  <2> DEFINE z == Integer(ChunkOf(x, 0))
  <2>3. /\ z \in Int /\ Sound(f[0], z)
        /\ W(0) = Weighed(l, 0) + Pow(Base, 0) * z
    BY <1>5, <2>1, <2>2
  <2>4. Weighed(l, 0) = 0
    <3>1. \A j \in 1..0 : l[j] \in Int
      OBVIOUS
    <3>2. 0 \in Nat
      OBVIOUS
    <3> HIDE DEF l
    <3> QED BY ONLY <3>1, <3>2, WeighedSteps
  <2> HIDE DEF z
  <2>5. W(0) = z
    BY <2>3, <2>4, PowersOfBase
  <2> QED BY <2>1, <2>3, <2>5
<1>8. ASSUME NEW j \in 0..((c - 1) - 1), j \in S PROVE j + 1 \in S
  <2> DEFINE i == j + 1
             k == i * NumLimbs
             z == Integer(ChunkOf(x, i))
             s == FoldScale(i)
             p == Pow(Base, k)
             m == mul_const(ChunkOf(x, i), s)
  <2>1. i \in 0..(c - 1) /\ i \in Nat /\ i # 0 /\ i - 1 = j
    BY <1>2
  <2> HIDE DEF i
  <2>2. /\ z \in Int /\ Sound(ChunkOf(x, i), z) /\ k \in Nat
        /\ W(i) = Weighed(l, k) + p * z
    BY <1>5, <2>1
  <2>3. k < Len(l) /\ End(x, j) = k
    <3>1. j + 1 = i
      BY <2>1
    <3>2. k < Len(l)
      BY <1>2, <2>1
    <3> QED BY <3>1, <3>2 DEF End
  <2>4. Sound(f[j], Weighed(l, k)) /\ Weighed(l, k) \in Int
    <3>1. k \in 0..Len(l)
      BY <1>1, <2>2, <2>3
    <3> QED BY <1>4, <1>8, <2>3, <3>1
  <2>5. s \in Nat /\ s \in Int /\ Cong(s, p) /\ p \in Int
    <3>1. s \in Nat /\ Cong(s, p)
      BY <2>1, ScaleIsPower
    <3>2. p \in Int
      BY <2>2, PowersOfBase
    <3> QED BY <3>1, <3>2
  <2>6. Sound(m, s * z)
    BY <2>2, <2>5, MulConstIsSound
  <2>7. f[i] = reduce_and_apply_op("add", f[j], m)
    BY <1>6, <2>1 DEF Folded
  <2> DEFINE v == Weighed(l, k)
  <2> HIDE DEF m, s, z, p, k, v
  <2>8. s * z \in Int /\ p * z \in Int /\ v \in Int
    BY <2>2, <2>4, <2>5 DEF v
  <2>9. Sound(f[i], OfIntegers("add", v, s * z))
    <3>1. Sound(f[j], v)
      BY <2>4 DEF v
    <3> QED BY <2>6, <2>7, <2>8, <3>1, ApplyIsSound
  <2>10. Sound(f[i], v + s * z)
    BY <2>9 DEF OfIntegers
  <2>11. Cong(v + s * z, v + p * z)
    <3>1. Cong(z, z) /\ Cong(v, v)
      BY <2>2, <2>8, CongReflexive
    <3>2. Cong(s * z, p * z)
      BY <2>2, <2>5, <3>1, CongTimes
    <3> QED BY <2>8, <3>1, <3>2, CongPlus
  <2>12. W(i) = v + p * z
    BY <2>2 DEF v
  <2>13. Sound(f[i], W(i))
    <3>1. v + s * z \in Int /\ v + p * z \in Int
      BY <2>8
    <3> QED BY <2>10, <2>11, <2>12, <3>1, SoundCongruent
  <2> QED BY <2>1, <2>13 DEF i
<1>9. c - 1 \in S
  <2> HIDE DEF S
  <2>1. c - 1 \in Nat
    BY <1>2
  <2> DEFINE m == c - 1
  <2> HIDE DEF m
  <2>2. m \in Nat /\ 0 \in S /\ \A j \in 0..(m - 1) : j \in S => j + 1 \in S
    BY <1>7, <1>8, <2>1 DEF m
  <2>3. \A j \in 0..m : j \in S
    BY ONLY <2>2, InductionTo
  <2>4. m \in S
    BY <2>2, <2>3
  <2> QED BY <2>4 DEF m
<1>10. End(x, c - 1) = Len(l)
  <2>1. (c - 1) + 1 = c /\ c * NumLimbs \in Nat
    BY <1>2, <1>3
  <2>2. ~(c * NumLimbs < Len(l))
    BY <1>1, <1>2, <2>1
  <2> QED BY <2>1, <2>2 DEF End
<1>11. Weighed(l, Len(l)) = Integer(x) /\ Integer(x) \in Int
  <2>1. Integer(x) \in Int /\ l \in Seq(Int) /\ Integer(x) = recompose(l)
    BY <1>1, SoundInteger
  <2> QED BY <2>1, RecomposeWeighs
<1>12. Sound(f[c - 1], Integer(x))
  BY <1>9, <1>10, <1>11
<1>13. Sound(f[c - 1], n)
  BY <1>1, <1>11, <1>12, SoundCongruent
<1> QED BY <1>13 DEF c

(* fold_limbs keeps the number.                                            *)
LEMMA FoldIsSound ==
    ASSUME NEW x, NEW n \in Int, Sound(x, n)
    PROVE  Sound(fold_limbs(x), n)
<1> DEFINE c == Count(x)
           Body(f) == [i \in 0..(c - 1) |-> Folded(x, f, i)]
           acc == CHOOSE f : f = Body(f)
<1>1. CASE ~(mersenne /\ x.is = "allocated" /\ c > 1)
  <2>1. fold_limbs(x) = x
    BY <1>1 DEF fold_limbs, Count
  <2> QED BY <2>1
<1>2. CASE mersenne /\ x.is = "allocated" /\ c > 1
  <2>1. fold_limbs(x) = acc[c - 1]
    BY <1>2 DEF fold_limbs, Count, Folded, ChunkOf
  <2>2. c - 1 \in Nat
    <3>1. x.limbs \in Seq(Nat) /\ Len(x.limbs) >= 1
      BY <1>2 DEF Sound, Sized, Keeps, IsElement
    <3>2. c \in Nat \ {0}
      BY <3>1, CountHolds
    <3> QED BY <3>2
  <2>3. \E f : f = Body(f)
    <3>1. PICK f : Folds(x, f, c - 1)
      BY <2>2, FoldsExist
    <3>2. f = Body(f)
      BY <3>1 DEF Folds
    <3> HIDE DEF Body
    <3> QED BY <3>2
  <2>4. acc = Body(acc)
    <3> HIDE DEF Body
    <3> QED BY <2>3
  <2> HIDE DEF acc
  <2>5. Folds(x, acc, c - 1)
    BY <2>4 DEF Folds
  <2>6. Sound(acc[c - 1], n)
    BY <1>2, <2>5, FoldsAreSound
  <2> QED BY <2>1, <2>6
<1> QED BY <1>1, <1>2

(* Sums and products of elements.                                          *)
LEMMA OperationsAreSound ==
    ASSUME NEW a, NEW b, NEW m \in Int, NEW n \in Int, Sound(a, m), Sound(b, n)
    PROVE  Sound(add(a, b), m + n) /\ Sound(mul(a, b), m * n)
<1>1. Sound(reduce_and_apply_op("add", a, b), OfIntegers("add", m, n))
  BY ApplyIsSound
<1>2. Sound(reduce_and_apply_op("mul", a, b), OfIntegers("mul", m, n))
  BY ApplyIsSound
<1>3. OfIntegers("add", m, n) = m + n /\ OfIntegers("mul", m, n) = m * n
      /\ m * n \in Int
  BY DEF OfIntegers
<1> QED BY <1>1, <1>2, <1>3, FoldIsSound DEF add, mul

-------------------------------------------------------------------------------
\* Quotients and selections.

\* m is the quotient of a and b.
(* What is not a multiple of the prime divides everything.                 *)
LEMMA QuotientExists ==
    ASSUME NEW a \in Int, NEW b \in Int, b % Modulus # 0
    PROVE  \E q \in 0..(Modulus - 1) : (q * b) % Modulus = a % Modulus
<1>1. Modulus \in Nat \ {0}
  BY FieldNumbers
<1> DEFINE r == b % Modulus
<1>2. r \in 1..(Modulus - 1) /\ Cong(r, b) /\ r \in Int
  <2>1. r \in 0..(Modulus - 1) /\ Cong(r, b)
    BY CongRemainder
  <2> QED BY <1>1, <2>1
<1>3. PICK m \in 1..(Modulus - 1) : (r * m) % Modulus = 1
  BY <1>2, PrimeAssumption
<1> HIDE DEF r
<1>4. m \in Int /\ r * m \in Int /\ Cong(r * m, 1)
  <2>1. m \in Int /\ r * m \in Int /\ 1 \in Int
    BY <1>1, <1>2
  <2>2. (r * m) % Modulus \in 0..(Modulus - 1) /\ Cong((r * m) % Modulus, r * m)
    BY <2>1, CongRemainder
  <2>3. Cong(1, r * m)
    BY <1>3, <2>2
  <2> QED BY <2>1, <2>3, CongSymmetric
<1> DEFINE q == (m * a) % Modulus
<1>5. q \in 0..(Modulus - 1) /\ q \in Int /\ Cong(q, m * a) /\ m * a \in Int
  <2>1. m * a \in Int
    BY <1>4
  <2>2. q \in 0..(Modulus - 1) /\ Cong(q, m * a)
    BY <2>1, CongRemainder
  <2> QED BY <1>1, <2>1, <2>2
<1> HIDE DEF q
<1>6. Cong(q * b, (m * a) * r)
  <2>1. Cong(b, r)
    BY <1>2, CongSymmetric
  <2> QED BY <1>2, <1>5, <2>1, CongTimes
<1>7. Cong((r * m) * a, 1 * a)
  <2>1. Cong(a, a) /\ 1 \in Int
    BY CongReflexive
  <2> QED BY <1>4, <2>1, CongTimes
<1>8. (m * a) * r = (r * m) * a /\ 1 * a = a
  BY <1>2, <1>4
<1>9. Cong(q * b, a)
  <2>1. q * b \in Int /\ (r * m) * a \in Int
    BY <1>4, <1>5
  <2>2. Cong(q * b, (r * m) * a) /\ Cong((r * m) * a, a)
    BY <1>6, <1>7, <1>8
  <2> QED BY <2>1, <2>2, CongTransitive
<1>10. (q * b) % Modulus = a % Modulus
  <2>1. q * b \in Int
    BY <1>5
  <2> QED BY <1>9, <2>1, CongIsEqualRemainder
<1> QED BY <1>5, <1>10

(* The modulus is a prime: there is one quotient.                          *)
LEMMA QuotientIsUnique ==
    ASSUME NEW q \in Int, NEW p \in Int, NEW b \in Int, b % Modulus # 0,
           Cong(q * b, p * b)
    PROVE  Cong(q, p)
<1>1. 1 \in Int /\ q * b \in Int /\ p * b \in Int
  OBVIOUS
<1>2. PICK m \in 0..(Modulus - 1) : (m * b) % Modulus = 1 % Modulus
  BY <1>1, QuotientExists
<1>3. m \in Int /\ m * b \in Int
  BY FieldNumbers
<1>4. Cong(m * b, 1) /\ Cong(1, m * b)
  BY <1>1, <1>2, <1>3, CongIsEqualRemainder, CongSymmetric
<1>5. \A z \in Int : Cong(z, (z * b) * m)
  <2>1. ASSUME NEW z \in Int PROVE Cong(z, (z * b) * m)
    <3>1. Cong(z, z)
      BY CongReflexive
    <3>2. Cong(z * 1, z * (m * b))
      BY <1>1, <1>3, <1>4, <3>1, CongTimes
    <3>3. z * 1 = z /\ z * (m * b) = (z * b) * m
      BY <1>3
    <3> QED BY <3>2, <3>3
  <2> QED BY <2>1
<1>6. Cong((q * b) * m, (p * b) * m)
  <2>1. Cong(m, m)
    BY <1>3, CongReflexive
  <2> QED BY <1>1, <1>3, <2>1, CongTimes
<1>7. (q * b) * m \in Int /\ (p * b) * m \in Int
  BY <1>3
<1>8. Cong(q, (q * b) * m) /\ Cong((p * b) * m, p)
  BY <1>5, <1>7, CongSymmetric
<1>9. Cong(q, (p * b) * m)
  BY <1>6, <1>7, <1>8, CongTransitive
<1> QED BY <1>7, <1>8, <1>9, CongTransitive

(* The quotient that divide allocates is that of the numbers.              *)
LEMMA DivideIsSound ==
    ASSUME NEW a, NEW b, NEW m \in 0..(Modulus - 1), NEW n \in 0..(Modulus - 1),
           Sound(a, m), Sound(b, n), IsElement(a), IsElement(b),
           NEW q \in 0..(Modulus - 1),
           IF n = 0 THEN q = 0 ELSE (q * n - m) % Modulus = 0
    PROVE  Sound(divide(a, b), q)
<1>1. Modulus \in Nat \ {0} /\ Modulus < Pow(Base, NumLimbs)
      /\ Pow(Base, NumLimbs) \in Nat
  <2>1. NumLimbs \in Nat
    BY FieldNumbers
  <2> QED BY <2>1, FieldNumbers, PowersOfBase
<1> DEFINE x == Integer(a)
           y == Integer(b)
<1>2. x \in Int /\ y \in Int /\ Cong(x, m) /\ Cong(y, n)
  <2>1. x \in Int /\ y \in Int
    BY SoundInteger DEF Sound, Sized
  <2> QED BY <2>1 DEF Sound, Keeps
<1>3. m \in Int /\ n \in Int /\ q \in Int
  BY <1>1
<1>4. y % Modulus = n
  <2>1. y % Modulus = n % Modulus
    BY <1>2, <1>3, CongIsEqualRemainder
  <2>2. n = Modulus * 0 + n /\ 0 \in Int
    BY <1>1, <1>3
  <2>3. n % Modulus = n
    BY ONLY <1>1, <1>3, <2>2, n \in 0..(Modulus - 1), RemainderIsUnique
  <2> QED BY <2>1, <2>3
<1>5. CASE n = 0
  <2>1. divide(a, b) = Fails("unsat")
    BY <1>4, <1>5 DEF divide
  <2> QED BY <2>1, FailsIsSound
<1>6. CASE n # 0
  <2> DEFINE p == CHOOSE k \in 0..(Modulus - 1) :
                      (k * y) % Modulus = x % Modulus
             check == assert_is_equal(mul(Allocate(p), b), a)
  <2>1. divide(a, b) = Provided(check, Allocate(p))
    BY <1>4, <1>6 DEF divide
  <2> HIDE DEF x, y
  <2>2. y % Modulus # 0
    BY <1>4, <1>6
  <2>3. \E k \in 0..(Modulus - 1) : (k * y) % Modulus = x % Modulus
    BY <1>2, <2>2, QuotientExists
  <2>4. p \in 0..(Modulus - 1) /\ (p * y) % Modulus = x % Modulus
    BY <2>3
  <2> HIDE DEF p
  <2>5. p \in Nat /\ p \in Int /\ p < Pow(Base, NumLimbs) /\ p * y \in Int
    <3>1. p \in Nat /\ p \in Int /\ p < Pow(Base, NumLimbs)
      BY <1>1, <2>4
    <3> QED BY <1>2, <3>1
  <2>6. Cong(p * y, m)
    <3>1. Cong(p * y, x)
      BY <1>2, <2>4, <2>5, CongIsEqualRemainder
    <3> QED BY <1>2, <1>3, <2>5, <3>1, CongTransitive
  <2>7. Cong(q * y, m)
    <3>1. q * n \in Int /\ q * y \in Int
      BY <1>2, <1>3
    <3>2. Cong(q * n, m)
      <4>1. (q * n - m) \in Int /\ (q * n - m) % Modulus = 0
        BY <1>3, <1>6, <3>1
      <4> DEFINE d == q * n - m
      <4>2. d \in Int /\ d % Modulus = 0
        BY <4>1
      <4> HIDE DEF d
      <4>3. d = Modulus * (d \div Modulus) + 0 /\ d \div Modulus \in Int
        <5>1. d = Modulus * (d \div Modulus) + (d % Modulus)
              /\ d \div Modulus \in Int
          BY ONLY <1>1, <4>2, Remainder
        <5> QED BY <4>2, <5>1
      <4> DEFINE e == d \div Modulus
      <4>4. e \in Int /\ d = Modulus * e
        BY <1>1, <4>3
      <4> HIDE DEF e
      <4>5. q * n = m + Modulus * e
        BY <1>1, <1>3, <3>1, <4>4 DEF d
      <4> QED BY <4>4, <4>5 DEF Cong
    <3>3. Cong(q * y, q * n)
      <4>1. Cong(q, q)
        BY <1>3, CongReflexive
      <4> QED BY <1>2, <1>3, <4>1, CongTimes
    <3> QED BY <1>3, <3>1, <3>2, <3>3, CongTransitive
  <2>8. Cong(p * y, q * y)
    <3>1. q * y \in Int
      BY <1>2, <1>3
    <3>2. Cong(m, q * y)
      BY <1>3, <2>7, <3>1, CongSymmetric
    <3> QED BY <1>3, <2>5, <2>6, <3>1, <3>2, CongTransitive
  <2>9. Cong(p, q)
    BY <1>2, <1>3, <2>2, <2>5, <2>8, QuotientIsUnique
  <2>10. Sound(Allocate(p), q)
    BY <1>3, <2>5, <2>9, AllocateIsSound
  <2>11. ~(check \in {"allocated", "constant"})
    BY EqualityEnds
  <2> HIDE DEF check
  <2>12. Sound(Provided(check, Allocate(p)), q)
    BY <2>10, <2>11, ProvidedIsSound
  <2> QED BY <2>1, <2>12
<1> QED BY <1>5, <1>6

(* The element that is selected, with the larger overflow of both.         *)
LEMMA SelectIsSound ==
    ASSUME NEW a, NEW b, NEW m, NEW n, Sound(a, m), Sound(b, n),
           IsElement(a), IsElement(b), NEW condition \in BOOLEAN
    PROVE  Sound(conditionally_select(a, b, condition),
                 IF condition THEN n ELSE m)
<1> DEFINE o == Max({a.overflow, b.overflow})
           x == IF condition THEN b ELSE a
           v == IF condition THEN n ELSE m
           y == Allocated(x.limbs, o)
<1>1. CASE Len(a.limbs) # Len(b.limbs)
  <2>1. conditionally_select(a, b, condition) = Fails("unsat")
    BY <1>1 DEF conditionally_select
  <2> QED BY <2>1, FailsIsSound
<1>2. CASE Len(a.limbs) = Len(b.limbs)
  <2>1. conditionally_select(a, b, condition) = y
    BY <1>2 DEF conditionally_select
  <2>2. /\ a.overflow \in Nat /\ b.overflow \in Nat
        /\ a.overflow <= max_overflow /\ b.overflow <= max_overflow
    BY DEF Sound, Sized, Keeps
  <2>3. o = IF a.overflow < b.overflow THEN b.overflow ELSE a.overflow
    <3>1. a.overflow \in Int /\ b.overflow \in Int
      BY <2>2
    <3> QED BY ONLY <3>1, MaxOfTwo DEF o
  <2>4. Sized(x) /\ Keeps(x, v)
    BY DEF Sound
  <2>5. x.overflow \in Nat /\ x.overflow <= o /\ o \in Nat /\ o <= max_overflow
    <3>1. x = a \/ x = b
      OBVIOUS
    <3> HIDE DEF o, x
    <3> QED BY <2>2, <2>3, <3>1
  <2>6. y.limbs = x.limbs /\ y.overflow = o /\ y.is = "allocated"
    BY DEF Allocated
  <2> HIDE DEF o, x, v, y
  <2>7. Counted(y)
    <3>1. ASSUME NEW i \in DOMAIN y.limbs
          PROVE  y.limbs[i] <= (Base - 1) * Pow(2, y.overflow)
      <4> DEFINE d == Base - 1
                 p == Pow(2, x.overflow)
                 q == Pow(2, o)
      <4>1. x.limbs \in Seq(Nat) /\ x.limbs[i] \in Nat /\ x.limbs[i] <= d * p
        BY <2>4, <2>6 DEF Sized, Counted
      <4>2. d \in Nat
        <5>1. Base \in Nat \ {0, 1}
          BY FieldNumbers
        <5> QED BY <5>1
      <4>3. p \in Nat /\ q \in Nat /\ p <= q
        <5>1. 2 \in Nat \ {0}
          OBVIOUS
        <5>2. p <= q
          BY ONLY <2>5, <5>1, PowerGrows
        <5> QED BY <2>5, <5>2, PowersOfTwo
      <4> HIDE DEF d, p, q
      <4>4. d * p <= d * q /\ d * p \in Nat /\ d * q \in Nat
        <5>1. \A e, f, g \in Nat : /\ f <= g => e * f <= e * g
                                   /\ e * f \in Nat
          OBVIOUS
        <5> QED BY <4>2, <4>3, <5>1
      <4>5. x.limbs[i] <= d * q
        BY <4>1, <4>4
      <4> QED BY <2>6, <4>5 DEF d, q
    <3> QED BY <3>1 DEF Counted
  <2>8. Sized(y)
    BY <2>4, <2>5, <2>6, <2>7 DEF Sized
  <2>9. Keeps(y, v)
    <3>1. o = 0 => x.overflow = 0
      BY <2>5
    <3> QED BY <2>4, <2>5, <2>6, <3>1 DEF Keeps, Integer, IsConstant
  <2> QED BY <2>1, <2>8, <2>9 DEF Sound, v
<1> QED BY <1>1, <1>2

-------------------------------------------------------------------------------
\* The invariant, and the theorems.

(***************************************************************************)
(* The inductive invariant: every element stands for its number.           *)
(***************************************************************************)
Inv ==
    /\ reg = [r \in Reg |-> reg[r]]
    /\ value \in [Reg -> 0..(Modulus - 1)]
    /\ \A r \in Reg : Sound(reg[r], value[r])

(* It holds at first, is kept by every operation, and so always holds.     *)
LEMMA InvInitially == Init => Inv
<1> SUFFICES ASSUME Init PROVE Inv
  OBVIOUS
<1>1. PICK n \in [Reg -> Inputs], fixed \in [Reg -> BOOLEAN] :
          /\ reg = [r \in Reg |-> IF fixed[r] THEN From(n[r])
                                             ELSE Allocate(n[r])]
          /\ value = [r \in Reg |-> n[r] % Modulus]
  BY DEF Init
<1>2. Modulus \in Nat \ {0} /\ Pow(Base, NumLimbs) \in Nat
  <2>1. NumLimbs \in Nat
    BY FieldNumbers
  <2> QED BY <2>1, FieldNumbers, PowersOfBase
<1>3. ASSUME NEW r \in Reg
      PROVE  /\ n[r] \in Nat /\ n[r] \in Int /\ n[r] < Pow(Base, NumLimbs)
             /\ n[r] % Modulus \in 0..(Modulus - 1) /\ n[r] % Modulus \in Int
             /\ Cong(n[r], n[r] % Modulus)
  <2> DEFINE k == n[r]
  <2>1. k \in 0..(Pow(Base, NumLimbs) - 1)
    BY InputAssumption
  <2> HIDE DEF k
  <2>2. k \in Nat /\ k \in Int /\ k < Pow(Base, NumLimbs)
    BY <1>2, <2>1
  <2>3. k % Modulus \in 0..(Modulus - 1) /\ Cong(k % Modulus, k)
    BY <2>2, CongRemainder
  <2>4. k % Modulus \in Int
    BY <1>2, <2>3
  <2>5. Cong(k, k % Modulus)
    BY <2>2, <2>3, <2>4, CongSymmetric
  <2> QED BY <2>2, <2>3, <2>4, <2>5 DEF k
<1>4. value \in [Reg -> 0..(Modulus - 1)]
  BY <1>1, <1>3
<1>5. ASSUME NEW r \in Reg PROVE Sound(reg[r], value[r])
  <2>1. Sound(From(n[r]), n[r] % Modulus)
    BY <1>3, FromIsSound
  <2>2. Sound(Allocate(n[r]), n[r] % Modulus)
    BY <1>3, AllocateIsSound
  <2>3. value[r] = n[r] % Modulus
        /\ reg[r] = IF fixed[r] THEN From(n[r]) ELSE Allocate(n[r])
    BY <1>1
  <2> QED BY <2>1, <2>2, <2>3
<1> QED BY <1>1, <1>4, <1>5 DEF Inv

(* An operation's result that stands for the number it is said to.         *)
LEMMA AssignKeeps ==
    ASSUME Inv, NEW r \in Reg, NEW x, NEW n \in Int, Sound(x, n),
           Assign(r, x, n)
    PROVE  Inv'
<1>1. /\ reg = [s \in Reg |-> reg[s]]
      /\ value \in [Reg -> 0..(Modulus - 1)]
      /\ \A s \in Reg : Sound(reg[s], value[s])
  BY DEF Inv
<1>2. reg' = [reg EXCEPT ![r] = x] /\ value' = [value EXCEPT ![r] = n % Modulus]
  BY DEF Assign
<1>3. /\ n % Modulus \in 0..(Modulus - 1) /\ n % Modulus \in Int
      /\ Cong(n, n % Modulus)
  <2>1. n % Modulus \in 0..(Modulus - 1) /\ Cong(n % Modulus, n)
    BY CongRemainder
  <2>2. n % Modulus \in Int
    BY <2>1, FieldNumbers
  <2> QED BY <2>1, <2>2, CongSymmetric
<1>4. Sound(x, n % Modulus)
  BY <1>3, SoundCongruent
<1>5. reg' = [s \in Reg |-> reg'[s]]
  BY <1>1, <1>2
<1>6. value' \in [Reg -> 0..(Modulus - 1)]
  BY <1>1, <1>2, <1>3
<1>7. ASSUME NEW s \in Reg PROVE Sound(reg'[s], value'[s])
  <2>1. CASE s = r
    <3>1. reg'[s] = x /\ value'[s] = n % Modulus
      BY <1>1, <1>2, <2>1
    <3> QED BY <1>4, <3>1
  <2>2. CASE s # r
    <3>1. reg'[s] = reg[s] /\ value'[s] = value[s]
      BY <1>1, <1>2, <2>2
    <3> QED BY <1>1, <3>1
  <2> QED BY <2>1, <2>2
<1>8. \A s \in Reg : Sound(reg[s], value[s])'
  BY <1>7 DEF Sound, Sized, Keeps, Counted, IsElement, IsConstant, Integer
<1> QED BY <1>5, <1>6, <1>8 DEF Inv

(* Every operation of a circuit keeps the invariant.                       *)
LEMMA InvPreserved == Inv /\ [Next]_vars => Inv'
<1> SUFFICES ASSUME Inv, [Next]_vars PROVE Inv'
  OBVIOUS
<1>1. /\ \A r \in Reg : Sound(reg[r], value[r])
      /\ \A r \in Reg : value[r] \in 0..(Modulus - 1) /\ value[r] \in Int
  <2>1. Modulus \in Nat \ {0}
    BY FieldNumbers
  <2> QED BY <2>1 DEF Inv
<1>2. CASE UNCHANGED vars
  BY <1>2 DEF vars, Inv, Sound, Sized, Keeps, Counted, IsElement, IsConstant,
              Integer
<1>3. ASSUME NEW r \in Reg, NEW a \in Reg, NEW b \in Reg, Add(r, a, b)
      PROVE  Inv'
  <2>1. Sound(add(reg[a], reg[b]), value[a] + value[b])
    BY <1>1, OperationsAreSound
  <2>2. value[a] + value[b] \in Int
    BY <1>1
  <2> QED BY <1>3, <2>1, <2>2, AssignKeeps DEF Add
<1>4. ASSUME NEW r \in Reg, NEW a \in Reg, NEW b \in Reg, Mul(r, a, b)
      PROVE  Inv'
  <2>1. Sound(mul(reg[a], reg[b]), value[a] * value[b])
    BY <1>1, OperationsAreSound
  <2>2. value[a] * value[b] \in Int
    BY <1>1
  <2> QED BY <1>4, <2>1, <2>2, AssignKeeps DEF Mul
<1>5. ASSUME NEW r \in Reg, NEW a \in Reg, NEW b \in Reg, Divide(r, a, b)
      PROVE  Inv'
  <2>1. PICK q \in 0..(Modulus - 1) :
            /\ IF value[b] = 0 THEN q = 0
                               ELSE (q * value[b] - value[a]) % Modulus = 0
            /\ Assign(r, divide(reg[a], reg[b]), q)
    BY <1>5 DEF Divide
  <2>2. IsElement(reg[a]) /\ IsElement(reg[b])
    BY <2>1 DEF Assign
  <2>3. Sound(divide(reg[a], reg[b]), q)
    BY <1>1, <2>1, <2>2, DivideIsSound
  <2>4. q \in Int
    BY FieldNumbers
  <2> QED BY <2>1, <2>3, <2>4, AssignKeeps
<1>6. ASSUME NEW r \in Reg, Reduce(r) PROVE Inv'
  <2>1. Sound(reduce(reg[r]), value[r])
    BY <1>1, ReduceIsSound
  <2> QED BY <1>1, <1>6, <2>1, AssignKeeps DEF Reduce
<1>7. ASSUME NEW r \in Reg, NEW a \in Reg, NEW c \in Factors, Scale(r, a, c)
      PROVE  Inv'
  <2>1. c \in Nat /\ c * value[a] \in Int
    BY <1>1, InputAssumption
  <2>2. Sound(mul_const(reg[a], c), c * value[a])
    BY <1>1, <2>1, MulConstIsSound
  <2> QED BY <1>7, <2>1, <2>2, AssignKeeps DEF Scale
<1>8. ASSUME NEW r \in Reg, NEW a \in Reg, NEW b \in Reg,
             NEW condition \in BOOLEAN, Select(r, a, b, condition)
      PROVE  Inv'
  <2> DEFINE x == conditionally_select(reg[a], reg[b], condition)
             n == value[IF condition THEN b ELSE a]
  <2>1. IsElement(reg[a]) /\ IsElement(reg[b]) /\ Assign(r, x, n)
    BY <1>8 DEF Select, Assign
  <2>2. Sound(x, IF condition THEN value[b] ELSE value[a])
    BY <1>1, <2>1, SelectIsSound
  <2>3. n = (IF condition THEN value[b] ELSE value[a]) /\ n \in Int
    BY <1>1
  <2> HIDE DEF x, n
  <2> QED BY <2>1, <2>2, <2>3, AssignKeeps
<1> QED BY <1>2, <1>3, <1>4, <1>5, <1>6, <1>7, <1>8 DEF Next

(* It holds throughout.                                                    *)
LEMMA InvHolds == Spec => []Inv
BY InvInitially, InvPreserved, PTL DEF Spec

(***************************************************************************)
(* In every circuit, overflow tells how much larger than fresh ones the limbs*)
(* of an element may be (add_precondition, mul_precondition, mul_const).   *)
(***************************************************************************)
THEOREM LimbsCountedCorrect == Spec => []LimbsCounted
<1>1. Inv => LimbsCounted
  BY DEF Inv, LimbsCounted, Sound, Sized
<1> QED BY <1>1, InvHolds, PTL

(***************************************************************************)
(* In every circuit, over any field with room for a product, an element is *)
(* congruent to the number it stands for: no limb has wrapped around the   *)
(* native prime, and folding and reductions keep the number (Compute,      *)
(* fold_limbs, reduce, divide).                                            *)
(***************************************************************************)
THEOREM ValueKeptCorrect == Spec => []ValueKept
<1>1. Inv => ValueKept
  <2> SUFFICES ASSUME Inv, NEW r \in Reg, IsElement(reg[r])
               PROVE  Integer(reg[r]) % Modulus = value[r]
    BY DEF ValueKept
  <2> DEFINE x == Integer(reg[r])
             v == value[r]
  <2>1. Sized(reg[r]) /\ Keeps(reg[r], v) /\ v \in 0..(Modulus - 1)
    BY DEF Inv, Sound
  <2>2. x \in Int /\ Cong(x, v)
    BY <2>1, SoundInteger DEF Sized, Keeps
  <2>3. Modulus \in Nat \ {0}
    BY FieldNumbers
  <2> HIDE DEF x, v
  <2>4. v \in Int /\ 0 \in Int /\ v = Modulus * 0 + v
    BY <2>1, <2>3
  <2>5. x % Modulus = v % Modulus
    BY <2>2, <2>4, CongIsEqualRemainder
  <2>6. v % Modulus = v
    BY ONLY <2>1, <2>3, <2>4, RemainderIsUnique
  <2> QED BY <2>5, <2>6 DEF x, v
<1> QED BY <1>1, InvHolds, PTL

-------------------------------------------------------------------------------
\* Membership.

(* Limbs below the base make up a number below its power, and the largest  *)
(* one only if all of them are the largest.                                *)
LEMMA WeighedIsBelow ==
    ASSUME NEW n \in Nat, NEW f, \A i \in 1..n : f[i] \in 0..(Base - 1)
    PROVE  /\ Weighed(f, n) \in 0..(Pow(Base, n) - 1)
           /\ Weighed(f, n) = Pow(Base, n) - 1
                <=> \A i \in 1..n : f[i] = Base - 1
<1> DEFINE Largest(k) == \A i \in 1..k : f[i] = Base - 1
           S == {k \in 0..n :
                     /\ Weighed(f, k) \in 0..(Pow(Base, k) - 1)
                     /\ Weighed(f, k) = Pow(Base, k) - 1 <=> Largest(k)}
<1>1. Base \in Nat \ {0, 1}
  BY FieldNumbers
<1>2. /\ Weighed(f, 0) = 0
      /\ \A k \in 0..(n - 1) :
             Weighed(f, k + 1) = Weighed(f, k) + f[k + 1] * Pow(Base, k)
  <2>1. \A i \in 1..n : f[i] \in Int
    BY <1>1
  <2> QED BY <2>1, WeighedSteps
<1>3. 0 \in S
  <2>1. Pow(Base, 0) = 1 /\ Largest(0) /\ 0 \in 0..n
    BY PowersOfBase
  <2> HIDE DEF Largest
  <2> QED BY <1>2, <2>1
<1>4. ASSUME NEW k \in 0..(n - 1), k \in S PROVE k + 1 \in S
  <2> DEFINE w == Weighed(f, k)
             p == Pow(Base, k)
             l == f[k + 1]
             b == Base
  <2>1. k \in Nat /\ k + 1 \in 0..n /\ k + 1 \in 1..n
    OBVIOUS
  <2>2. p \in Nat \ {0} /\ Pow(Base, k + 1) = b * p
    BY <2>1, PowersOfBase
  <2>3. w \in 0..(p - 1) /\ (w = p - 1 <=> Largest(k))
    BY <1>4
  <2>4. Weighed(f, k + 1) = w + l * p /\ l \in 0..(b - 1)
    BY <1>2, <2>1
  <2>5. Largest(k + 1) <=> Largest(k) /\ l = b - 1
    <3>1. ASSUME Largest(k), l = b - 1, NEW i \in 1..(k + 1)
          PROVE  f[i] = Base - 1
      <4>1. i = k + 1 \/ i \in 1..k
        OBVIOUS
      <4> QED BY <3>1, <4>1
    <3>2. \A i \in 1..k : i \in 1..(k + 1)
      OBVIOUS
    <3>3. k + 1 \in 1..(k + 1)
      OBVIOUS
    <3> QED BY <3>1, <3>2, <3>3
  <2>6. b \in Nat \ {0, 1}
    BY <1>1
  <2> HIDE DEF w, p, l, b, Largest
  <2>7. l \in Nat /\ w \in Nat /\ p \in Nat /\ w <= p - 1 /\ l <= b - 1
    BY <2>2, <2>3, <2>4, <2>6
  <2>8. l * p \in Nat /\ b * p \in Nat /\ l * p <= b * p - p
    <3>1. l * p <= (b - 1) * p
      BY <2>6, <2>7
    <3>2. (b - 1) * p = b * p - p
      BY <2>6, <2>7
    <3>3. l * p \in Nat /\ b * p \in Nat
      BY <2>6, <2>7
    <3> QED BY <3>1, <3>2, <3>3
  <2>9. w + l * p \in 0..(b * p - 1)
    BY <2>2, <2>7, <2>8
  <2>10. w + l * p = b * p - 1 <=> w = p - 1 /\ l = b - 1
    <3>1. l # b - 1 => l * p <= b * p - 2 * p
      <4>1. l # b - 1 => l <= b - 2
        BY <2>6, <2>7
      <4>2. l <= b - 2 => l * p <= (b - 2) * p
        BY <2>6, <2>7
      <4>3. (b - 2) * p = b * p - 2 * p
        BY <2>6, <2>7
      <4> QED BY <4>1, <4>2, <4>3
    <3>2. l = b - 1 => l * p = b * p - p
      <4>1. (b - 1) * p = b * p - p
        BY <2>6, <2>7
      <4> QED BY <4>1
    <3> QED BY <2>2, <2>7, <2>8, <3>1, <3>2
  <2> QED BY <2>1, <2>2, <2>3, <2>4, <2>5, <2>9, <2>10 DEF w, b
<1>5. n \in S
  <2> HIDE DEF S
  <2>1. \A k \in 0..n : k \in S
    BY ONLY n \in Nat, <1>3, <1>4, InductionTo
  <2> QED BY <2>1
<1> QED BY <1>5

\* The modulus has E bits, which end in the last limb.
(* The bits of the modulus, and of its highest limb.                       *)
LEMMA ModulusBits ==
    /\ Bits(Modulus) = E
    /\ Width(NumLimbs) = E - (NumLimbs - 1) * BitsPerLimb
    /\ Width(NumLimbs) \in 1..BitsPerLimb
<1>1. /\ BitsPerLimb \in Nat \ {0} /\ NumLimbs \in Nat \ {0, 1}
      /\ E \in Nat \ {0} /\ Modulus \in Nat \ {0}
  BY FieldNumbers
<1>2. E - 1 \in Nat /\ (E - 1) + 1 = E
  BY <1>1
<1>3. /\ Pow(2, E - 1) \in Nat \ {0} /\ Pow(2, E) = 2 * Pow(2, E - 1)
  BY <1>2, PowersOfTwo
<1>4. Modulus < Pow(2, E) /\ Modulus >= Pow(2, E - 1)
  <2>1. C \in 1..Pow(2, E - 1)
    BY FieldAssumption
  <2> QED BY <1>3, <2>1 DEF Modulus
<1>5. Bits(Modulus) = E
  <2> DEFINE m == Modulus
             P(k) == m < Pow(2, k) /\ (k > 0 => m >= Pow(2, k - 1))
  <2> HIDE DEF m
  <2>1. m \in Nat /\ P(E)
    BY <1>1, <1>4 DEF m
  <2>2. E \in 0..m
    <3>1. E - 1 < Pow(2, E - 1)
      BY <1>2, PowersOfTwo
    <3> QED BY <1>1, <1>2, <1>3, <1>4, <2>1, <3>1 DEF m
  <2>3. ASSUME NEW k \in 0..m, P(k) PROVE k = E
    <3>0. k \in Nat /\ 2 \in Nat \ {0}
      BY <2>1
    <3>1. ASSUME k < E PROVE FALSE
      <4>1. k <= E - 1
        BY <1>1, <3>0, <3>1
      <4>2. Pow(2, k) <= Pow(2, E - 1)
        BY ONLY <1>2, <3>0, <4>1, PowerGrows
      <4>3. Pow(2, k) \in Nat
        BY <3>0, PowersOfTwo
      <4> QED BY <1>3, <1>4, <2>1, <2>3, <4>2, <4>3 DEF m
    <3>2. ASSUME E < k PROVE FALSE
      <4>1. E <= k - 1 /\ k - 1 \in Nat /\ k > 0 /\ E \in Nat
        BY <1>1, <3>0, <3>2
      <4>2. Pow(2, E) <= Pow(2, k - 1)
        BY ONLY <3>0, <4>1, PowerGrows
      <4>3. Pow(2, k - 1) \in Nat /\ Pow(2, E) \in Nat
        BY <4>1, PowersOfTwo
      <4> QED BY <1>4, <2>1, <2>3, <4>1, <4>2, <4>3 DEF m
    <3> QED BY <1>1, <3>0, <3>1, <3>2
  <2>4. Bits(m) = CHOOSE k \in 0..m : P(k)
    BY DEF Bits
  <2> HIDE DEF P
  <2>5. Bits(m) \in 0..m /\ P(Bits(m))
    BY <2>1, <2>2, <2>4
  <2> QED BY <2>3, <2>5 DEF m
<1>6. /\ E \in ((NumLimbs - 1) * BitsPerLimb + 1)..(NumLimbs * BitsPerLimb)
  BY FieldAssumption
<1> DEFINE b == BitsPerLimb
           k == NumLimbs - 1
           r == E - 1 - k * b
<1>7. /\ k \in Nat /\ k * b \in Nat /\ NumLimbs * b = k * b + b
  BY <1>1
<1>8. r \in 0..(b - 1) /\ E - 1 = b * k + r /\ E - 1 \in Int
  <2>1. b * k = k * b
    BY <1>1, <1>7
  <2>2. k * b + 1 <= E /\ E <= k * b + b /\ b \in Nat /\ E \in Nat
    BY <1>1, <1>6, <1>7
  <2> DEFINE t == k * b
  <2>3. t \in Nat
    BY <1>7
  <2> HIDE DEF t
  <2> QED BY <1>1, <2>1, <2>2, <2>3 DEF t
<1>9. (E - 1) % b = r
  <2>1. b \in Nat \ {0} /\ k \in Int
    BY <1>1
  <2> HIDE DEF b, k, r
  <2> QED BY ONLY <1>8, <2>1, RemainderIsUnique
<1>10. Width(NumLimbs) = 1 + r
  BY <1>5, <1>9 DEF Width
<1>11. 1 + r = E - k * b /\ 1 + r \in 1..b
  <2>1. b \in Nat \ {0} /\ k * b \in Int /\ E \in Int
    BY <1>1, <1>7
  <2> DEFINE t == k * b
  <2> HIDE DEF t, b, k
  <2> QED BY <1>8, <2>1 DEF t
<1> QED BY <1>5, <1>10, <1>11

(***************************************************************************)
(* With limbs below the base, the bits of the limbs and of the lowest one  *)
(* tell whether a number is below the modulus.                             *)
(***************************************************************************)
LEMMA LimbsTellMembership ==
    ASSUME NEW x, x.limbs \in Seq(Nat), Len(x.limbs) = NumLimbs, C < Base
    PROVE  (/\ \A i \in 1..NumLimbs : x.limbs[i] < Pow(2, Width(i))
            /\ x.limbs[1] + (IF \A i \in 2..NumLimbs :
                                    x.limbs[i] = Pow(2, Width(i)) - 1
                             THEN C ELSE 0) < Base)
           <=> /\ \A i \in DOMAIN x.limbs : x.limbs[i] < Base
               /\ Integer(x) < Modulus
<1> DEFINE l == x.limbs
           n == NumLimbs
           b == Base
           T == Pow(2, Width(n))
           m == n - 2
           P == Pow(Base, m)
           g == [i \in 1..(m + 1) |-> l[1 + i]]
           lo == Weighed(g, m)
           hi == l[n]
           H == lo + P * hi
           full == \A i \in 2..n : l[i] = Pow(2, Width(i)) - 1
           Fits == \A i \in 1..n : l[i] < Pow(2, Width(i))
           Small == \A i \in 1..n : l[i] < b
<1>1. /\ n \in Nat \ {0, 1} /\ b \in Nat \ {0, 1} /\ m \in Nat
      /\ BitsPerLimb \in Nat \ {0}
      /\ l \in Seq(Nat) /\ Len(l) = n /\ DOMAIN l = 1..n
      /\ \A i \in 1..n : l[i] \in Nat
  BY FieldNumbers
<1>2. /\ Width(n) \in 1..BitsPerLimb /\ \A i \in 1..(n - 1) : Width(i) = BitsPerLimb
      /\ E = Width(n) + (n - 1) * BitsPerLimb /\ Width(n) \in Nat
  <2>1. Width(n) = E - (n - 1) * BitsPerLimb /\ Width(n) \in 1..BitsPerLimb
    BY ModulusBits
  <2>2. (n - 1) * BitsPerLimb \in Int /\ E \in Int /\ Width(n) \in Nat
    BY <1>1, <2>1, FieldNumbers
  <2>3. ASSUME NEW i \in 1..(n - 1) PROVE Width(i) = BitsPerLimb
    <3>1. i # NumLimbs
      BY <1>1
    <3> QED BY <3>1 DEF Width
  <2>4. \A e, w, t \in Int : w = e - t => e = w + t
    OBVIOUS
  <2>5. E = Width(n) + (n - 1) * BitsPerLimb
    BY <2>1, <2>2, <2>4
  <2> QED BY <2>1, <2>2, <2>3, <2>5
<1>3. /\ T \in Nat \ {0} /\ T <= b /\ P \in Nat \ {0}
      /\ Pow(2, E) = b * (P * T)
  <2>1. T \in Nat \ {0}
    BY <1>2, PowersOfTwo
  <2>2. T <= b
    <3>1. Width(n) <= BitsPerLimb /\ BitsPerLimb \in Nat /\ 2 \in Nat \ {0}
          /\ Width(n) \in Nat
      BY <1>1, <1>2
    <3> QED BY ONLY <3>1, PowerGrows DEF Base
  <2>3. P \in Nat \ {0}
    BY <1>1, PowersOfBase
  <2>4. Pow(Base, m + 1) = b * P
    BY <1>1, PowersOfBase
  <2>5. Pow(Base, m + 1) = Pow(2, BitsPerLimb * (m + 1))
    <3>1. 2 \in Int /\ BitsPerLimb \in Nat /\ m + 1 \in Nat
      BY <1>1
    <3> QED BY ONLY <3>1, PowerOfPower DEF Base
  <2>6. Pow(2, E) = Pow(2, BitsPerLimb * (m + 1)) * T
    <3>1. BitsPerLimb * (m + 1) = (n - 1) * BitsPerLimb
          /\ BitsPerLimb * (m + 1) \in Nat
      <4> DEFINE k == n - 1
      <4>1. m + 1 = k /\ k \in Nat /\ BitsPerLimb \in Nat
        BY <1>1
      <4> HIDE DEF k, m
      <4>2. BitsPerLimb * k = k * BitsPerLimb /\ BitsPerLimb * k \in Nat
        BY <4>1
      <4> QED BY <4>1, <4>2 DEF k
    <3> DEFINE t == BitsPerLimb * (m + 1)
    <3>2. E = t + Width(n) /\ t \in Nat /\ Width(n) \in Nat /\ 2 \in Int
      <4>1. t \in Nat /\ t = (n - 1) * BitsPerLimb
        BY <3>1
      <4> HIDE DEF t
      <4> QED BY <1>2, <4>1
    <3> HIDE DEF t
    <3>3. Pow(2, t + Width(n)) = Pow(2, t) * T
      BY ONLY <3>2, PowerSum
    <3> QED BY <3>2, <3>3 DEF t
  <2>7. (b * P) * T = b * (P * T)
    BY <1>1, <2>1, <2>3
  <2> QED BY <2>1, <2>2, <2>3, <2>4, <2>5, <2>6, <2>7
<1>4. C \in Nat \ {0} /\ C < b /\ Modulus = b * (P * T) - C
  <2>1. E - 1 \in Nat
    BY FieldNumbers
  <2>2. C \in 1..Pow(2, E - 1) /\ Pow(2, E - 1) \in Nat
    BY <2>1, FieldAssumption, PowersOfTwo
  <2> QED BY <1>3, <2>2 DEF Modulus
<1>5. Integer(x) = l[1] + b * H /\ lo \in Int /\ Integer(x) \in Int
  <2>1. l \in Seq(Int) /\ Integer(x) = recompose(l) /\ Integer(x) \in Int
    BY <1>1, SoundInteger
  <2>2. Integer(x) = Weighed(l, n)
    BY <1>1, <2>1, RecomposeWeighs
  <2>3. /\ 1 \in Nat /\ m + 1 \in Nat /\ 1 + (m + 1) = n
        /\ \A i \in 1..(1 + (m + 1)) : l[i] \in Int
        /\ \A i \in 1..(m + 1) : g[i] = l[1 + i] /\ g[i] \in Int
    <3>1. 1 + (m + 1) = n
      BY <1>1
    <3>2. \A i \in 1..(m + 1) : 1 + i \in 1..n
      BY <1>1
    <3> QED BY <1>1, <3>1, <3>2
  <2> DEFINE k == m + 1
  <2>4. g[m + 1] = hi /\ m \in 0..((m + 1) - 1) /\ m \in 0..(m + 1)
    BY <1>1, <2>3
  <2> HIDE DEF g, l
  <2>5. Weighed(l, 1 + (m + 1)) = Weighed(l, 1) + Pow(Base, 1) * Weighed(g, m + 1)
    <3>1. 1 \in Nat /\ k \in Nat /\ \A i \in 1..(1 + k) : l[i] \in Int
      BY <2>3
    <3>2. \A i \in 1..k : g[i] = l[1 + i]
      BY <2>3
    <3> HIDE DEF k
    <3>3. Weighed(l, 1 + k) = Weighed(l, 1) + Pow(Base, 1) * Weighed(g, k)
      BY ONLY <3>1, <3>2, WeighedSplit
    <3> QED BY <3>3 DEF k
  <2>6. Weighed(g, m + 1) = lo + hi * P /\ lo \in Int
    <3>1. k \in Nat /\ \A i \in 1..k : g[i] \in Int
      BY <2>3
    <3> HIDE DEF k
    <3>2. /\ \A j \in 0..k : Weighed(g, j) \in Int
          /\ \A j \in 0..(k - 1) :
                 Weighed(g, j + 1) = Weighed(g, j) + g[j + 1] * Pow(Base, j)
      BY ONLY <3>1, WeighedSteps
    <3> QED BY <2>4, <3>2 DEF k
  <2>7. Weighed(l, 1) = l[1]
    <3>1. \A i \in 1..1 : l[i] \in Int
      BY <2>3
    <3>2. /\ Weighed(l, 0) = 0
          /\ \A j \in 0..(1 - 1) :
                 Weighed(l, j + 1) = Weighed(l, j) + l[j + 1] * Pow(Base, j)
      BY ONLY <3>1, 1 \in Nat, WeighedSteps
    <3>3. Weighed(l, 0 + 1) = Weighed(l, 0) + l[0 + 1] * Pow(Base, 0)
      BY <3>2
    <3>4. l[1] \in Int /\ 0 + 1 = 1 /\ Pow(Base, 0) = 1
      BY <2>3, PowersOfBase
    <3>5. 0 + l[1] * 1 = l[1]
      BY <3>4
    <3> QED BY <3>2, <3>3, <3>4, <3>5
  <2>8. Pow(Base, 1) = b
    <3>1. Pow(Base, 0 + 1) = Base * Pow(Base, 0) /\ Pow(Base, 0) = 1
      BY PowersOfBase
    <3> QED BY <1>1, <3>1
  <2>9. hi * P = P * hi
    <3>1. hi \in Int
      BY <1>1 DEF l
    <3> QED BY <1>3, <3>1
  <2> QED BY <2>1, <2>2, <2>3, <2>5, <2>6, <2>7, <2>8, <2>9
<1>6. ASSUME Small
      PROVE  /\ lo \in 0..(P - 1)
             /\ (lo = P - 1 <=> \A i \in 1..m : g[i] = b - 1)
  <2>1. ASSUME NEW i \in 1..m PROVE g[i] \in 0..(Base - 1)
    <3>1. 1 + i \in 1..n /\ i \in 1..(m + 1)
      BY <1>1
    <3>2. g[i] = l[1 + i] /\ l[1 + i] \in Nat /\ l[1 + i] < b
      BY <1>1, <1>6, <3>1
    <3>3. \A j, c \in Nat : j < c => j \in 0..(c - 1)
      OBVIOUS
    <3>4. b \in Nat
      BY <1>1
    <3> HIDE DEF g, l
    <3> QED BY ONLY <3>2, <3>3, <3>4
  <2> HIDE DEF g, m
  <2> QED BY ONLY <1>1, <2>1, WeighedIsBelow
<1>7. Fits => Small
  <2>1. ASSUME Fits, NEW i \in 1..n PROVE l[i] < b
    <3>1. CASE i = n
      BY <1>1, <1>3, <2>1, <3>1
    <3>2. CASE i # n
      <4>1. i \in 1..(n - 1)
        BY <1>1, <3>2
      <4> QED BY <1>2, <2>1, <4>1 DEF Base
    <3> QED BY <3>1, <3>2
  <2> QED BY <2>1
<1>8. Small => (Fits <=> hi < T)
  <2>1. ASSUME Small, hi < T, NEW i \in 1..n PROVE l[i] < Pow(2, Width(i))
    <3>1. CASE i = n
      BY <2>1, <3>1
    <3>2. CASE i # n
      <4>1. i \in 1..(n - 1)
        BY <1>1, <3>2
      <4> QED BY <1>2, <2>1, <4>1 DEF Base
    <3> QED BY <3>1, <3>2
  <2>2. n \in 1..n
    BY <1>1
  <2> QED BY <2>1, <2>2
<1>9. full <=> hi = T - 1 /\ \A i \in 1..m : g[i] = b - 1
  <2>1. ASSUME full PROVE hi = T - 1 /\ \A i \in 1..m : g[i] = b - 1
    <3>1. n \in 2..n
      BY <1>1
    <3>2. \A i \in 1..m : 1 + i \in 2..n /\ 1 + i \in 1..(n - 1)
                          /\ i \in 1..(m + 1)
      BY <1>1
    <3> QED BY <1>2, <2>1, <3>1, <3>2 DEF Base
  <2>2. ASSUME hi = T - 1, \A i \in 1..m : g[i] = b - 1, NEW i \in 2..n
        PROVE  l[i] = Pow(2, Width(i)) - 1
    <3>1. CASE i = n
      BY <2>2, <3>1
    <3>2. CASE i # n
      <4>1. i - 1 \in 1..m /\ i \in 1..(n - 1) /\ i - 1 \in 1..(m + 1)
            /\ 1 + (i - 1) = i
        BY <1>1, <3>2
      <4>2. g[i - 1] = l[i] /\ g[i - 1] = b - 1
        BY <2>2, <4>1
      <4> QED BY <1>2, <4>1, <4>2 DEF Base
    <3> QED BY <3>1, <3>2
  <2> QED BY <2>1, <2>2
<1>10. l[1] \in Nat /\ hi \in Nat /\ (Small => l[1] < b)
  <2>1. 1 \in 1..n /\ n \in 1..n
    BY <1>1
  <2> QED BY <1>1, <2>1
<1> DEFINE v == l[1]
           A == \A i \in 1..m : g[i] = b - 1
<1>11. (Fits /\ v + (IF full THEN C ELSE 0) < b) <=> (Small /\ Integer(x) < Modulus)
  <2> DEFINE N == Integer(x)
  <2>1. /\ v \in Nat /\ hi \in Nat /\ b \in Nat \ {0, 1} /\ P \in Nat \ {0}
        /\ T \in Nat \ {0} /\ C \in Nat \ {0} /\ C < b /\ lo \in Int
        /\ N = v + b * H /\ Modulus = b * (P * T) - C
        /\ Small => v < b
    BY <1>1, <1>3, <1>4, <1>5, <1>10
  <2>2. CASE ~Small
    BY <1>7, <2>2
  <2>3. CASE Small
    <3>1. /\ lo \in 0..(P - 1) /\ (lo = P - 1 <=> A)
          /\ (Fits <=> hi < T)
          /\ (full <=> hi = T - 1 /\ A)
          /\ v < b
      BY <1>6, <1>8, <1>9, <2>1, <2>3
    <3> HIDE DEF v, A, g, lo, hi, P, T, b, N, full, Fits, Small, m, n, l
    <3>2. lo \in Nat /\ lo <= P - 1 /\ H \in Nat
      <4>1. lo \in Nat /\ lo <= P - 1
        BY <2>1, <3>1
      <4>2. P * hi \in Nat
        BY <2>1
      <4> QED BY <4>1, <4>2
    <3> DEFINE h == P * hi
               t == P * T
    <3>3. h \in Nat /\ t \in Nat
      BY <2>1
    <3>4. hi >= T => h >= t
      BY <2>1
    <3>5. hi <= T - 1 => h <= t - P
      <4>1. hi <= T - 1 => P * hi <= P * (T - 1)
        BY <2>1
      <4>2. P * (T - 1) = P * T - P
        BY <2>1
      <4> QED BY <4>1, <4>2
    <3>6. hi <= T - 2 => h <= t - 2 * P
      <4>1. hi <= T - 2 => P * hi <= P * (T - 2)
        BY <2>1
      <4>2. P * (T - 2) = P * T - 2 * P
        BY <2>1
      <4> QED BY <4>1, <4>2
    <3>7. hi = T - 1 => h = t - P
      <4>1. P * (T - 1) = P * T - P
        BY <2>1
      <4> QED BY <4>1
    <3> HIDE DEF h, t
    <3>8. H = lo + h
      BY DEF h
    <3>9. hi >= T => H >= t
      BY <2>1, <3>2, <3>3, <3>4, <3>8
    <3>10. hi < T => H <= t - 1
      BY <2>1, <3>2, <3>3, <3>5, <3>8
    <3>11. hi < T => (H = t - 1 <=> full)
      <4>1. CASE hi = T - 1
        BY <2>1, <3>1, <3>2, <3>3, <3>7, <3>8, <4>1
      <4>2. CASE hi # T - 1 /\ hi < T
        <5>1. hi <= T - 2
          BY <2>1, <4>2
        <5>2. h <= t - 2 * P
          BY <3>6, <5>1
        <5>3. H < t - 1
          BY <2>1, <3>2, <3>3, <3>8, <5>2
        <5> QED BY <2>1, <3>1, <3>2, <3>3, <4>2, <5>3
      <4> QED BY <4>1, <4>2
    <3> DEFINE e == b * H
               s == b * t
    <3>12. e \in Nat /\ s \in Nat /\ N = v + e /\ Modulus = s - C
      BY <2>1, <3>2, <3>3 DEF t
    <3>13. H >= t => e >= s
      BY <2>1, <3>2, <3>3
    <3>14. H = t - 1 => e = s - b
      <4>1. b * (t - 1) = b * t - b
        BY <2>1, <3>3
      <4> QED BY <4>1
    <3>15. H <= t - 2 => e <= s - 2 * b
      <4>1. H <= t - 2 => b * H <= b * (t - 2)
        BY <2>1, <3>2, <3>3
      <4>2. b * (t - 2) = b * t - 2 * b
        BY <2>1, <3>3
      <4> QED BY <4>1, <4>2
    <3> HIDE DEF e, s, H
    <3>16. CASE hi >= T
      <4>1. ~Fits
        BY <2>1, <3>1, <3>16
      <4>2. e >= s
        BY <3>9, <3>13, <3>16
      <4>3. ~(N < Modulus)
        <5>1. v \in Nat /\ C \in Nat \ {0}
          BY <2>1
        <5>2. e \in Nat /\ s \in Nat
          BY <3>12
        <5> QED BY ONLY <4>2, <3>12, <5>1, <5>2
      <4> QED BY ONLY <4>1, <4>3 DEF N
    <3>17. CASE hi < T /\ full
      <4>1. H = t - 1 /\ e = s - b
        BY <3>11, <3>14, <3>17
      <4>2. N < Modulus <=> v + C < b
        BY <2>1, <3>12, <4>1
      <4>3. Fits /\ (v + (IF full THEN C ELSE 0) < b <=> v + C < b)
        BY ONLY <3>1, <3>17
      <4> QED BY ONLY <2>3, <4>2, <4>3 DEF N, v
    <3>18. CASE hi < T /\ ~full
      <4>1. H <= t - 2
        BY <3>2, <3>3, <3>10, <3>11, <3>18
      <4>2. e <= s - 2 * b
        BY <3>15, <4>1
      <4>3. N < Modulus
        BY <2>1, <3>1, <3>12, <4>2
      <4>4. v + 0 < b
        BY <2>1, <3>1
      <4>5. Fits /\ (v + (IF full THEN C ELSE 0) < b <=> v + 0 < b)
        BY ONLY <3>1, <3>18
      <4> QED BY ONLY <2>3, <4>3, <4>4, <4>5 DEF N, v
    <3> QED BY <2>1, <3>16, <3>17, <3>18
  <2> QED BY <2>2, <2>3
<1> QED BY <1>1, <1>11

(***************************************************************************)
(* The membership check of a pseudo-Mersenne prime, which looks at single  *)
(* limbs, accepts the numbers below the modulus and no others              *)
(* (check_field_membership).                                               *)
(***************************************************************************)
THEOREM MembershipIsExactCorrect == Spec => []MembershipIsExact
<1> DEFINE Small == mersenne => C < Base
<1>1. Init => Small
  BY DEF Init
<1>2. Small /\ [Next]_vars => Small'
  <2> SUFFICES ASSUME [Next]_vars PROVE mersenne' = mersenne
    OBVIOUS
  <2> QED BY DEF Next, Add, Mul, Divide, Reduce, Scale, Select, Assign, vars
<1>3. Inv /\ Small => MembershipIsExact
  <2> SUFFICES ASSUME Inv, Small, mersenne,
                      NEW x \in {reg[r] : r \in Reg}
                        \cup {Allocate(n) : n \in 0..(Pow(Base, NumLimbs) - 1)},
                      Len(x.limbs) = NumLimbs
               PROVE  check_field_membership(x) <=>
                         /\ \A i \in DOMAIN x.limbs : x.limbs[i] < Base
                         /\ Integer(x) < Modulus
    BY DEF MembershipIsExact
  <2>1. Sized(x) /\ (IsConstant(x) => x.overflow = 0)
    <3>1. CASE x \in {reg[r] : r \in Reg}
      <4>1. PICK r \in Reg : x = reg[r]
        BY <3>1
      <4>2. Sound(x, value[r])
        BY <4>1 DEF Inv
      <4> QED BY <4>2 DEF Sound, Keeps, IsConstant, IsElement
    <3>2. CASE x \in {Allocate(n) : n \in 0..(Pow(Base, NumLimbs) - 1)}
      <4>1. PICK n \in 0..(Pow(Base, NumLimbs) - 1) : x = Allocate(n)
        BY <3>2
      <4>2. Pow(Base, NumLimbs) \in Nat
        BY FieldNumbers, PowersOfBase
      <4>3. n \in Nat /\ n \in Int /\ n < Pow(Base, NumLimbs)
        BY <4>2
      <4>4. Cong(n, n)
        BY <4>3, CongReflexive
      <4>5. Sound(Allocate(n), n) /\ Allocate(n).overflow = 0
        BY <4>3, <4>4, AllocateIsSound
      <4> QED BY <4>1, <4>5 DEF Sound
    <3> QED BY <3>1, <3>2
  <2>2. CASE IsConstant(x)
    <3>1. ASSUME NEW i \in DOMAIN x.limbs PROVE x.limbs[i] < Base
      <4>1. x.limbs[i] <= (Base - 1) * Pow(2, 0) /\ x.limbs[i] \in Nat
        BY <2>1, <2>2 DEF Sized, Counted
      <4>2. Pow(2, 0) = 1 /\ Base \in Nat
        BY PowersOfTwo, FieldNumbers
      <4> QED BY <4>1, <4>2
    <3>2. check_field_membership(x) <=> Integer(x) < Modulus
      BY <2>2 DEF check_field_membership
    <3> QED BY <3>1, <3>2
  <2>3. CASE ~IsConstant(x)
    <3>1. check_field_membership(x) <=>
            (/\ \A i \in 1..NumLimbs : x.limbs[i] < Pow(2, Width(i))
             /\ x.limbs[1] + (IF \A i \in 2..NumLimbs :
                                     x.limbs[i] = Pow(2, Width(i)) - 1
                              THEN C ELSE 0) < Base)
      BY <2>3 DEF check_field_membership
    <3>2. x.limbs \in Seq(Nat) /\ C < Base
      BY <2>1 DEF Sized
    <3> QED BY <3>1, <3>2, LimbsTellMembership
  <2> QED BY <2>2, <2>3
<1> HIDE DEF Small
<1>4. Spec => []Small
  BY <1>1, <1>2, PTL DEF Spec
<1> QED BY <1>3, <1>4, InvHolds, PTL

-------------------------------------------------------------------------------
\* Comparing limbs with a carry.

(* The number that is grouped with others at i, and the next carry, which  *)
(* is what the comparison from the lowest group on computes.               *)
GroupAt(x, i) == IF i \in DOMAIN x THEN x[i] ELSE 0

Carry(a, b, low, high, i, c) ==
    IF c = -1 THEN -1
    ELSE right_shift((c + Pow(2, low) * Pow(2, high) + GroupAt(a, i)
                        - GroupAt(b, i) - (IF i > 1 THEN Pow(2, high) ELSE 0))
                         % Native, low, low + high + 1)

Carries(carry, a, b, low, high, count) ==
    /\ carry[0] = 0
    /\ \A i \in 1..count : carry[i] = Carry(a, b, low, high, i, carry[i - 1])
    /\ assert_limbs_equality_slow(a, b, low, high) =
           IF low + high + 1 > Capacity THEN "panic"
           ELSE IF carry[count] = Pow(2, high) THEN "holds" ELSE "unsat"

(* The carries of a comparison exist.                                      *)
LEMMA CarriesExist ==
    ASSUME NEW a \in Seq(Nat), NEW b \in Seq(Nat), NEW low \in Nat,
           NEW high \in Nat, NEW count \in Nat, count = Max({Len(a), Len(b)})
    PROVE  \E carry : Carries(carry, a, b, low, high, count)
<1> DEFINE Body(f) == [i \in 0..count |->
                          IF i = 0 THEN 0
                          ELSE Carry(a, b, low, high, i, f[i - 1])]
           carry == CHOOSE f : f = Body(f)
           go == [i \in Nat \ {0} |-> [c \in Int |-> Carry(a, b, low, high, i, c)]]
<1>1. ASSUME NEW i \in Nat \ {0}, NEW c \in Int
      PROVE  Carry(a, b, low, high, i, c) \in Int
  <2> DEFINE v == c + Pow(2, low) * Pow(2, high) + GroupAt(a, i)
                    - GroupAt(b, i) - (IF i > 1 THEN Pow(2, high) ELSE 0)
  <2>1. GroupAt(a, i) \in Nat /\ GroupAt(b, i) \in Nat
    BY DEF GroupAt
  <2>2. Pow(2, low) \in Nat \ {0} /\ Pow(2, high) \in Nat \ {0}
    BY PowersOfTwo
  <2>3. Pow(2, low) * Pow(2, high) \in Nat
    <3>1. \A p, q \in Nat : p * q \in Nat
      OBVIOUS
    <3> QED BY <2>2, <3>1
  <2>4. v \in Int
    <3> DEFINE e == Pow(2, low) * Pow(2, high)
               h == IF i > 1 THEN Pow(2, high) ELSE 0
               p == GroupAt(a, i)
               q == GroupAt(b, i)
    <3>1. e \in Int /\ h \in Int /\ p \in Int /\ q \in Int /\ c \in Int
      BY <2>1, <2>2, <2>3
    <3> HIDE DEF e, h, p, q
    <3>2. c + e + p - q - h \in Int
      BY ONLY <3>1
    <3> QED BY <3>2 DEF e, h, p, q
  <2>5. Carry(a, b, low, high, i, c)
          = IF c = -1 THEN -1
            ELSE right_shift(v % Native, low, low + high + 1)
    BY DEF Carry
  <2> HIDE DEF v
  <2>6. v % Native \in Int
    BY <2>4, FieldNumbers, Remainder
  <2>7. (v % Native) \div Pow(2, low) \in Int
    <3> DEFINE w == v % Native
               p == Pow(2, low)
    <3>1. w \in Int /\ p \in Nat \ {0}
      BY <2>2, <2>6
    <3> HIDE DEF w, p
    <3>2. w \div p \in Int
      BY <3>1, Remainder
    <3> QED BY <3>2 DEF w, p
  <2>8. right_shift(v % Native, low, low + high + 1) \in Int
    BY <2>7 DEF right_shift
  <2> QED BY <2>5, <2>8
<1>2. go \in Steps(Int)
  BY <1>1 DEF Steps
<1>3. \A i \in Nat \ {0}, c \in Int : go[i][c] = Carry(a, b, low, high, i, c)
  BY Zenon
<1> HIDE DEF go
<1>4. PICK F : Iterates(F, Int, 0, go)
  <2>1. 0 \in Int
    OBVIOUS
  <2> QED BY <1>2, <2>1, IterationExists
<1>5. /\ F \in [Nat -> Int] /\ F[0] = 0
      /\ \A i \in Nat \ {0} : F[i] = go[i][F[i - 1]]
  BY <1>4 DEF Iterates
<1>6. ASSUME NEW i \in Nat \ {0}
      PROVE  F[i] = Carry(a, b, low, high, i, F[i - 1])
  <2>1. F[i - 1] \in Int
    BY <1>5
  <2>2. F[i] = go[i][F[i - 1]]
    BY <1>5
  <2> QED BY <1>3, <2>1, <2>2
<1> DEFINE g == [i \in 0..count |-> F[i]]
<1>7. g = Body(g)
  <2>1. ASSUME NEW i \in 0..count PROVE g[i] = Body(g)[i]
    <3>1. CASE i = 0
      BY <1>5, <3>1
    <3>2. CASE i # 0
      <4>1. i \in Nat \ {0} /\ i - 1 \in 0..count
        BY <3>2
      <4>2. F[i] = Carry(a, b, low, high, i, F[i - 1])
        BY <1>6, <4>1
      <4> QED BY <3>2, <4>1, <4>2
    <3> QED BY <3>1, <3>2
  <2>2. Body(g) = [i \in 0..count |-> Body(g)[i]]
        /\ g = [i \in 0..count |-> g[i]]
    OBVIOUS
  <2> HIDE DEF g, Body
  <2> QED BY <2>1, <2>2
<1>8. carry = Body(carry)
  <2> HIDE DEF Body, g
  <2> QED BY <1>7
<1>9. assert_limbs_equality_slow(a, b, low, high) =
          IF low + high + 1 > Capacity THEN "panic"
          ELSE IF carry[count] = Pow(2, high) THEN "holds" ELSE "unsat"
  BY DEF assert_limbs_equality_slow, Carry, GroupAt
<1> HIDE DEF carry, g
<1>10. \A i \in 0..count : carry[i] = Body(carry)[i]
  BY <1>8
<1>11. carry[0] = 0
  <2>1. 0 \in 0..count
    OBVIOUS
  <2> QED BY <1>10, <2>1
<1>12. ASSUME NEW i \in 1..count
       PROVE  carry[i] = Carry(a, b, low, high, i, carry[i - 1])
  <2>1. i \in 0..count /\ i # 0
    OBVIOUS
  <2>2. Body(carry)[i] = Carry(a, b, low, high, i, carry[i - 1])
    BY <2>1, Zenon
  <2> QED BY <1>10, <2>1, <2>2
<1> QED BY <1>9, <1>11, <1>12 DEF Carries

(* A carry of which offset is taken, and the sum that it goes into.        *)
Summed(sum, old, gap, w, lift, span) ==
    /\ w \in Nat \ {0} /\ lift \in Nat \ {0} /\ span \in Nat /\ span = w * lift
    /\ old \in Int /\ -lift < old /\ old < lift
    /\ gap \in Int /\ gap <= span - lift /\ -gap <= span - lift
    /\ sum = old + span + gap

(* What is left of a carry is the sum divided by the weight of a group,    *)
(* and is as small as the carry was.                                       *)
LEMMA CarryStep ==
    ASSUME NEW sum, NEW old, NEW gap, NEW w, NEW lift, NEW span,
           Summed(sum, old, gap, w, lift, span)
    PROVE  /\ sum \in Nat /\ sum < 2 * span
           /\ sum % w = 0 =>
                  LET new == sum \div w - lift
                  IN  /\ new \in Int /\ sum \div w = new + lift
                      /\ old + gap = new * w /\ -lift < new /\ new < lift
           /\ sum % w # 0 => \A k \in Int : old + gap # k * w
<1> DEFINE new == sum \div w - lift
<1>0. /\ w \in Nat \ {0} /\ lift \in Nat \ {0} /\ span \in Nat
      /\ old \in Int /\ -lift < old /\ old < lift
      /\ gap \in Int /\ gap <= span - lift /\ -gap <= span - lift
      /\ sum = old + span + gap
  BY DEF Summed
<1>1. span = w * lift
  BY DEF Summed
<1>2. /\ sum \in Nat /\ sum < 2 * span /\ sum = (old + gap) + span
      /\ old + gap < span /\ -(old + gap) < span
  BY ONLY <1>0
<1> USE <1>0
<1>3. ASSUME sum % w = 0
      PROVE  /\ new \in Int /\ sum \div w = new + lift
             /\ old + gap = new * w /\ -lift < new /\ new < lift
  <2> DEFINE q == sum \div w
  <2>1. q \in Int /\ sum = w * q + (sum % w)
    BY <1>2, Remainder
  <2>2. sum = w * q
    <3> HIDE DEF q
    <3>1. w * q \in Int
      BY <2>1
    <3> QED BY <1>3, <2>1, <3>1
  <2>3. new \in Int /\ q = new + lift
    <3> HIDE DEF q
    <3> QED BY <2>1
  <2> HIDE DEF q, new
  <2>4. old + gap = new * w
    <3>1. \A e, f, g \in Int : e * (f + g) = f * e + e * g
      OBVIOUS
    <3>2. sum = new * w + span
      BY <2>2, <2>3, <3>1, <1>1
    <3>3. new * w \in Int
      BY <2>3
    <3> QED BY <1>2, <3>2, <3>3
  <2>5. new < lift
    <3>1. \A e, f \in Int : f >= e => f * w >= w * e
      OBVIOUS
    <3>2. new * w \in Int
      BY <2>3
    <3>3. new >= lift => new * w >= span
      BY <2>3, <3>1, <1>1
    <3> QED BY <1>2, <2>3, <2>4, <3>2, <3>3
  <2>6. -lift < new
    <3>1. \A e, f \in Int : f <= -e => -(f * w) >= w * e
      OBVIOUS
    <3>2. new * w \in Int
      BY <2>3
    <3>3. new <= -lift => -(new * w) >= span
      BY <2>3, <3>1, <1>1
    <3> QED BY <1>2, <2>3, <2>4, <3>2, <3>3
  <2>7. sum \div w = new + lift
    BY <2>3 DEF q
  <2> QED BY <2>3, <2>4, <2>5, <2>6, <2>7
<1>4. ASSUME NEW k \in Int, old + gap = k * w PROVE sum % w = 0
  <2>1. \A e, f, g \in Int : e * (f + g) = f * e + e * g
    OBVIOUS
  <2>2. sum = k * w + span
    BY <1>2, <1>4
  <2>3. w * (k + lift) = k * w + span
    BY <2>1, <1>1
  <2>4. sum = w * (k + lift) + 0
    <3>1. k * w \in Int
      OBVIOUS
    <3> QED BY <2>2, <2>3, <3>1
  <2>5. k + lift \in Int /\ sum \in Int /\ 0 \in 0..(w - 1)
    BY <1>2
  <2> DEFINE q == k + lift
  <2>6. w \in Nat \ {0}
    OBVIOUS
  <2> HIDE <1>0 DEF q
  <2>7. q \in Int /\ sum = w * q + 0
    BY <2>4, <2>5 DEF q
  <2> QED BY ONLY <2>5, <2>6, <2>7, RemainderIsUnique
<1> QED BY <1>2, <1>3, <1>4

(* Groups of low bits, counted in high bits, and the terms that their      *)
(* differences are of the difference of the numbers they make up.          *)
Comparable(a, b, low, high, count, d) ==
    /\ a \in Seq(Nat) /\ b \in Seq(Nat) /\ low \in Nat \ {0} /\ high \in Nat
    /\ low + high + 1 <= Capacity
    /\ count \in Nat /\ count = Max({Len(a), Len(b)}) /\ count >= 1
    /\ \A i \in DOMAIN a : a[i] <= (Pow(2, low) - 1) * Pow(2, high)
    /\ \A i \in DOMAIN b : b[i] <= (Pow(2, low) - 1) * Pow(2, high)
    /\ \A i \in 1..count : d[i] = (GroupAt(a, i) - GroupAt(b, i))
                                      * Pow(Pow(2, low), i - 1)

(* So a comparison of groups holds if and only if the numbers they make up *)
(* are equal, and it does not fail otherwise than by its constraints.      *)
LEMMA GroupsDecide ==
    ASSUME NEW a, NEW b, NEW low, NEW high, NEW count, NEW d,
           Comparable(a, b, low, high, count, d)
    PROVE  assert_limbs_equality_slow(a, b, low, high)
               = IF SumTo(d, count) = 0 THEN "holds" ELSE "unsat"
<1> USE DEF Comparable
<1> DEFINE W == Pow(2, low)
           off == Pow(2, high)
           m == W * off
           x(i) == GroupAt(a, i) - GroupAt(b, i)
<1>0. W \in Nat \ {0} /\ off \in Nat \ {0}
  BY PowersOfTwo
<1>1. /\ W \in Nat \ {0} /\ off \in Nat \ {0} /\ m \in Nat
      /\ (W - 1) * off = m - off /\ m - off \in Nat
  <2> HIDE DEF W, off
  <2>1. \A e \in Nat \ {0}, f \in Nat :
            e * f \in Nat /\ (e - 1) * f = e * f - f /\ e * f - f \in Nat
    OBVIOUS
  <2> QED BY <1>0, <2>1
<1>2. \A i \in Nat : Pow(W, i) \in Nat \ {0} /\ Pow(W, i + 1) = W * Pow(W, i)
  <2>1. W \in Int
    BY <1>1
  <2> HIDE DEF W
  <2> QED BY <1>1, <2>1, Power, PowerPositive
<1>3. \A i \in 1..count : x(i) \in Int /\ x(i) <= m - off /\ -x(i) <= m - off
  <2> SUFFICES ASSUME NEW i \in 1..count
               PROVE  x(i) \in Int /\ x(i) <= m - off /\ -x(i) <= m - off
    OBVIOUS
  <2> DEFINE top == m - off
  <2>1. top \in Nat
    BY <1>1
  <2>2. \A j \in DOMAIN a : a[j] <= top
    BY <1>1
  <2>3. \A j \in DOMAIN b : b[j] <= top
    BY <1>1
  <2> HIDE DEF top
  <2>4. GroupAt(a, i) \in Nat /\ GroupAt(a, i) <= top
    BY <2>1, <2>2 DEF GroupAt
  <2>5. GroupAt(b, i) \in Nat /\ GroupAt(b, i) <= top
    BY <2>1, <2>3 DEF GroupAt
  <2>6. x(i) \in Int /\ x(i) <= top /\ -x(i) <= top
    BY <2>1, <2>4, <2>5
  <2> HIDE DEF x
  <2> QED BY <2>6 DEF top
<1>4. Pow(2, low + high + 1) = 2 * m /\ 2 * m < Native
  <2>1. low + high \in Nat /\ Pow(2, low + high) = m
    BY PowerSum
  <2>2. Pow(2, (low + high) + 1) = 2 * Pow(2, low + high)
    BY <2>1, PowersOfTwo
  <2>3. low + high + 1 \in Nat /\ Capacity \in Nat
    BY FieldNumbers
  <2>4. Pow(2, low + high + 1) <= Pow(2, Capacity)
    BY <2>3, PowerGrows
  <2>5. Pow(2, Capacity) \in Nat /\ Pow(2, Capacity + 1) = 2 * Pow(2, Capacity)
    BY <2>3, PowersOfTwo
  <2>6. Native \in (Pow(2, Capacity) + 1)..(Pow(2, Capacity + 1) - 1)
    BY FieldAssumption
  <2>7. Pow(2, Capacity) < Native /\ Native \in Int
    BY <2>5, <2>6
  <2> HIDE DEF m
  <2>8. (low + high) + 1 = low + high + 1
    OBVIOUS
  <2>9. Pow(2, low + high + 1) = 2 * m
    BY <2>1, <2>2, <2>8
  <2> QED BY <1>1, <2>4, <2>5, <2>7, <2>9
<1>5. PICK carry : Carries(carry, a, b, low, high, count)
  <2>1. /\ a \in Seq(Nat) /\ b \in Seq(Nat) /\ low \in Nat /\ high \in Nat
        /\ count \in Nat /\ count = Max({Len(a), Len(b)})
    OBVIOUS
  <2> QED BY ONLY <2>1, CarriesExist
<1>5a. carry[0] = 0
  BY <1>5 DEF Carries
<1>5b. \A i \in 1..count : carry[i] = Carry(a, b, low, high, i, carry[i - 1])
  BY <1>5 DEF Carries
<1>6. /\ SumTo(d, 0) = 0 /\ \A i \in 0..count : SumTo(d, i) \in Int
      /\ \A i \in 0..(count - 1) :
            SumTo(d, i + 1) = SumTo(d, i) + x(i + 1) * Pow(W, i)
  <2>1. \A i \in 1..count : d[i] = x(i) * Pow(W, i - 1)
    OBVIOUS
  <2> HIDE DEF x, W
  <2>2. \A i \in 1..count : d[i] \in Int
    <3>1. \A i \in 1..count : i - 1 \in Nat
      OBVIOUS
    <3>2. \A e \in Int, f \in Nat : e * f \in Int
      OBVIOUS
    <3>3. \A i \in 1..count : x(i) \in Int /\ Pow(W, i - 1) \in Nat
      BY <1>2, <1>3, <3>1
    <3> QED BY <2>1, <3>2, <3>3
  <2>3. \A i \in 0..(count - 1) : d[i + 1] = x(i + 1) * Pow(W, i)
    <3>1. \A i \in 0..(count - 1) : i + 1 \in 1..count /\ (i + 1) - 1 = i
      OBVIOUS
    <3> QED BY <2>1, <3>1
  <2>4. /\ SumTo(d, 0) = 0 /\ \A i \in 0..count : SumTo(d, i) \in Int
        /\ \A i \in 0..(count - 1) : SumTo(d, i + 1) = SumTo(d, i) + d[i + 1]
    BY ONLY count \in Nat, <2>2, Sum
  <2> QED BY <2>3, <2>4
<1> DEFINE Lost(i) == carry[i] = -1
                      /\ ~\E k \in Int : SumTo(d, i) = k * Pow(W, i)
           Left(i, t) == /\ carry[i] = t + (IF i = 0 THEN 0 ELSE off)
                         /\ -off < t /\ t < off /\ SumTo(d, i) = t * Pow(W, i)
           S == {i \in 0..count : Lost(i) \/ \E t \in Int : Left(i, t)}
<1> HIDE DEF W, off, x, m
<1>7. 0 \in S
  <2>1. Left(0, 0)
    <3>1. Pow(W, 0) \in Nat
      BY <1>2
    <3>2. 0 = 0 * Pow(W, 0)
      BY <3>1
    <3> QED BY <1>1, <1>5a, <1>6, <3>2
  <2> QED BY <2>1
<1>8. ASSUME NEW i \in 0..(count - 1), i \in S PROVE i + 1 \in S
  <2> DEFINE p == Pow(W, i)
             y == x(i + 1)
             D == SumTo(d, i)
  <2>1. /\ i \in Nat /\ i + 1 \in 1..count /\ i + 1 \in 0..count
        /\ (i + 1) - 1 = i /\ i \in 0..count /\ i + 1 # 0
        /\ (i + 1 > 1 <=> i # 0)
    OBVIOUS
  <2>2. /\ p \in Nat \ {0} /\ Pow(W, i + 1) = W * p /\ y \in Int /\ D \in Int
        /\ SumTo(d, i + 1) = D + y * p
        /\ y <= m - off /\ -y <= m - off
    BY <1>2, <1>3, <1>6, <2>1
  <2>3. carry[i + 1] = Carry(a, b, low, high, i + 1, carry[i])
    BY <1>5b, <2>1
  <2> HIDE DEF p, y, D
  <2>4. CASE Lost(i)
    <3>1. carry[i + 1] = -1
      BY <2>3, <2>4 DEF Carry
    <3>2. ASSUME NEW k \in Int, SumTo(d, i + 1) = k * Pow(W, i + 1)
          PROVE  FALSE
      <4>1. \A e, f, g, h \in Int : e + f * g = h * (W * g)
                                        => e = (h * W - f) * g
        BY <1>1
      <4>2. D + y * p = k * (W * p)
        BY <2>2, <3>2
      <4>3. D = (k * W - y) * p
        BY <2>2, <4>1, <4>2
      <4>4. k * W - y \in Int
        BY <1>1, <2>2
      <4>5. ~\E j \in Int : D = j * p
        BY <2>4 DEF D, p
      <4> QED BY <4>3, <4>4, <4>5
    <3> QED BY <2>1, <3>1, <3>2
  <2>5. ASSUME NEW t \in Int, Left(i, t) PROVE i + 1 \in S
    <3> DEFINE v == t + m + y
    <3>0. /\ -off < t /\ t < off /\ D = t * p
          /\ carry[i] = t + (IF i = 0 THEN 0 ELSE off)
      BY <2>5 DEF D, p
    <3> DEFINE s == v \div W - off
    <3>1. /\ v \in Nat /\ v < 2 * m
          /\ v % W = 0 => /\ s \in Int /\ v \div W = s + off
                          /\ t + y = s * W /\ -off < s /\ s < off
          /\ v % W # 0 => \A k \in Int : t + y # k * W
      <4>1. m = W * off /\ y \in Int /\ t \in Int
        BY <2>2 DEF m
      <4>2. /\ W \in Nat \ {0} /\ off \in Nat \ {0} /\ m \in Nat
            /\ -off < t /\ t < off /\ y <= m - off /\ -y <= m - off
        BY <1>1, <2>2, <3>0
      <4>3. v = t + m + y
        OBVIOUS
      <4> HIDE DEF v
      <4>4. Summed(v, t, y, W, off, m)
        BY ONLY <4>1, <4>2, <4>3 DEF Summed
      <4> QED BY ONLY <4>4, CarryStep
    <3> HIDE DEF s
    <3>2. carry[i + 1] = IF v % W = 0 THEN v \div W ELSE -1
      <4>1. carry[i] # -1
        <5> HIDE DEF Left, v
        <5> QED BY ONLY <1>1, <1>5a, <3>0, i \in 0..(count - 1), t \in Int
      <4>2. carry[i] + m + GroupAt(a, i + 1) - GroupAt(b, i + 1)
               - (IF i + 1 > 1 THEN off ELSE 0) = v
        <5> DEFINE u == GroupAt(a, i + 1)
                   w == GroupAt(b, i + 1)
        <5>1. y = u - w /\ u \in Int /\ w \in Int
          BY DEF y, x, GroupAt
        <5>2. carry[i] = t + (IF i = 0 THEN 0 ELSE off)
          BY <3>0
        <5>3. (i + 1 > 1 <=> i # 0) /\ t \in Int
          BY <2>1
        <5> HIDE DEF u, w, Left
        <5>4. carry[i] + m + u - w - (IF i + 1 > 1 THEN off ELSE 0) = v
          BY ONLY <1>1, <5>1, <5>2, <5>3 DEF v
        <5> QED BY <5>4 DEF u, w
      <4>3. v % Native = v
        <5> HIDE DEF v
        <5>1. Native \in Nat \ {0}
          BY FieldNumbers
        <5>2. v \in Nat /\ v < Native
          BY ONLY <1>1, <1>4, <3>1, <5>1
        <5>3. v \in 0..(Native - 1) /\ v = Native * 0 + v
          BY ONLY <5>1, <5>2
        <5>4. v \in Int /\ 0 \in Int
          BY ONLY <5>2
        <5> QED BY ONLY <5>1, <5>3, <5>4, RemainderIsUnique
      <4> HIDE DEF v
      <4>4. carry[i + 1] = right_shift(v, low, low + high + 1)
        BY <2>3, <4>1, <4>2, <4>3 DEF Carry, W, off, m
      <4>5. right_shift(v, low, low + high + 1)
               = IF v % W = 0 /\ v < 2 * m THEN v \div W ELSE -1
        <5>1. right_shift(v, low, low + high + 1)
                = IF v % W = 0 /\ v < Pow(2, low + high + 1)
                  THEN v \div W ELSE -1
          BY DEF right_shift, W
        <5> QED BY <1>4, <5>1
      <4> QED BY <3>1, <4>4, <4>5
    <3> HIDE DEF v
    <3>3. SumTo(d, i + 1) = (t + y) * p
      <4>1. \A e, f, g \in Int : e * g + f * g = (e + f) * g
        OBVIOUS
      <4> QED BY <2>2, <3>0, <4>1
    <3>4. CASE v % W = 0
      <4>1. /\ s \in Int /\ v \div W = s + off /\ t + y = s * W
            /\ -off < s /\ s < off
        BY <3>1, <3>4
      <4>2. SumTo(d, i + 1) = s * Pow(W, i + 1)
        <5>1. \A e, g \in Int : (e * W) * g = e * (W * g)
          BY <1>1
        <5> QED BY <2>2, <3>3, <4>1, <5>1
      <4>3. Left(i + 1, s)
        BY <2>1, <3>2, <3>4, <4>1, <4>2
      <4> QED BY <2>1, <4>1, <4>3
    <3>5. CASE v % W # 0
      <4>1. carry[i + 1] = -1
        BY <3>2, <3>5
      <4>2. ASSUME NEW k \in Int, SumTo(d, i + 1) = k * Pow(W, i + 1)
            PROVE  FALSE
        <5>1. (t + y) * p = (k * W) * p
          <6>1. \A e, g \in Int : (e * W) * g = e * (W * g)
            BY <1>1
          <6> QED BY <2>2, <3>3, <4>2, <6>1
        <5>2. \A e, f \in Int, g \in Nat \ {0} : e * g = f * g => e = f
          OBVIOUS
        <5>3. t + y \in Int /\ k * W \in Int
          BY <1>1, <2>2
        <5>4. t + y = k * W
          BY <2>2, <5>1, <5>2, <5>3
        <5> QED BY <3>1, <3>5, <5>4
      <4> QED BY <2>1, <4>1, <4>2
    <3> QED BY <3>4, <3>5
  <2> QED BY <1>8, <2>4, <2>5
<1> HIDE DEF S
<1>9. count \in S
  <2>1. \A i \in 0..count : i \in S
    BY ONLY count \in Nat, <1>7, <1>8, InductionTo
  <2>2. count \in Nat
    OBVIOUS
  <2> QED BY ONLY <2>1, <2>2
<1>10. carry[count] = off <=> SumTo(d, count) = 0
  <2> DEFINE p == Pow(W, count)
             D == SumTo(d, count)
  <2>1. p \in Nat \ {0} /\ count # 0
    BY <1>2
  <2>2. CASE Lost(count)
    <3>1. 0 = 0 * p
      BY <2>1
    <3>2. 0 \in Int
      OBVIOUS
    <3>3. D # 0
      BY <2>2, <3>1, <3>2
    <3> QED BY <1>1, <2>2, <3>3
  <2>3. ASSUME NEW t \in Int, Left(count, t)
        PROVE  carry[count] = off <=> SumTo(d, count) = 0
    <3> HIDE DEF p
    <3>1. \A e \in Int, g \in Nat \ {0} : (e * g = 0) <=> (e = 0)
      OBVIOUS
    <3>2. D = t * p /\ carry[count] = t + off
      BY <2>1, <2>3 DEF p
    <3>3. (D = 0) <=> (t = 0)
      BY <2>1, <3>1, <3>2
    <3>4. (carry[count] = off) <=> (t = 0)
      BY <1>1, <3>2
    <3> QED BY <3>3, <3>4
  <2> QED BY <1>9, <2>2, <2>3 DEF S
<1>11. ~(low + high + 1 > Capacity)
  BY FieldNumbers
<1> QED BY <1>5, <1>10, <1>11 DEF off, Carries

-------------------------------------------------------------------------------
\* Comparing them in groups.

(* Numbers that are not above a multiple of the largest limb make up one   *)
(* that is not above that multiple of the largest number.                  *)
LEMMA WeighedIsBounded ==
    ASSUME NEW n \in Nat, NEW p \in Nat, NEW f,
           \A i \in 1..n : f[i] \in Nat /\ f[i] <= (Base - 1) * p
    PROVE  Weighed(f, n) \in Nat /\ Weighed(f, n) <= (Pow(Base, n) - 1) * p
<1> DEFINE S == {m \in 0..n : /\ Weighed(f, m) \in Nat
                              /\ Weighed(f, m) <= (Pow(Base, m) - 1) * p}
<1>1. \A i \in 1..n : f[i] \in Int
  OBVIOUS
<1>2. /\ Weighed(f, 0) = 0
      /\ \A m \in 0..(n - 1) :
            Weighed(f, m + 1) = Weighed(f, m) + f[m + 1] * Pow(Base, m)
  BY <1>1, WeighedSteps
<1>3. 0 \in S
  <2>1. (Pow(Base, 0) - 1) * p = 0
    BY PowersOfBase
  <2> QED BY <1>2, <2>1
<1>4. ASSUME NEW m \in 0..(n - 1), m \in S PROVE m + 1 \in S
  <2> DEFINE w == Weighed(f, m)
             q == Pow(Base, m)
             l == f[m + 1]
  <2>1. m + 1 \in 0..n /\ m + 1 \in 1..n /\ m \in Nat
    OBVIOUS
  <2>2. /\ q \in Nat \ {0} /\ Pow(Base, m + 1) = Base * q
        /\ Base \in Nat \ {0, 1}
    BY <2>1, PowersOfBase, FieldNumbers
  <2>3. w \in Nat /\ w <= (q - 1) * p
    BY <1>4
  <2>4. l \in Nat /\ l <= (Base - 1) * p
    BY <2>1
  <2>5. Weighed(f, m + 1) = w + l * q
    BY <1>2
  <2> HIDE DEF w, q, l
  <2>6. \A c, d, e \in Nat : e <= d => e * c <= d * c
    OBVIOUS
  <2>7. (Base - 1) * p \in Nat
    <3>1. Base - 1 \in Nat /\ \A c, d \in Nat : c * d \in Nat
      BY <2>2
    <3> QED BY <3>1
  <2>8. l * q <= ((Base - 1) * p) * q
    BY <2>2, <2>4, <2>6, <2>7
  <2>9. \A b, c, d \in Int : ((b - 1) * d) * c + (c - 1) * d = (b * c - 1) * d
    OBVIOUS
  <2>10. ((Base - 1) * p) * q + (q - 1) * p = (Base * q - 1) * p
    BY <2>2, <2>9
  <2>11. l * q \in Nat /\ ((Base - 1) * p) * q \in Int /\ (q - 1) * p \in Int
    <3>1. /\ \A c, d \in Nat : c * d \in Nat
          /\ \A c, d \in Int : c * d \in Int
      OBVIOUS
    <3>2. q - 1 \in Int /\ (Base - 1) * p \in Int
      BY <2>2, <2>7
    <3> QED BY <2>2, <2>4, <3>1, <3>2
  <2>12. w + l * q \in Nat /\ w + l * q <= (Base * q - 1) * p
    BY <2>3, <2>8, <2>10, <2>11
  <2> QED BY <2>1, <2>2, <2>5, <2>12
<1> HIDE DEF S
<1>5. n \in S
  <2>1. \A m \in 0..n : m \in S
    BY ONLY n \in Nat, <1>3, <1>4, InductionTo
  <2> QED BY <2>1
<1> QED BY <1>5 DEF S

(* The limbs of a group.                                                   *)
Grouped(x, g, i) == [j \in 1..g |-> Limb(x, g * (i - 1) + j)]

(* Groups are numbers, and none is above the multiple of the largest that  *)
(* the overflow allows; beyond the last one they are zero.                 *)
LEMMA GroupsAreCounted ==
    ASSUME NEW x, Sized(x), NEW g \in Nat \ {0}, NEW o \in Nat, x.overflow <= o
    PROVE  LET cx == compact_limbs(x, g)
           IN  /\ cx \in Seq(Nat)
               /\ Len(x.limbs) <= g * Len(cx)
               /\ \A i \in Nat \ {0} : GroupAt(cx, i) = Weighed(Grouped(x, g, i), g)
               /\ \A i \in DOMAIN cx : cx[i] <= (Pow(Base, g) - 1) * Pow(2, o)
<1> DEFINE cx == compact_limbs(x, g)
           len == Len(x.limbs)
           count == (len + g - 1) \div g
           G(i) == Grouped(x, g, i)
<1>1. x.limbs \in Seq(Nat) /\ len \in Nat /\ x.overflow \in Nat
  BY DEF Sized
<1>2. count \in Nat /\ len + g - 1 < g * count + g /\ len <= g * count
  <2> DEFINE n == len + g - 1
             q == n \div g
             r == n % g
  <2>0. g \in Nat \ {0}
    OBVIOUS
  <2>1. n \in Nat /\ n \in Int /\ n = len + g - 1 /\ n >= 0
    BY <1>1
  <2>2. count = q
    OBVIOUS
  <2>3. r \in 0..(g - 1) /\ q \in Int /\ n = g * q + r
    <3> HIDE DEF n
    <3> QED BY ONLY <2>0, <2>1, Remainder
  <2> HIDE DEF n, q, r, count, len
  <2>4. \A e \in Int : g * e \in Int /\ (e < 0 => g * e <= -g)
    BY <2>0
  <2>5. q \in Nat
    BY ONLY <2>0, <2>1, <2>3, <2>4
  <2>6. g * q \in Int
    BY <2>3, <2>4
  <2>7. len + g - 1 < g * q + g /\ len <= g * q
    BY ONLY <1>1, <2>0, <2>1, <2>3, <2>6
  <2> QED BY <2>2, <2>5, <2>7
<1>3. \A i \in Nat : Limb(x, i) \in Nat /\ (i > len => Limb(x, i) = 0)
  BY <1>1 DEF Limb
<1>4. \A i \in Nat : Limb(x, i) <= (Base - 1) * Pow(2, o)
  <2>1. \A i \in DOMAIN x.limbs : x.limbs[i] <= (Base - 1) * Pow(2, x.overflow)
    BY DEF Sized, Counted
  <2>2. Pow(2, x.overflow) <= Pow(2, o)
    BY <1>1, PowerGrows
  <2>3. /\ Pow(2, x.overflow) \in Nat /\ Pow(2, o) \in Nat /\ Base \in Nat \ {0, 1}
    BY <1>1, PowersOfTwo, FieldNumbers
  <2>4. \A b \in Nat \ {0}, c, d \in Nat :
            c <= d => (b - 1) * c <= (b - 1) * d /\ (b - 1) * d \in Nat
                      /\ (b - 1) * c \in Nat
    OBVIOUS
  <2> DEFINE u == (Base - 1) * Pow(2, x.overflow)
             v == (Base - 1) * Pow(2, o)
  <2>5. u <= v /\ v \in Nat /\ u \in Nat
    BY <2>2, <2>3, <2>4
  <2>6. \A i \in DOMAIN x.limbs : x.limbs[i] <= u /\ x.limbs[i] \in Nat
    BY <1>1, <2>1
  <2> HIDE DEF u, v
  <2>7. \A i \in Nat : Limb(x, i) <= v
    BY <2>5, <2>6 DEF Limb
  <2> QED BY <2>7 DEF v
<1>5. \A i \in Nat \ {0}, j \in 1..g :
          /\ g * (i - 1) + j \in Nat
          /\ i > count => g * (i - 1) + j > len
  <2>1. \A i \in Nat \ {0} : g * (i - 1) \in Nat
    OBVIOUS
  <2>2. \A i, k \in Nat : i > k => g * (i - 1) >= g * k
    OBVIOUS
  <2> HIDE DEF len, count
  <2>3. g * count \in Nat
    BY <1>2
  <2> QED BY <1>1, <1>2, <2>1, <2>2, <2>3
<1>6. ASSUME NEW i \in Nat \ {0}
      PROVE  /\ G(i) \in Seq(Nat) /\ Len(G(i)) = g
             /\ recompose(G(i)) = Weighed(G(i), g)
             /\ Weighed(G(i), g) \in Nat
             /\ Weighed(G(i), g) <= (Pow(Base, g) - 1) * Pow(2, o)
             /\ i > count => Weighed(G(i), g) = 0
  <2> DEFINE f == G(i)
  <2>1. \A j \in 1..g : /\ f[j] \in Nat /\ f[j] <= (Base - 1) * Pow(2, o)
                        /\ i > count => f[j] = 0
    BY <1>3, <1>4, <1>5 DEF Grouped
  <2>2. f = [j \in 1..g |-> f[j]]
    BY DEF Grouped
  <2> HIDE DEF f
  <2>3. f \in Seq(Nat) /\ f \in Seq(Int) /\ Len(f) = g
    <3>1. \A j \in 1..g : f[j] \in Nat
      BY <2>1, Zenon
    <3>2. g \in Nat
      OBVIOUS
    <3>3. f \in [1..g -> Nat] /\ f \in [1..g -> Int]
      BY ONLY <2>2, <3>1
    <3> QED BY ONLY <3>2, <3>3
  <2>4. recompose(f) = Weighed(f, g)
    BY <2>3, RecomposeWeighs
  <2>5. g \in Nat /\ Pow(2, o) \in Nat
    BY PowersOfTwo
  <2>6. Weighed(f, g) \in Nat /\ Weighed(f, g) <= (Pow(Base, g) - 1) * Pow(2, o)
    <3> DEFINE p == Pow(2, o)
    <3>1. p \in Nat /\ \A j \in 1..g : f[j] \in Nat /\ f[j] <= (Base - 1) * p
      BY <2>1, <2>5
    <3> HIDE DEF p
    <3>2. Weighed(f, g) \in Nat /\ Weighed(f, g) <= (Pow(Base, g) - 1) * p
      BY ONLY <2>5, <3>1, WeighedIsBounded
    <3> QED BY <3>2 DEF p
  <2>7. i > count => Weighed(f, g) = 0
    <3> HIDE DEF count
    <3> QED BY <2>1, <2>5, WeighedZeros
  <2> QED BY <2>3, <2>4, <2>6, <2>7 DEF f
<1>7. cx = [i \in 1..count |-> recompose(G(i))]
  BY DEF compact_limbs, Grouped
<1> HIDE DEF cx, G, count
<1>8. \A i \in 1..count : cx[i] = Weighed(G(i), g) /\ cx[i] \in Nat
                          /\ cx[i] <= (Pow(Base, g) - 1) * Pow(2, o)
  <2>1. \A i \in 1..count : i \in Nat \ {0}
    OBVIOUS
  <2> QED BY <1>6, <1>7, <2>1
<1>9. cx \in Seq(Nat) /\ Len(cx) = count /\ DOMAIN cx = 1..count
  BY <1>2, <1>7, <1>8
<1>10. \A i \in Nat \ {0} : GroupAt(cx, i) = Weighed(G(i), g)
  <2> SUFFICES ASSUME NEW i \in Nat \ {0}
               PROVE  GroupAt(cx, i) = Weighed(G(i), g)
    OBVIOUS
  <2>1. CASE i \in 1..count
    BY <1>8, <1>9, <2>1 DEF GroupAt
  <2>2. CASE i \notin 1..count
    <3>1. i > count
      BY <1>2, <2>2
    <3> QED BY <1>6, <1>9, <2>2, <3>1 DEF GroupAt
  <2> QED BY <2>1, <2>2
<1>11. len <= g * Len(cx)
  <2> HIDE DEF len
  <2> QED BY <1>2, <1>9
<1> QED BY <1>8, <1>9, <1>10, <1>11 DEF cx, G

(* The groups make up the number that the limbs do.                        *)
LEMMA GroupsMakeUp ==
    ASSUME NEW x, x.limbs \in Seq(Nat), NEW g \in Nat \ {0}, NEW n \in Nat,
           Len(x.limbs) <= g * n, NEW s,
           \A i \in 1..n : s[i] = Weighed(Grouped(x, g, i), g)
                                      * Pow(Pow(Base, g), i - 1)
    PROVE  /\ SumTo(s, n) = Integer(x)
           /\ \A i \in 1..n : s[i] \in Int
<1> DEFINE L == Limbs(x, g * n)
           G(i) == Grouped(x, g, i)
           W == Pow(Base, g)
           S == {m \in 0..n : SumTo(s, m) = Weighed(L, g * m)}
<1>1. \A i \in Nat : Limb(x, i) \in Nat
  BY DEF Limb
<1>2. g * n \in Nat /\ \A i \in 1..(g * n) : L[i] = Limb(x, i) /\ L[i] \in Int
  <2>1. g * n \in Nat
    OBVIOUS
  <2> QED BY <1>1, <2>1 DEF Limbs
<1>3. W \in Nat \ {0} /\ W \in Int
  <2>1. g \in Nat
    OBVIOUS
  <2> QED BY ONLY <2>1, PowersOfBase
<1>4. \A m \in 0..(n - 1) : /\ g * m \in Nat /\ g * m + g = g * (m + 1)
                            /\ g * m + g <= g * n
  OBVIOUS
<1>5. ASSUME NEW m \in 0..(n - 1)
      PROVE  /\ \A j \in 1..g : G(m + 1)[j] = L[g * m + j]
             /\ Weighed(L, g * (m + 1))
                  = Weighed(L, g * m) + Pow(Base, g * m) * Weighed(G(m + 1), g)
             /\ Weighed(G(m + 1), g) \in Int
  <2> DEFINE k == g * m
             t == g * n
  <2>1. k \in Nat /\ k + g = g * (m + 1) /\ k + g <= t /\ t \in Nat
    BY <1>2, <1>4
  <2>2. g * ((m + 1) - 1) = k
    OBVIOUS
  <2>3. \A i \in 1..t : L[i] = Limb(x, i) /\ L[i] \in Int
    BY <1>2
  <2> HIDE DEF k, t, L
  <2>4. \A j \in 1..g : /\ k + j \in 1..t /\ G(m + 1)[j] = Limb(x, k + j)
    <3>1. \A j \in 1..g : k + j \in 1..t
      <4>1. k \in Nat /\ k + g <= t /\ t \in Nat /\ g \in Nat
        BY <2>1
      <4> QED BY ONLY <4>1
    <3>2. G(m + 1) = [j \in 1..g |-> Limb(x, k + j)]
      BY <2>2 DEF Grouped
    <3> HIDE DEF G
    <3> QED BY ONLY <3>1, <3>2
  <2>5. \A j \in 1..g : G(m + 1)[j] = L[k + j] /\ G(m + 1)[j] \in Int
    BY <2>3, <2>4
  <2>6. \A i \in 1..(k + g) : L[i] \in Int
    BY <2>1, <2>3
  <2> DEFINE H == G(m + 1)
  <2>7. g \in Nat /\ \A j \in 1..g : H[j] = L[k + j] /\ H[j] \in Int
    BY <2>5
  <2> HIDE DEF H
  <2>8. Weighed(L, k + g) = Weighed(L, k) + Pow(Base, k) * Weighed(H, g)
    <3>1. k \in Nat
      BY <2>1
    <3>2. \A j \in 1..g : H[j] = L[k + j]
      BY <2>7
    <3>3. g \in Nat
      OBVIOUS
    <3> QED BY ONLY <2>6, <3>1, <3>2, <3>3, WeighedSplit
  <2>9. Weighed(H, g) \in Int
    <3>1. g \in 0..g
      BY ONLY <2>7
    <3> QED BY ONLY <2>7, <3>1, WeighedSteps
  <2> QED BY <2>1, <2>5, <2>8, <2>9 DEF H, k
<1>6. \A m \in 0..(n - 1) : Pow(W, m) = Pow(Base, g * m) /\ Pow(W, m) \in Nat
  <2>1. Base \in Int /\ g \in Nat
    BY FieldNumbers
  <2>2. \A m \in Nat : Pow(W, m) = Pow(Base, g * m)
    BY ONLY <2>1, PowerOfPower DEF W
  <2>3. \A m \in Nat : g * m \in Nat
    OBVIOUS
  <2> HIDE DEF W
  <2>4. \A m \in Nat : Pow(W, m) \in Nat
    <3>1. \A m \in Nat : Pow(Base, g * m) \in Nat
      BY ONLY <2>3, PowersOfBase
    <3> QED BY ONLY <2>2, <3>1
  <2> QED BY ONLY n \in Nat, <2>2, <2>4
<1> HIDE DEF L, G, W
<1>7. \A m \in 0..(n - 1) : /\ s[m + 1] = Weighed(G(m + 1), g) * Pow(W, m)
                            /\ s[m + 1] \in Int
  <2>1. \A m \in 0..(n - 1) : m + 1 \in 1..n /\ (m + 1) - 1 = m
    OBVIOUS
  <2>2. \A i \in 1..n : s[i] = Weighed(G(i), g) * Pow(W, i - 1)
    BY DEF G, W
  <2>3. \A m \in 0..(n - 1) : s[m + 1] = Weighed(G(m + 1), g) * Pow(W, m)
    BY <2>1, <2>2
  <2>4. \A a \in Int, b \in Nat : a * b \in Int
    OBVIOUS
  <2> QED BY <1>5, <1>6, <2>3, <2>4
<1>8. \A i \in 1..n : s[i] \in Int
  <2>1. \A i \in 1..n : i - 1 \in 0..(n - 1) /\ (i - 1) + 1 = i
    OBVIOUS
  <2> QED BY <1>7, <2>1
<1>9. /\ SumTo(s, 0) = 0
      /\ \A m \in 0..(n - 1) : SumTo(s, m + 1) = SumTo(s, m) + s[m + 1]
  BY ONLY n \in Nat, <1>8, Sum
<1>10. 0 \in S
  <2>1. Weighed(L, 0) = 0
    BY <1>2, WeighedSteps
  <2>2. g * 0 = 0
    OBVIOUS
  <2> QED BY <1>9, <2>1, <2>2
<1>11. ASSUME NEW m \in 0..(n - 1), m \in S PROVE m + 1 \in S
  <2>1. m + 1 \in 0..n
    OBVIOUS
  <2>2. SumTo(s, m) = Weighed(L, g * m)
    BY <1>11
  <2>3. SumTo(s, m + 1) = SumTo(s, m) + Weighed(G(m + 1), g) * Pow(W, m)
    BY <1>7, <1>9
  <2>4. \A a \in Int, b \in Nat : a * b = b * a
    OBVIOUS
  <2>5. Weighed(G(m + 1), g) * Pow(W, m) = Pow(W, m) * Weighed(G(m + 1), g)
    BY <1>5, <1>6, <2>4
  <2>6. SumTo(s, m + 1) = Weighed(L, g * (m + 1))
    BY ONLY <1>5, <1>6, <2>2, <2>3, <2>5, m \in 0..(n - 1)
  <2> QED BY <2>1, <2>6
<1> HIDE DEF S
<1>12. n \in S
  <2>1. \A m \in 0..n : m \in S
    BY ONLY n \in Nat, <1>10, <1>11, InductionTo
  <2> QED BY ONLY n \in Nat, <2>1
<1>13. SumTo(s, n) = Weighed(L, g * n)
  BY <1>12 DEF S
<1>14. Integer(x) = Weighed(L, g * n)
  <2>1. x.limbs \in Seq(Int)
    OBVIOUS
  <2> QED BY <1>2, <2>1, IntegerWeighs DEF L
<1> QED BY <1>8, <1>13, <1>14

(* The weight of a group is a power of two.                                *)
LEMMA GroupsOfBits ==
    ASSUME NEW g \in Nat \ {0}
    PROVE  g * BitsPerLimb \in Nat \ {0} /\ Pow(2, g * BitsPerLimb) = Pow(Base, g)
<1>1. BitsPerLimb \in Nat \ {0}
  BY FieldNumbers
<1>2. /\ \A e, f \in Nat \ {0} : e * f \in Nat \ {0}
      /\ \A e, f \in Nat : e * f = f * e
  OBVIOUS
<1>3. 2 \in Int /\ BitsPerLimb \in Nat /\ g \in Nat
  BY <1>1
<1>4. Pow(Pow(2, BitsPerLimb), g) = Pow(2, BitsPerLimb * g)
  BY ONLY <1>3, PowerOfPower
<1> QED BY <1>1, <1>2, <1>3, <1>4 DEF Base

(* Groups are compared as the numbers that the limbs make up.              *)
LEMMA GroupsEqual ==
    ASSUME NEW large, NEW small, Sized(large), Sized(small),
           Len(large.limbs) >= 1, small.overflow <= large.overflow,
           NEW g \in Nat \ {0}, g * BitsPerLimb + large.overflow + 1 <= Capacity
    PROVE  EqualInGroups(large, small, g)
               = IF Integer(large) = Integer(small) THEN "holds" ELSE "unsat"
<1> DEFINE ca == compact_limbs(large, g)
           cb == compact_limbs(small, g)
           o == large.overflow
           bits == g * BitsPerLimb
           W == Pow(Base, g)
           n == Max({Len(ca), Len(cb)})
           A == [i \in 1..n |-> GroupAt(ca, i) * Pow(W, i - 1)]
           B == [i \in 1..n |-> GroupAt(cb, i) * Pow(W, i - 1)]
           D == [i \in 1..n |-> (GroupAt(ca, i) - GroupAt(cb, i)) * Pow(W, i - 1)]
<1>1. o \in Nat /\ o <= o /\ large.limbs \in Seq(Nat) /\ small.limbs \in Seq(Nat)
  BY DEF Sized
<1>2. bits \in Nat \ {0} /\ Pow(2, bits) = W
  BY GroupsOfBits
<1>3. /\ ca \in Seq(Nat) /\ Len(large.limbs) <= g * Len(ca)
      /\ \A i \in Nat \ {0} : GroupAt(ca, i) = Weighed(Grouped(large, g, i), g)
      /\ \A i \in DOMAIN ca : ca[i] <= (W - 1) * Pow(2, o)
  BY <1>1, GroupsAreCounted
<1>4. /\ cb \in Seq(Nat) /\ Len(small.limbs) <= g * Len(cb)
      /\ \A i \in Nat \ {0} : GroupAt(cb, i) = Weighed(Grouped(small, g, i), g)
      /\ \A i \in DOMAIN cb : cb[i] <= (W - 1) * Pow(2, o)
  BY <1>1, GroupsAreCounted
<1>5. /\ n \in Nat /\ n >= 1
      /\ Len(large.limbs) <= g * n /\ Len(small.limbs) <= g * n
  <2> DEFINE la == Len(ca)
             lb == Len(cb)
  <2>1. la \in Nat /\ lb \in Nat
    BY <1>3, <1>4
  <2>2. n = IF la < lb THEN lb ELSE la
    <3>1. la \in Int /\ lb \in Int
      BY <2>1
    <3> HIDE DEF la, lb
    <3>2. Max({la, lb}) = IF la < lb THEN lb ELSE la
      BY ONLY <3>1, MaxOfTwo
    <3> QED BY <3>2 DEF la, lb
  <2> DEFINE l == Len(large.limbs)
             s == Len(small.limbs)
  <2>3. l \in Nat /\ s \in Nat /\ l >= 1 /\ l <= g * la /\ s <= g * lb
    BY <1>1, <1>3, <1>4
  <2> HIDE DEF n, la, lb, l, s
  <2>4. /\ \A e, f \in Nat : e <= f => g * e <= g * f
        /\ \A e \in Nat : g * e \in Nat /\ (e = 0 => g * e = 0)
    OBVIOUS
  <2>5. n \in Nat /\ la <= n /\ lb <= n
    BY ONLY <2>1, <2>2
  <2>6. g * la <= g * n /\ g * lb <= g * n
    BY ONLY <2>1, <2>4, <2>5
  <2>7. g * la \in Nat /\ g * lb \in Nat /\ g * n \in Nat
    BY ONLY <2>1, <2>4, <2>5
  <2>8. l <= g * n /\ s <= g * n
    BY ONLY <2>3, <2>6, <2>7
  <2>9. n # 0
    BY ONLY <2>3, <2>4, <2>5, <2>8
  <2> QED BY <2>5, <2>8, <2>9 DEF l, s
<1>6. \A i \in 1..n : i \in Nat \ {0} /\ i - 1 \in Nat
  BY <1>5
<1>7. W \in Nat \ {0} /\ \A i \in 1..n : Pow(W, i - 1) \in Nat
  <2>1. g \in Nat
    OBVIOUS
  <2>2. W \in Nat \ {0}
    BY ONLY <2>1, PowersOfBase
  <2> HIDE DEF W, n
  <2> QED BY <1>6, <2>2, PowerPositive
<1>8. SumTo(A, n) = Integer(large) /\ \A i \in 1..n : A[i] \in Int
  <2>1. \A i \in 1..n : A[i] = Weighed(Grouped(large, g, i), g)
                                   * Pow(Pow(Base, g), i - 1)
    BY <1>3, <1>6
  <2> HIDE DEF A, n
  <2> QED BY ONLY <1>1, <1>5, <2>1, g \in Nat \ {0}, GroupsMakeUp
<1>9. SumTo(B, n) = Integer(small) /\ \A i \in 1..n : B[i] \in Int
  <2>1. \A i \in 1..n : B[i] = Weighed(Grouped(small, g, i), g)
                                   * Pow(Pow(Base, g), i - 1)
    BY <1>4, <1>6
  <2> HIDE DEF B, n
  <2> QED BY ONLY <1>1, <1>5, <2>1, g \in Nat \ {0}, GroupsMakeUp
<1>10. \A i \in 1..n : GroupAt(ca, i) \in Int /\ GroupAt(cb, i) \in Int
  BY <1>3, <1>4 DEF GroupAt
<1>11. \A i \in 1..n : /\ D[i] = (GroupAt(ca, i) - GroupAt(cb, i)) * Pow(W, i - 1)
                       /\ D[i] \in Int /\ A[i] = D[i] + B[i]
  <2> SUFFICES ASSUME NEW i \in 1..n
               PROVE  /\ D[i] = (GroupAt(ca, i) - GroupAt(cb, i)) * Pow(W, i - 1)
                      /\ D[i] \in Int /\ A[i] = D[i] + B[i]
    BY Zenon
  <2> DEFINE u == GroupAt(ca, i)
             v == GroupAt(cb, i)
             p == Pow(W, i - 1)
  <2>1. D[i] = (u - v) * p /\ A[i] = u * p /\ B[i] = v * p
    OBVIOUS
  <2>2. u \in Int /\ v \in Int /\ p \in Nat
    BY <1>7, <1>10
  <2>3. \A e, f \in Int, h \in Nat :
            (e - f) * h \in Int /\ e * h = (e - f) * h + f * h
    OBVIOUS
  <2> HIDE DEF u, v, p, A, B, D
  <2>4. D[i] \in Int /\ A[i] = D[i] + B[i]
    BY ONLY <2>1, <2>2, <2>3
  <2> QED BY <2>1, <2>4 DEF u, v, p
<1> HIDE DEF A, B, D
<1>12. SumTo(A, n) = SumTo(D, n) + SumTo(B, n) /\ SumTo(D, n) \in Int
  <2> HIDE DEF n
  <2>1. n \in 0..n
    BY ONLY <1>5
  <2>2. SumTo(D, n) \in Int
    BY ONLY <1>5, <1>11, <2>1, Sum
  <2>3. SumTo(A, n) = SumTo(D, n) + SumTo(B, n)
    BY ONLY <1>5, <1>9, <1>11, SumPlus
  <2> QED BY <2>2, <2>3
<1>13. Integer(large) \in Int /\ Integer(small) \in Int
  BY <1>1, SoundInteger
<1>14. Integer(large) = Integer(small) <=> SumTo(D, n) = 0
  BY ONLY <1>8, <1>9, <1>12, <1>13
<1>15. EqualInGroups(large, small, g) = assert_limbs_equality_slow(ca, cb, bits, o)
  BY DEF EqualInGroups
<1>16. bits + o + 1 <= Capacity
  OBVIOUS
<1> HIDE DEF ca, cb, bits, o
<1>17. assert_limbs_equality_slow(ca, cb, bits, o)
           = IF SumTo(D, n) = 0 THEN "holds" ELSE "unsat"
  <2>1. n = Max({Len(ca), Len(cb)})
    OBVIOUS
  <2> HIDE DEF n
  <2>2. \A i \in DOMAIN ca : ca[i] <= (Pow(2, bits) - 1) * Pow(2, o)
    BY <1>2, <1>3
  <2>3. \A i \in DOMAIN cb : cb[i] <= (Pow(2, bits) - 1) * Pow(2, o)
    BY <1>2, <1>4
  <2>4. \A i \in 1..n : D[i] = (GroupAt(ca, i) - GroupAt(cb, i))
                                   * Pow(Pow(2, bits), i - 1)
    BY <1>2, <1>11
  <2>5. ca \in Seq(Nat) /\ cb \in Seq(Nat)
    BY <1>3, <1>4
  <2>6. /\ bits \in Nat \ {0} /\ o \in Nat /\ bits + o + 1 <= Capacity
        /\ n \in Nat /\ n >= 1
    BY <1>1, <1>2, <1>5, <1>16
  <2>7. Comparable(ca, cb, bits, o, n, D)
    BY ONLY <2>1, <2>2, <2>3, <2>4, <2>5, <2>6 DEF Comparable
  <2> QED BY ONLY <2>7, GroupsDecide
<1> QED BY <1>14, <1>15, <1>17

(* So are elements that leave room for a carry.                            *)
LEMMA LimbsDecide ==
    ASSUME NEW x, NEW y, Sized(x), Sized(y),
           Len(x.limbs) >= 1, Len(y.limbs) >= 1,
           x.overflow < max_overflow, y.overflow < max_overflow
    PROVE  assert_limbs_equality(x, y)
               = IF Integer(x) = Integer(y) THEN "holds" ELSE "unsat"
<1> DEFINE large == IF x.overflow > y.overflow THEN x ELSE y
           small == IF x.overflow > y.overflow THEN y ELSE x
           o == large.overflow
           g == group_size(x, y)
<1>1. x.overflow \in Nat /\ y.overflow \in Nat
  BY DEF Sized
<1>2. /\ Sized(large) /\ Sized(small) /\ Len(large.limbs) >= 1
      /\ small.overflow <= o /\ o \in Nat /\ o < max_overflow
      /\ o = Max({x.overflow, y.overflow})
  <2>1. Max({x.overflow, y.overflow})
          = IF x.overflow < y.overflow THEN y.overflow ELSE x.overflow
    <3> DEFINE p == x.overflow
               q == y.overflow
    <3>1. p \in Int /\ q \in Int
      BY <1>1
    <3> HIDE DEF p, q
    <3>2. Max({p, q}) = IF p < q THEN q ELSE p
      BY ONLY <3>1, MaxOfTwo
    <3> QED BY <3>2 DEF p, q
  <2>2. CASE x.overflow > y.overflow
    BY <1>1, <2>1, <2>2
  <2>3. CASE ~(x.overflow > y.overflow)
    BY <1>1, <2>1, <2>3
  <2> QED BY <2>2, <2>3
<1>3. g \in Nat \ {0} /\ g * BitsPerLimb + o + 1 <= Capacity
  <2> DEFINE room == Capacity - 1 - o
  <2>1. g = room \div BitsPerLimb
    BY <1>2 DEF group_size
  <2>2. /\ BitsPerLimb \in Nat \ {0} /\ Capacity \in Nat
        /\ max_overflow = Capacity - BitsPerLimb
    BY FieldNumbers DEF max_overflow
  <2> HIDE DEF g, o, large, small
  <2>3. room \in Int /\ room >= BitsPerLimb
    BY <1>2, <2>2
  <2>4. o + 1 = Capacity - room
    BY <1>2, <2>2
  <2> HIDE DEF room
  <2>5. /\ room % BitsPerLimb \in 0..(BitsPerLimb - 1) /\ g \in Int
        /\ room = BitsPerLimb * g + (room % BitsPerLimb)
    BY ONLY <2>1, <2>2, <2>3, Remainder
  <2>6. \A e \in Nat \ {0}, f \in Int :
            e * f \in Int /\ e * f = f * e /\ (f <= 0 => e * f <= 0)
    OBVIOUS
  <2>7. BitsPerLimb * g \in Int /\ BitsPerLimb * g = g * BitsPerLimb
        /\ (g <= 0 => BitsPerLimb * g <= 0)
    BY ONLY <2>2, <2>5, <2>6
  <2>8. g * BitsPerLimb <= room /\ g > 0
    BY ONLY <2>2, <2>3, <2>5, <2>7
  <2>9. g * BitsPerLimb + o + 1 <= Capacity
    BY ONLY <1>2, <2>2, <2>3, <2>4, <2>7, <2>8
  <2> QED BY <2>5, <2>8, <2>9
<1>4. assert_limbs_equality(x, y) = EqualInGroups(large, small, g)
  <2>1. g # 0
    BY <1>3
  <2> QED BY <2>1, Zenon DEF assert_limbs_equality
<1>5. EqualInGroups(large, small, g)
          = IF Integer(large) = Integer(small) THEN "holds" ELSE "unsat"
  <2> HIDE DEF large, small, g
  <2> QED BY <1>2, <1>3, GroupsEqual
<1>6. Integer(large) = Integer(small) <=> Integer(x) = Integer(y)
  BY Zenon
<1> QED BY <1>4, <1>5, <1>6, Zenon

-------------------------------------------------------------------------------
\* How many limbs an element has.

(* An element has the limbs that the modulus takes, or more of them, so    *)
(* that any multiple of it can be padded to.                               *)
Long(x) == IsElement(x) => Len(x.limbs) >= NumLimbs

(* An element that was just made has all the limbs.                        *)
LEMMA FreshIsLong ==
    ASSUME NEW n
    PROVE  Long(Allocate(n)) /\ Long(From(n))
<1>1. NumLimbs \in Nat
  BY FieldNumbers
<1>2. \A m : Len(Decompose(m, NumLimbs)) = NumLimbs
  <2> SUFFICES ASSUME NEW m PROVE Len(Decompose(m, NumLimbs)) = NumLimbs
    OBVIOUS
  <2> DEFINE at(i) == (m \div Pow(Base, i - 1)) % Base
  <2>1. Decompose(m, NumLimbs) = [i \in 1..NumLimbs |-> at(i)]
    BY DEF Decompose
  <2> HIDE DEF at
  <2> QED BY <1>1, <2>1
<1>3. \E m : From(n).limbs = Decompose(m, NumLimbs)
  BY DEF From, Constant
<1>4. Allocate(n).limbs = Decompose(n, NumLimbs)
  BY DEF Allocate, Allocated
<1>5. Len(From(n).limbs) = NumLimbs /\ Len(Allocate(n).limbs) = NumLimbs
  BY <1>2, <1>3, <1>4
<1> QED BY <1>1, <1>5 DEF Long

(* A failure need have none.                                               *)
LEMMA FailsIsLong ==
    ASSUME NEW how, ~(how \in {"allocated", "constant"})
    PROVE  Long(Fails(how))
BY DEF Long, Fails, IsElement

(* A check does not change an element.                                     *)
LEMMA ProvidedIsLong ==
    ASSUME NEW check, ~(check \in {"allocated", "constant"}), NEW x, Long(x)
    PROVE  Long(Provided(check, x))
BY FailsIsLong DEF Provided

(* What is reduced is allocated anew, with all the limbs.                  *)
LEMMA ReduceIsLong ==
    ASSUME NEW x, Long(x)
    PROVE  Long(reduce(x))
<1> DEFINE r == Allocate(Integer(x) % Modulus)
           check == IsMultiple(Compute("sub", r, x))
<1>1. reduce(x) = IF ~IsElement(x) THEN x
                  ELSE IF x.overflow + 2 > max_overflow THEN Fails("panic")
                  ELSE IF x.overflow = 0 THEN x
                  ELSE Provided(check, r)
  BY DEF reduce
<1>2. Long(Provided(check, r))
  BY FreshIsLong, IsMultipleEnds, ProvidedIsLong
<1>3. Long(Fails("panic"))
  BY FailsIsLong
<1> HIDE DEF r, check
<1> QED BY <1>1, <1>2, <1>3

(* The result has the limbs of the first operand, at least.                *)
LEMMA ComputeIsLong ==
    ASSUME NEW op \in {"add", "mul"}, NEW a, NEW b,
           NEW m, NEW n, Sound(a, m), Sound(b, n), Long(a)
    PROVE  Long(Compute(op, a, b))
<1> DEFINE l == CASE op = "add" -> AddLimbs(a, b)
                  [] op = "sub" -> SubLimbs(a, b)
                  [] op = "mul" -> MulLimbs(a, b)
<1>1. CASE ~IsElement(a)
  <2>1. Compute(op, a, b) = a
    BY <1>1 DEF Compute
  <2> QED BY <2>1
<1>2. CASE IsElement(a) /\ ~IsElement(b)
  <2>1. Compute(op, a, b) = b
    BY <1>2 DEF Compute
  <2> QED BY <1>2, <2>1 DEF Long
<1>3. CASE IsElement(a) /\ IsElement(b) /\ IsConstant(a) /\ IsConstant(b)
  <2>1. Compute(op, a, b) = From(OfConstants(op, Integer(a), Integer(b)))
    BY <1>3 DEF Compute
  <2> QED BY <2>1, FreshIsLong
<1>4. CASE IsElement(a) /\ IsElement(b) /\ ~(IsConstant(a) /\ IsConstant(b))
  <2>1. Compute(op, a, b) = Allocated(Wrapped(l), NextOverflow(op, a, b))
    BY <1>4 DEF Compute
  <2> DEFINE la == Len(a.limbs)
             lb == Len(b.limbs)
  <2>2. /\ a.limbs \in Seq(Nat) /\ b.limbs \in Seq(Nat)
        /\ la \in Nat /\ lb \in Nat /\ la >= 1 /\ lb >= 1 /\ la >= NumLimbs
    BY <1>4 DEF Sound, Sized, Keeps, Long
  <2>3. l \in Seq(Nat) /\ Len(l) >= la
    <3>1. CASE op = "add"
      <4>1. l = AddLimbs(a, b)
        BY <3>1
      <4>2. AddLimbs(a, b) \in Seq(Nat) /\ Len(AddLimbs(a, b)) = Longest(a, b)
        BY <2>2, AddLimbsAdd
      <4>3. Longest(a, b) = IF la < lb THEN lb ELSE la
        <5>1. Longest(a, b) = Max({la, lb}) /\ la \in Int /\ lb \in Int
          BY <2>2 DEF Longest
        <5> HIDE DEF la, lb
        <5> QED BY ONLY <5>1, MaxOfTwo
      <4> HIDE DEF l, la, lb
      <4> QED BY <2>2, <4>1, <4>2, <4>3
    <3>2. CASE op = "mul"
      <4>1. l = MulLimbs(a, b)
        BY <3>2
      <4>2. /\ MulLimbs(a, b) \in Seq(Nat)
            /\ Len(MulLimbs(a, b)) = la + lb - 1
        BY <2>2, MulLimbsMultiply
      <4> HIDE DEF l, la, lb
      <4> QED BY <2>2, <4>1, <4>2
    <3> QED BY <3>1, <3>2
  <2> HIDE DEF l
  <2>4. Len(Wrapped(l)) = Len(l)
    <3>1. Wrapped(l) = [i \in 1..Len(l) |-> l[i] % Native] /\ Len(l) \in Nat
      BY <2>3 DEF Wrapped
    <3> DEFINE at(i) == l[i] % Native
    <3>2. Wrapped(l) = [i \in 1..Len(l) |-> at(i)]
      BY <3>1
    <3> HIDE DEF at
    <3> QED BY <3>1, <3>2
  <2>5. Compute(op, a, b).limbs = Wrapped(l)
    BY <2>1 DEF Allocated
  <2>6. Len(Compute(op, a, b).limbs) >= NumLimbs
    <3>1. Len(l) \in Nat /\ NumLimbs \in Nat
      BY <2>3, FieldNumbers
    <3> HIDE DEF la, lb
    <3> QED BY <2>2, <2>3, <2>4, <2>5, <3>1
  <2> QED BY <2>6 DEF Long
<1> QED BY <1>1, <1>2, <1>3, <1>4

(* Operands that are reduced first have enough limbs, too.                 *)
LEMMA ApplyIsLong ==
    ASSUME NEW op \in {"add", "mul"}, NEW a, NEW b,
           NEW m \in Int, NEW n \in Int, Sound(a, m), Sound(b, n), Long(a)
    PROVE  Long(reduce_and_apply_op(op, a, b))
<1>1. ASSUME NEW p, Pair(p, m, n), Long(p[1])
      PROVE  Pair(Settle(op, p), m, n) /\ Long(Settle(op, p)[1])
  <2>1. /\ Pair(Settle(op, p), m, n)
        /\ \/ Settle(op, p) = p
           \/ Settle(op, p) = <<p[1], reduce(p[2])>>
           \/ Settle(op, p) = <<reduce(p[1]), p[2]>>
    BY <1>1, SettleSteps
  <2>2. Long(reduce(p[1]))
    BY <1>1, ReduceIsLong
  <2> QED BY <1>1, <2>1, <2>2
<1> DEFINE p == <<a, b>>
           q == Settle(op, p)
           r == Settle(op, q)
<1>2. Pair(p, m, n) /\ Long(p[1])
  BY DEF Pair
<1> HIDE DEF p
<1>3. Pair(q, m, n) /\ Long(q[1])
  BY <1>1, <1>2
<1> HIDE DEF q
<1>4. Pair(r, m, n) /\ Long(r[1])
  BY <1>1, <1>3
<1> HIDE DEF r
<1>5. Long(Compute(op, r[1], r[2]))
  BY <1>4, ComputeIsLong DEF Pair
<1>6. reduce_and_apply_op(op, a, b) = Compute(op, r[1], r[2])
  BY DEF reduce_and_apply_op, Apply, p, q, r
<1> QED BY <1>5, <1>6

(* The limbs are multiplied one by one.                                    *)
LEMMA MulConstIsLong ==
    ASSUME NEW c, NEW x, NEW n \in Int, Sound(x, n), Long(x)
    PROVE  Long(mul_const(x, c))
<1>1. ASSUME NEW y, NEW k, Sound(y, k), Long(y) PROVE Long(Times(y, c))
  <2> DEFINE l == [i \in DOMAIN y.limbs |-> y.limbs[i] * c]
  <2>1. Times(y, c) = IF ~IsElement(y) THEN y
                      ELSE IF IsConstant(y) THEN Fails("not implemented")
                      ELSE Allocated(Wrapped(l), Bits(c) + y.overflow)
    BY DEF Times
  <2>2. Long(Fails("not implemented"))
    BY FailsIsLong
  <2>3. ASSUME IsElement(y)
        PROVE  Long(Allocated(Wrapped(l), Bits(c) + y.overflow))
    <3>1. y.limbs \in Seq(Nat) /\ Len(y.limbs) >= NumLimbs
      BY <1>1, <2>3 DEF Sound, Sized, Long
    <3> DEFINE at(i) == l[i] % Native
    <3>2. Wrapped(l) = [i \in 1..Len(y.limbs) |-> at(i)]
      BY <3>1 DEF Wrapped
    <3> HIDE DEF at
    <3>3. Len(Wrapped(l)) = Len(y.limbs)
      BY <3>1, <3>2
    <3> HIDE DEF l
    <3> QED BY <3>1, <3>3 DEF Long, Allocated
  <2> HIDE DEF l
  <2> QED BY <1>1, <2>1, <2>2, <2>3
<1> DEFINE y == IF Bits(c) + x.overflow <= max_overflow THEN x ELSE reduce(x)
<1>2. Sound(y, n) /\ Long(y)
  BY ReduceIsSound, ReduceIsLong
<1>3. mul_const(x, c) = IF ~IsElement(x) THEN x
                        ELSE IF Bits(c) > max_overflow THEN Fails("unsat")
                        ELSE Times(y, c)
  BY DEF mul_const
<1> HIDE DEF y
<1>4. Long(Times(y, c)) /\ Long(Fails("unsat"))
  BY <1>1, <1>2, FailsIsLong
<1> QED BY <1>3, <1>4

(* Folding starts with the lowest NumLimbs limbs, and adds to them.        *)
LEMMA FoldsAreLong ==
    ASSUME NEW x, NEW n \in Int, Sound(x, n), Long(x), x.is = "allocated",
           NEW f, Folds(x, f, Count(x) - 1)
    PROVE  Long(f[Count(x) - 1])
<1> DEFINE c == Count(x)
           S == {i \in 0..(c - 1) : /\ Long(f[i])
                                    /\ \E m \in Int : Sound(f[i], m)}
<1>1. /\ x.limbs \in Seq(Nat) /\ Len(x.limbs) >= 1 /\ Len(x.limbs) >= NumLimbs
      /\ NumLimbs \in Nat \ {0}
  BY FieldNumbers DEF Sound, Sized, Keeps, Long, IsElement
<1>2. c \in Nat \ {0}
  BY <1>1, CountHolds
<1>3. \A i \in 0..(c - 1) : f[i] = Folded(x, f, i)
  BY DEF Folds
<1>4. \A i \in 0..(c - 1) : /\ Integer(ChunkOf(x, i)) \in Int
                            /\ Sound(ChunkOf(x, i), Integer(ChunkOf(x, i)))
  BY ChunkIsSound
<1> HIDE DEF c
<1>5. 0 \in S
  <2>1. 0 \in 0..(c - 1)
    BY <1>2
  <2>2. f[0] = ChunkOf(x, 0)
    BY <1>3, <2>1 DEF Folded
  <2>3. Len(ChunkOf(x, 0).limbs) = NumLimbs
    <3> DEFINE len == Len(x.limbs)
    <3>1. 0 * NumLimbs + 1 = 1 /\ (0 + 1) * NumLimbs = NumLimbs
      BY <1>1
    <3>2. len \in Int /\ NumLimbs \in Int /\ len >= NumLimbs
      BY <1>1
    <3> HIDE DEF len
    <3>3. Min({NumLimbs, len}) = IF NumLimbs < len THEN NumLimbs ELSE len
      BY ONLY <3>2, MinOfTwo
    <3>4. Min({NumLimbs, len}) = NumLimbs
      BY ONLY <3>2, <3>3
    <3>5. ChunkOf(x, 0).limbs = SubSeq(x.limbs, 1, NumLimbs)
      BY <3>1, <3>4 DEF ChunkOf, Allocated, len
    <3> QED BY <1>1, <3>5
  <2>4. Long(f[0])
    BY <1>1, <2>2, <2>3 DEF Long
  <2>5. \E m \in Int : Sound(f[0], m)
    BY <1>4, <2>1, <2>2
  <2> QED BY <2>1, <2>4, <2>5
<1>6. ASSUME NEW i \in 0..((c - 1) - 1), i \in S PROVE i + 1 \in S
  <2> DEFINE k == i + 1
             y == mul_const(ChunkOf(x, k), FoldScale(k))
             z == Integer(ChunkOf(x, k))
  <2>1. k \in 0..(c - 1) /\ k # 0 /\ k - 1 = i /\ k \in Nat
    BY <1>2
  <2>2. PICK m \in Int : Sound(f[i], m)
    BY <1>6
  <2>3. Long(f[i])
    BY <1>6
  <2> HIDE DEF k
  <2>4. f[k] = reduce_and_apply_op("add", f[i], y)
    BY <1>3, <2>1 DEF Folded
  <2>5. z \in Int /\ Sound(ChunkOf(x, k), z)
    BY <1>4, <2>1
  <2>6. FoldScale(k) \in Nat
    BY <2>1, ScaleIsPower
  <2> DEFINE s == FoldScale(k)
  <2> HIDE DEF z, s
  <2>7. Sound(y, s * z) /\ s * z \in Int
    <3>1. s \in Nat
      BY <2>6 DEF s
    <3>2. Sound(mul_const(ChunkOf(x, k), s), s * z)
      BY ONLY <2>5, <3>1, MulConstIsSound
    <3>3. s * z \in Int
      BY <2>5, <3>1
    <3> QED BY <3>2, <3>3 DEF s
  <2> DEFINE w == s * z
  <2> HIDE DEF w, y
  <2>8. Sound(y, w) /\ w \in Int
    BY <2>7 DEF w
  <2>9. Long(f[k])
    BY <2>2, <2>3, <2>4, <2>8, ApplyIsLong
  <2>10. Sound(f[k], OfIntegers("add", m, w))
    BY <2>2, <2>4, <2>8, ApplyIsSound
  <2>11. OfIntegers("add", m, w) \in Int
    BY <2>8 DEF OfIntegers
  <2> QED BY <2>1, <2>9, <2>10, <2>11 DEF k
<1> HIDE DEF S
<1>7. c - 1 \in S
  <2> DEFINE m == c - 1
  <2>1. m \in Nat
    BY <1>2
  <2> HIDE DEF m
  <2>2. 0 \in S /\ \A j \in 0..(m - 1) : j \in S => j + 1 \in S
    BY <1>5, <1>6 DEF m
  <2>3. \A j \in 0..m : j \in S
    BY ONLY <2>1, <2>2, InductionTo
  <2> QED BY <2>1, <2>3 DEF m
<1> QED BY <1>7 DEF S, c

(* A folded element, or one that need not be folded.                       *)
LEMMA FoldIsLong ==
    ASSUME NEW x, NEW n \in Int, Sound(x, n), Long(x)
    PROVE  Long(fold_limbs(x))
<1> DEFINE c == Count(x)
           Body(f) == [i \in 0..(c - 1) |-> Folded(x, f, i)]
           acc == CHOOSE f : f = Body(f)
<1>1. CASE ~(mersenne /\ x.is = "allocated" /\ c > 1)
  <2>1. fold_limbs(x) = x
    BY <1>1 DEF fold_limbs, Count
  <2> QED BY <2>1
<1>2. CASE mersenne /\ x.is = "allocated" /\ c > 1
  <2>1. fold_limbs(x) = acc[c - 1]
    BY <1>2 DEF fold_limbs, Count, Folded, ChunkOf
  <2>2. c - 1 \in Nat
    <3>1. x.limbs \in Seq(Nat) /\ Len(x.limbs) >= 1
      BY <1>2 DEF Sound, Sized, Keeps, IsElement
    <3>2. c \in Nat \ {0}
      BY <3>1, CountHolds
    <3> QED BY <3>2
  <2>3. \E f : f = Body(f)
    <3>1. PICK f : Folds(x, f, c - 1)
      BY <2>2, FoldsExist
    <3>2. f = Body(f)
      BY <3>1 DEF Folds
    <3> HIDE DEF Body
    <3> QED BY <3>2
  <2>4. acc = Body(acc)
    <3> HIDE DEF Body
    <3> QED BY <2>3
  <2> HIDE DEF acc
  <2>5. Folds(x, acc, c - 1)
    BY <2>4 DEF Folds
  <2>6. Long(acc[c - 1])
    BY <1>2, <2>5, FoldsAreLong
  <2> QED BY <2>1, <2>6
<1> QED BY <1>1, <1>2

(* A sum, and a product.                                                   *)
LEMMA OperationsAreLong ==
    ASSUME NEW a, NEW b, NEW m \in Int, NEW n \in Int,
           Sound(a, m), Sound(b, n), Long(a)
    PROVE  Long(add(a, b)) /\ Long(mul(a, b))
<1>1. Long(reduce_and_apply_op("add", a, b))
      /\ Long(reduce_and_apply_op("mul", a, b))
  BY ApplyIsLong
<1>2. Sound(reduce_and_apply_op("mul", a, b), OfIntegers("mul", m, n))
  BY ApplyIsSound
<1>3. OfIntegers("mul", m, n) \in Int
  BY DEF OfIntegers
<1> QED BY <1>1, <1>2, <1>3, FoldIsLong DEF add, mul

(* A quotient is allocated anew.                                           *)
LEMMA DivideIsLong ==
    ASSUME NEW a, NEW b
    PROVE  Long(divide(a, b))
<1> DEFINE q == CHOOSE n \in 0..(Modulus - 1) :
                    (n * Integer(b)) % Modulus = Integer(a) % Modulus
<1>1. divide(a, b) = IF Integer(b) % Modulus = 0 THEN Fails("unsat")
                     ELSE Provided(assert_is_equal(mul(Allocate(q), b), a),
                                   Allocate(q))
  BY DEF divide
<1> HIDE DEF q
<1>2. Long(Fails("unsat"))
  BY FailsIsLong
<1>3. Long(Provided(assert_is_equal(mul(Allocate(q), b), a), Allocate(q)))
  BY FreshIsLong, EqualityEnds, ProvidedIsLong
<1> QED BY <1>1, <1>2, <1>3

(* A selection has the limbs of both.                                      *)
LEMMA SelectIsLong ==
    ASSUME NEW a, NEW b, IsElement(a), IsElement(b), Long(a), Long(b),
           NEW condition \in BOOLEAN
    PROVE  Long(conditionally_select(a, b, condition))
BY DEF conditionally_select, Long, Allocated, Fails, IsElement

(***************************************************************************)
(* It is kept as the invariant is.  Before the first operation, elements   *)
(* have the limbs they are given with.                                     *)
(***************************************************************************)
LongInv ==
    /\ \A r \in Reg : Long(reg[r])
    /\ step \in Nat
    /\ step = 0 => \A r \in Reg : /\ IsElement(reg[r])
                                  /\ Integer(reg[r]) \in Nat
                                  /\ Integer(reg[r]) < Pow(Base, NumLimbs)

(* The elements that a circuit starts with.                                *)
LEMMA LongInitially == Init => LongInv
<1> SUFFICES ASSUME Init PROVE LongInv
  OBVIOUS
<1>1. PICK n \in [Reg -> Inputs], fixed \in [Reg -> BOOLEAN] :
          reg = [r \in Reg |-> IF fixed[r] THEN From(n[r]) ELSE Allocate(n[r])]
  BY DEF Init
<1>2. step = 0
  BY DEF Init
<1>3. ASSUME NEW r \in Reg
      PROVE  /\ Long(reg[r]) /\ IsElement(reg[r])
             /\ Integer(reg[r]) \in Nat /\ Integer(reg[r]) < Pow(Base, NumLimbs)
  <2> DEFINE k == n[r]
             l == IF k > Modulus THEN k % Modulus ELSE k
  <2>1. /\ NumLimbs \in Nat /\ Modulus \in Nat \ {0}
        /\ Modulus < Pow(Base, NumLimbs) /\ Pow(Base, NumLimbs) \in Nat
    <3>1. NumLimbs \in Nat
      BY FieldNumbers
    <3> QED BY <3>1, FieldNumbers, PowersOfBase
  <2>2. k \in Nat /\ k < Pow(Base, NumLimbs)
    <3>1. k \in 0..(Pow(Base, NumLimbs) - 1)
      BY InputAssumption
    <3> HIDE DEF k
    <3> QED BY <2>1, <3>1
  <2> HIDE DEF k
  <2>3. l \in Nat /\ l < Pow(Base, NumLimbs)
    <3>1. k % Modulus \in 0..(Modulus - 1)
      BY <2>1, <2>2, Remainder
    <3> QED BY <2>1, <2>2, <3>1
  <2>4. reg[r] = IF fixed[r] THEN From(k) ELSE Allocate(k)
    BY <1>1 DEF k
  <2>5. From(k) = Constant(Decompose(l, NumLimbs))
    BY DEF From
  <2>6. Integer(From(k)) = l
    <3> HIDE DEF l
    <3>1. recompose(Decompose(l, NumLimbs)) = l
      BY ONLY <2>1, <2>3, DecomposeIsInverse
    <3> QED BY <2>5, <3>1 DEF Integer, Constant
  <2>7. Integer(Allocate(k)) = k
    <3>1. recompose(Decompose(k, NumLimbs)) = k
      BY ONLY <2>1, <2>2, DecomposeIsInverse
    <3> QED BY <3>1 DEF Integer, Allocate, Allocated
  <2>8. IsElement(From(k)) /\ IsElement(Allocate(k))
    BY DEF From, Constant, Allocate, Allocated, IsElement
  <2>9. Long(From(k)) /\ Long(Allocate(k))
    BY FreshIsLong
  <2> HIDE DEF l
  <2> QED BY <2>2, <2>3, <2>4, <2>6, <2>7, <2>8, <2>9
<1> QED BY <1>2, <1>3 DEF LongInv

(* An assignment of an element with enough limbs.                          *)
LEMMA AssignKeepsLong ==
    ASSUME Inv, LongInv, NEW r \in Reg, NEW x, NEW n, Long(x), Assign(r, x, n)
    PROVE  LongInv'
<1>1. reg = [s \in Reg |-> reg[s]] /\ (\A s \in Reg : Long(reg[s])) /\ step \in Nat
  BY DEF Inv, LongInv
<1>2. reg' = [reg EXCEPT ![r] = x] /\ step' = step + 1
  BY DEF Assign
<1>3. \A s \in Reg : Long(reg'[s])
  BY <1>1, <1>2
<1>4. (\A s \in Reg : Long(reg[s]))'
  BY <1>3 DEF Long, IsElement
<1>5. step' \in Nat /\ step' # 0
  BY <1>1, <1>2
<1> QED BY <1>4, <1>5 DEF LongInv

(* Every operation of a circuit keeps the number of limbs.                 *)
LEMMA LongPreserved == Inv /\ LongInv /\ [Next]_vars => LongInv'
<1> SUFFICES ASSUME Inv, LongInv, [Next]_vars PROVE LongInv'
  OBVIOUS
<1>1. /\ \A r \in Reg : Sound(reg[r], value[r]) /\ Long(reg[r])
      /\ \A r \in Reg : value[r] \in Int
  <2>1. Modulus \in Nat \ {0}
    BY FieldNumbers
  <2> QED BY <2>1 DEF Inv, LongInv
<1>2. CASE UNCHANGED vars
  BY <1>2 DEF vars, LongInv, Long, IsElement, Integer
<1>3. ASSUME NEW r \in Reg, NEW a \in Reg, NEW b \in Reg,
             Add(r, a, b) \/ Mul(r, a, b)
      PROVE  LongInv'
  <2>1. Long(add(reg[a], reg[b])) /\ Long(mul(reg[a], reg[b]))
    BY <1>1, OperationsAreLong
  <2> QED BY <1>3, <2>1, AssignKeepsLong DEF Add, Mul
<1>4. ASSUME NEW r \in Reg, NEW a \in Reg, NEW b \in Reg, Divide(r, a, b)
      PROVE  LongInv'
  <2>1. Long(divide(reg[a], reg[b]))
    BY DivideIsLong
  <2> QED BY <1>4, <2>1, AssignKeepsLong DEF Divide
<1>5. ASSUME NEW r \in Reg, Reduce(r) PROVE LongInv'
  <2>1. Long(reduce(reg[r]))
    BY <1>1, ReduceIsLong
  <2> QED BY <1>5, <2>1, AssignKeepsLong DEF Reduce
<1>6. ASSUME NEW r \in Reg, NEW a \in Reg, NEW c \in Factors, Scale(r, a, c)
      PROVE  LongInv'
  <2>1. Long(mul_const(reg[a], c))
    BY <1>1, MulConstIsLong
  <2> QED BY <1>6, <2>1, AssignKeepsLong DEF Scale
<1>7. ASSUME NEW r \in Reg, NEW a \in Reg, NEW b \in Reg,
             NEW condition \in BOOLEAN, Select(r, a, b, condition)
      PROVE  LongInv'
  <2>1. IsElement(reg[a]) /\ IsElement(reg[b])
    BY <1>7 DEF Select, Assign
  <2>2. Long(conditionally_select(reg[a], reg[b], condition))
    BY <1>1, <2>1, SelectIsLong
  <2> QED BY <1>7, <2>2, AssignKeepsLong DEF Select
<1> QED BY <1>2, <1>3, <1>4, <1>5, <1>6, <1>7 DEF Next

(* There are enough limbs throughout.                                      *)
LEMMA LongHolds == Spec => []LongInv
BY LongInitially, LongPreserved, InvHolds, PTL DEF Spec

-------------------------------------------------------------------------------
\* Differences, and multiples of the modulus.

Top(b) == Pow(2, b.overflow + BitsPerLimb)

(* Padded with a multiple of the modulus, whose limbs none of b exceeds, a *)
(* difference has limbs that are numbers, and is what it should be.        *)
LEMMA SubLimbsSubtract ==
    ASSUME NEW a, NEW b, a.limbs \in Seq(Nat), Sized(b),
           NEW n, n = Longest(a, b), n >= NumLimbs
    PROVE  /\ SubLimbs(a, b) \in Seq(Nat) /\ Len(SubLimbs(a, b)) = n /\ n \in Nat
           /\ Cong(recompose(SubLimbs(a, b)), Integer(a) - Integer(b))
           /\ \A i \in 1..n :
                  SubLimbs(a, b)[i] <= Top(b) + (Base - 1) + Limb(a, i)
           /\ Top(b) = Base * Pow(2, b.overflow)
<1> DEFINE top == Top(b)
           K == [i \in 1..n |-> top]
           all == recompose(K)
           d == Modulus - (all % Modulus)
           delta == Decompose(d, n)
           P == [i \in 1..n |-> top + delta[i]]
           h == SubLimbs(a, b)
<1>1. n \in Nat /\ Len(a.limbs) <= n /\ Len(b.limbs) <= n
  <2> DEFINE la == Len(a.limbs)
             lb == Len(b.limbs)
  <2>1. la \in Nat /\ lb \in Nat /\ la \in Int /\ lb \in Int
    BY DEF Sized
  <2>2. n = Max({la, lb})
    BY DEF Longest
  <2> HIDE DEF la, lb
  <2>3. n = IF la < lb THEN lb ELSE la
    BY ONLY <2>1, <2>2, MaxOfTwo
  <2>4. n \in Nat /\ la <= n /\ lb <= n
    BY ONLY <2>1, <2>3
  <2> QED BY <2>4 DEF la, lb
<1>2. /\ NumLimbs \in Nat /\ Base \in Nat \ {0, 1} /\ Modulus \in Nat \ {0}
      /\ Modulus < Pow(Base, NumLimbs) /\ BitsPerLimb \in Nat
  BY FieldNumbers
<1>3. /\ b.limbs \in Seq(Nat) /\ b.overflow \in Nat
      /\ \A i \in DOMAIN b.limbs :
             b.limbs[i] <= (Base - 1) * Pow(2, b.overflow)
  BY DEF Sized, Counted
<1>4. top \in Nat /\ top = Base * Pow(2, b.overflow)
      /\ (Base - 1) * Pow(2, b.overflow) <= top
  <2> DEFINE p == Pow(2, b.overflow)
  <2>1. p \in Nat
    BY <1>3, PowersOfTwo
  <2>2. Pow(2, b.overflow + BitsPerLimb) = p * Pow(2, BitsPerLimb)
    <3>1. 2 \in Int /\ b.overflow \in Nat /\ BitsPerLimb \in Nat
      BY <1>2, <1>3
    <3> QED BY ONLY <3>1, PowerSum
  <2>3. top = p * Base
    BY <2>2 DEF Base, Top
  <2> HIDE DEF p, top
  <2>4. \A e, f \in Nat : e * f = f * e /\ e * f \in Nat
                          /\ (f - 1) * e = f * e - e
    OBVIOUS
  <2>5. p * Base = Base * p /\ Base * p \in Nat /\ (Base - 1) * p = Base * p - p
    BY <1>2, <2>1, <2>4
  <2>6. (Base - 1) * p <= Base * p
    BY <2>1, <2>5
  <2> QED BY <2>3, <2>5, <2>6 DEF p
<1>5. \A i \in 1..n : Limb(a, i) \in Nat /\ Limb(b, i) \in Nat /\ Limb(b, i) <= top
  <2> DEFINE most == (Base - 1) * Pow(2, b.overflow)
  <2>1. most <= top /\ \A i \in DOMAIN b.limbs : b.limbs[i] <= most
    BY <1>3, <1>4
  <2>2. most \in Int
    <3>1. Pow(2, b.overflow) \in Nat
      BY <1>3, PowersOfTwo
    <3>2. \A e, f \in Nat : (e - 1) * f \in Int
      OBVIOUS
    <3> QED BY <1>2, <3>1, <3>2
  <2> HIDE DEF most, top
  <2> QED BY <1>3, <1>4, <2>1, <2>2 DEF Limb
<1> HIDE DEF top
<1>6. K \in Seq(Nat) /\ K \in Seq(Int) /\ Len(K) = n /\ all = Weighed(K, n)
      /\ all \in Int
  <2>1. K \in Seq(Nat) /\ K \in Seq(Int) /\ Len(K) = n
    BY <1>1, <1>4
  <2>2. all = Weighed(K, n)
    <3> HIDE DEF K
    <3> QED BY <2>1, RecomposeWeighs
  <2>3. \A i \in 1..n : K[i] \in Int
    BY <1>4
  <2>4. n \in 0..n
    BY <1>1
  <2>5. Weighed(K, n) \in Int
    <3> HIDE DEF K
    <3> QED BY ONLY <1>1, <2>3, <2>4, WeighedSteps
  <2> QED BY <2>1, <2>2, <2>5
<1>7. d \in Nat /\ d < Pow(Base, n) /\ Cong(all + d, 0)
  <2>1. /\ all % Modulus \in 0..(Modulus - 1) /\ all \div Modulus \in Int
        /\ all = Modulus * (all \div Modulus) + (all % Modulus)
    BY <1>2, <1>6, Remainder
  <2> DEFINE q == all \div Modulus
             r == all % Modulus
  <2> HIDE DEF q, r, all
  <2>2. r \in 0..(Modulus - 1) /\ q \in Int /\ all = Modulus * q + r
    BY <2>1 DEF q, r
  <2>3. d = Modulus - r
    BY DEF r
  <2>4. d \in Nat /\ d <= Modulus
    BY <1>2, <2>2, <2>3
  <2>5. Pow(Base, NumLimbs) <= Pow(Base, n)
    BY <1>1, <1>2, PowerGrows
  <2>6. Pow(Base, NumLimbs) \in Nat /\ Pow(Base, n) \in Nat
    BY <1>1, <1>2, PowersOfBase
  <2> HIDE DEF d
  <2>7. d < Pow(Base, n)
    BY <1>2, <2>4, <2>5, <2>6
  <2>8. all + d = 0 + Modulus * (q + 1) /\ q + 1 \in Int
    <3>1. \A e \in Nat, f \in Int : e * (f + 1) = e * f + e /\ e * f \in Int
      OBVIOUS
    <3>2. Modulus * (q + 1) = Modulus * q + Modulus /\ Modulus * q \in Int
      BY <1>2, <2>2, <3>1
    <3> QED BY <1>2, <2>2, <2>3, <3>2
  <2> QED BY <2>4, <2>7, <2>8 DEF Cong
<1> HIDE DEF all, d
<1>8. /\ recompose(delta) = d /\ delta \in Seq(Int) /\ Len(delta) = n
      /\ \A i \in 1..n : delta[i] \in 0..(Base - 1)
  <2>1. delta \in Seq(0..(Base - 1)) /\ Len(delta) = n
    BY <1>1, <1>7, DecomposeLimbs
  <2>2. recompose(delta) = d
    BY <1>1, <1>7, DecomposeIsInverse
  <2> HIDE DEF delta
  <2> DEFINE R == 0..(Base - 1)
  <2>0. R \subseteq Int
    BY <1>2
  <2>1a. delta \in Seq(R) /\ n \in Nat /\ Len(delta) = n
    BY <1>1, <2>1
  <2> HIDE DEF R
  <2>3. \A i \in 1..n : delta[i] \in R
    BY ONLY <2>1a
  <2>3a. delta = [i \in 1..n |-> delta[i]]
    BY ONLY <2>1a
  <2>4. delta \in Seq(Int)
    <3>1. delta \in [1..n -> Int]
      BY ONLY <2>0, <2>3, <2>3a
    <3> QED BY ONLY <2>1a, <3>1
  <2> USE DEF R
  <2> QED BY <2>1, <2>2, <2>3, <2>4
<1> HIDE DEF delta
<1>9. Weighed(P, n) = all + d /\ \A i \in 1..n : P[i] \in Int
  <2>1. Weighed(delta, n) = d
    BY <1>8, RecomposeWeighs
  <2>2. \A i \in 1..n : /\ K[i] \in Int /\ delta[i] \in Int /\ P[i] \in Int
                        /\ P[i] = K[i] + delta[i]
    BY <1>2, <1>4, <1>8
  <2> HIDE DEF K, P
  <2>3. Weighed(P, n) = Weighed(K, n) + Weighed(delta, n)
    BY ONLY <1>1, <2>2, WeighedPlus
  <2> QED BY <1>6, <2>1, <2>2, <2>3
<1>10. h = [i \in 1..n |-> P[i] + Limb(a, i) - Limb(b, i)]
  <2>1. sub_padding(b, n) = P
    BY DEF sub_padding, Top, top, all, d, delta
  <2> HIDE DEF P
  <2> QED BY <2>1 DEF SubLimbs
<1>11. \A i \in 1..n : h[i] \in Nat /\ h[i] <= top + (Base - 1) + Limb(a, i)
                       /\ h[i] = (P[i] + Limb(a, i)) - Limb(b, i)
  <2> SUFFICES ASSUME NEW i \in 1..n
               PROVE  h[i] \in Nat /\ h[i] <= top + (Base - 1) + Limb(a, i)
                      /\ h[i] = (P[i] + Limb(a, i)) - Limb(b, i)
    OBVIOUS
  <2>1. P[i] = top + delta[i] /\ delta[i] \in 0..(Base - 1)
    BY <1>8
  <2>2. h[i] = P[i] + Limb(a, i) - Limb(b, i)
    BY <1>10
  <2>3. /\ Limb(a, i) \in Nat /\ Limb(b, i) \in Nat /\ Limb(b, i) <= top
        /\ top \in Nat /\ Base \in Nat
    BY <1>2, <1>4, <1>5
  <2> HIDE DEF P, h
  <2> QED BY ONLY <2>1, <2>2, <2>3
<1>12. h \in Seq(Nat) /\ Len(h) = n /\ h \in Seq(Int)
  <2>1. h \in [1..n -> Nat]
    BY <1>10, <1>11
  <2>2. n \in Nat
    BY <1>1
  <2> HIDE DEF h
  <2>3. h \in [1..n -> Int]
    BY <2>1
  <2> QED BY ONLY <2>1, <2>2, <2>3
<1> HIDE DEF P, h
<1>13. recompose(h) = all + d + Integer(a) - Integer(b)
  <2> DEFINE A == Limbs(a, n)
             B == Limbs(b, n)
             Q == [i \in 1..n |-> P[i] + A[i]]
  <2>1. /\ Integer(a) = Weighed(A, n) /\ Integer(b) = Weighed(B, n)
        /\ Integer(a) \in Int /\ Integer(b) \in Int
    <3>1. a.limbs \in Seq(Int) /\ b.limbs \in Seq(Int)
      BY <1>3
    <3> QED BY <1>1, <3>1, IntegerWeighs
  <2>2. \A i \in 1..n : A[i] = Limb(a, i) /\ B[i] = Limb(b, i)
    BY DEF Limbs
  <2>3. \A i \in 1..n : P[i] \in Int /\ A[i] \in Int /\ Q[i] = P[i] + A[i]
    BY <1>5, <1>9, <2>2
  <2> HIDE DEF A, B, Q
  <2>4. \A i \in 1..n : h[i] \in Int /\ B[i] \in Int /\ Q[i] = h[i] + B[i]
    BY <1>5, <1>11, <2>2, <2>3
  <2>5. Weighed(Q, n) = Weighed(P, n) + Weighed(A, n)
    BY ONLY <1>1, <2>3, WeighedPlus
  <2>6. Weighed(Q, n) = Weighed(h, n) + Weighed(B, n)
    BY ONLY <1>1, <2>4, WeighedPlus
  <2>7. recompose(h) = Weighed(h, n)
    BY <1>12, RecomposeWeighs
  <2>8. recompose(h) \in Int /\ Weighed(P, n) \in Int
    <3>1. n \in 0..n
      BY <1>1
    <3>2. \A i \in 1..n : h[i] \in Int
      BY <2>4
    <3>3. Weighed(h, n) \in Int
      BY ONLY <1>1, <3>1, <3>2, WeighedSteps
    <3>4. Weighed(P, n) \in Int
      BY ONLY <1>1, <1>9, <3>1, WeighedSteps
    <3> QED BY <2>7, <3>3, <3>4
  <2> QED BY ONLY <1>6, <1>7, <1>9, <2>1, <2>5, <2>6, <2>7, <2>8
<1>14. Cong(recompose(h), Integer(a) - Integer(b))
  <2>1. Integer(a) \in Int /\ Integer(b) \in Int
    <3>1. a.limbs \in Seq(Int) /\ b.limbs \in Seq(Int)
      BY <1>3
    <3> QED BY <1>1, <3>1, IntegerWeighs
  <2> DEFINE e == Integer(a) - Integer(b)
             z == all + d
  <2>2. e \in Int /\ z \in Int /\ 0 \in Int
    BY <1>6, <1>7, <2>1
  <2>3. Cong(z, 0)
    BY <1>7
  <2>4. recompose(h) = z + e /\ 0 + e = e
    BY <1>6, <1>7, <1>13, <2>1
  <2> HIDE DEF e, z
  <2>5. Cong(e, e)
    BY <2>2, CongReflexive
  <2>6. Cong(z + e, 0 + e)
    BY ONLY <2>2, <2>3, <2>5, CongPlus
  <2> QED BY <2>4, <2>6 DEF e
<1> QED BY <1>1, <1>4, <1>11, <1>12, <1>14 DEF h, top

(* An element with less overflow than it may have is a number that its     *)
(* quotient's limbs are enough for.                                        *)
LEMMA QuotientFits ==
    ASSUME NEW x, Sized(x), Len(x.limbs) >= NumLimbs
    PROVE  /\ Integer(x) \in Nat /\ Integer(x) \div Modulus \in Nat
           /\ QuotientLimbs(x) \in Nat \ {0}
           /\ Integer(x) \div Modulus < Pow(Base, QuotientLimbs(x))
           /\ Bits(Integer(x) \div Modulus) <= QuotientLimbs(x) * BitsPerLimb
<1> DEFINE len == Len(x.limbs)
           o == x.overflow
           z == Integer(x)
           k == z \div Modulus
           n == QuotientLimbs(x)
           w == len * BitsPerLimb + o + 1 - E
<1>1. /\ BitsPerLimb \in Nat \ {0} /\ NumLimbs \in Nat /\ E \in Nat \ {0}
      /\ Base \in Nat \ {0, 1} /\ Modulus \in Nat \ {0}
  BY FieldNumbers
<1>2. /\ len \in Nat /\ o \in Nat /\ x.limbs \in Seq(Nat) /\ x.limbs \in Seq(Int)
      /\ \A i \in DOMAIN x.limbs : x.limbs[i] <= (Base - 1) * Pow(2, o)
  BY DEF Sized, Counted
<1>3. z \in Nat /\ z <= (Pow(Base, len) - 1) * Pow(2, o)
  <2> DEFINE l == x.limbs
             p == Pow(2, o)
  <2>1. z = Weighed(l, len)
    BY <1>2, RecomposeWeighs DEF Integer
  <2>2. p \in Nat
    BY <1>2, PowersOfTwo
  <2>3. \A i \in 1..len : l[i] \in Nat /\ l[i] <= (Base - 1) * p
    <3>1. DOMAIN l = 1..len /\ \A i \in 1..len : l[i] \in Nat
      BY <1>2
    <3>2. \A i \in DOMAIN l : l[i] <= (Base - 1) * p
      BY <1>2
    <3> HIDE DEF l, p, len
    <3> QED BY ONLY <3>1, <3>2, Zenon
  <2> HIDE DEF l, p, len, z
  <2>4. Weighed(l, len) \in Nat /\ Weighed(l, len) <= (Pow(Base, len) - 1) * p
    BY ONLY <1>2, <2>2, <2>3, WeighedIsBounded
  <2> QED BY <2>1, <2>4 DEF p
<1>4. /\ len * BitsPerLimb \in Nat /\ E <= len * BitsPerLimb
      /\ Pow(Base, len) = Pow(2, len * BitsPerLimb)
  <2>1. E <= NumLimbs * BitsPerLimb
    BY <1>1, FieldAssumption
  <2>2. \A e, f \in Nat : e * f \in Nat /\ e * f = f * e
    OBVIOUS
  <2>3. \A e, f, g \in Nat : e >= f => e * g >= f * g
    OBVIOUS
  <2>4. len >= NumLimbs
    OBVIOUS
  <2> HIDE DEF len
  <2>5. len * BitsPerLimb \in Nat /\ NumLimbs * BitsPerLimb \in Nat
        /\ len * BitsPerLimb >= NumLimbs * BitsPerLimb
        /\ len * BitsPerLimb = BitsPerLimb * len
    BY <1>1, <1>2, <2>2, <2>3, <2>4
  <2>6. 2 \in Int /\ BitsPerLimb \in Nat
    BY <1>1
  <2>7. Pow(Pow(2, BitsPerLimb), len) = Pow(2, BitsPerLimb * len)
    BY ONLY <1>2, <2>6, PowerOfPower
  <2>8. E <= len * BitsPerLimb
    BY <1>1, <2>1, <2>5
  <2> QED BY <2>5, <2>7, <2>8 DEF Base
<1>5. w \in Nat \ {0}
  <2> HIDE DEF len, o
  <2> QED BY <1>1, <1>2, <1>4
<1>6. z % Modulus \in Nat /\ k \in Nat /\ z = Modulus * k + (z % Modulus)
  <2> HIDE DEF z
  <2>1. /\ z % Modulus \in 0..(Modulus - 1) /\ k \in Int
        /\ z = Modulus * k + (z % Modulus)
    <3>1. z \in Int /\ Modulus \in Nat \ {0}
      BY <1>1, <1>3
    <3> QED BY ONLY <3>1, Remainder
  <2> DEFINE r == z % Modulus
  <2> HIDE DEF r, k
  <2>2. r \in 0..(Modulus - 1) /\ z = Modulus * k + r
    BY <2>1 DEF r
  <2>3. \A e \in Nat, f \in Int : e * f \in Int /\ (f < 0 => e * f <= -e)
    OBVIOUS
  <2>4. Modulus * k \in Int /\ (k < 0 => Modulus * k <= -Modulus)
    BY <1>1, <2>1, <2>3
  <2>5. k \in Nat
    BY ONLY <1>1, <1>3, <2>1, <2>2, <2>4
  <2> QED BY <1>1, <2>2, <2>5 DEF r
<1>7. Pow(2, E - 1) \in Nat \ {0} /\ Pow(2, E - 1) <= Modulus /\ E - 1 \in Nat
  <2>1. E - 1 \in Nat /\ (E - 1) + 1 = E
    BY <1>1
  <2>2. Pow(2, E - 1) \in Nat \ {0} /\ Pow(2, E) = 2 * Pow(2, E - 1)
    BY <2>1, PowersOfTwo
  <2>3. C \in 1..Pow(2, E - 1)
    BY FieldAssumption
  <2> QED BY <2>1, <2>2, <2>3 DEF Modulus
<1>8. k < Pow(2, w)
  <2> DEFINE h == Pow(2, E - 1)
             p == Pow(2, o)
             b == Pow(Base, len)
             v == Pow(2, w)
  <2>1. h \in Nat \ {0} /\ p \in Nat \ {0} /\ b \in Nat \ {0} /\ v \in Nat \ {0}
    BY <1>2, <1>5, <1>7, PowersOfTwo, PowersOfBase
  <2>2. b * p = v * h
    <3> HIDE DEF len, o
    <3>1. w + (E - 1) = len * BitsPerLimb + o
      BY <1>1, <1>2, <1>4
    <3>2. Pow(2, len * BitsPerLimb + o) = Pow(2, len * BitsPerLimb) * Pow(2, o)
      BY <1>2, <1>4, PowerSum
    <3> HIDE DEF w
    <3>3. Pow(2, w + (E - 1)) = Pow(2, w) * Pow(2, E - 1)
      BY <1>5, <1>7, PowerSum
    <3> QED BY <1>4, <3>1, <3>2, <3>3
  <2> HIDE DEF z, k, h, p, b, v
  <2>3. z < b * p
    <3>1. \A e, f \in Nat \ {0} : (e - 1) * f = e * f - f /\ e * f \in Nat
      OBVIOUS
    <3>2. (b - 1) * p = b * p - p /\ b * p \in Nat
      BY <2>1, <3>1
    <3>3. z <= (b - 1) * p
      BY <1>3 DEF b, p
    <3> QED BY <1>3, <2>1, <3>2, <3>3
  <2>4. h * k <= z
    <3>1. \A e, f, g \in Nat : e <= f => e * g <= f * g /\ e * g \in Nat /\ f * g \in Nat
      OBVIOUS
    <3>2. h * k <= Modulus * k /\ h * k \in Nat /\ Modulus * k \in Nat
      BY <1>1, <1>6, <1>7, <2>1, <3>1 DEF h
    <3> QED BY <1>3, <1>6, <3>2
  <2>5. \A e, f, g \in Nat : e >= f => g * e >= f * g /\ g * e \in Nat /\ f * g \in Nat
    OBVIOUS
  <2>6. k >= v => h * k >= v * h /\ h * k \in Nat /\ v * h \in Nat
    BY <1>6, <2>1, <2>5
  <2>7. ~(k >= v)
    BY <1>3, <2>2, <2>3, <2>4, <2>6
  <2> QED BY <1>6, <2>1, <2>7 DEF v
<1>9. n = (w + BitsPerLimb - 1) \div BitsPerLimb
  <2>1. Bits(Modulus) = E
    BY ModulusBits
  <2> QED BY <2>1 DEF QuotientLimbs
<1>10. n \in Nat \ {0} /\ n * BitsPerLimb >= w /\ n * BitsPerLimb \in Nat
  <2> DEFINE t == w + BitsPerLimb - 1
             r == t % BitsPerLimb
  <2> HIDE DEF n, w
  <2>1. t \in Int
    BY <1>1, <1>5
  <2>2. /\ r \in 0..(BitsPerLimb - 1) /\ n \in Int /\ t = BitsPerLimb * n + r
    <3> HIDE DEF t
    <3> QED BY ONLY <1>1, <1>9, <2>1, Remainder DEF t, r
  <2> HIDE DEF r
  <2>3. \A e \in Nat \ {0}, f \in Int :
            e * f \in Int /\ e * f = f * e /\ (f <= 0 => e * f <= 0)
            /\ (f > 0 => e * f > 0)
    OBVIOUS
  <2>4. /\ BitsPerLimb * n \in Int /\ BitsPerLimb * n = n * BitsPerLimb
        /\ (n <= 0 => BitsPerLimb * n <= 0)
    BY <1>1, <2>2, <2>3
  <2>5. BitsPerLimb * n >= w
    BY <1>1, <1>5, <2>2, <2>4
  <2> QED BY <1>5, <2>2, <2>4, <2>5
<1>11. k < Pow(2, n * BitsPerLimb)
  <2> HIDE DEF k, n, w
  <2>1. 2 \in Nat \ {0} /\ w \in Nat /\ n * BitsPerLimb \in Nat /\ w <= n * BitsPerLimb
    BY <1>5, <1>10
  <2>2. Pow(2, w) <= Pow(2, n * BitsPerLimb)
    BY ONLY <2>1, PowerGrows
  <2>3. Pow(2, w) \in Nat /\ Pow(2, n * BitsPerLimb) \in Nat
    BY <2>1, PowersOfTwo
  <2> QED BY <1>6, <1>8, <2>2, <2>3
<1>12. Pow(Base, n) = Pow(2, n * BitsPerLimb)
  <2> HIDE DEF n
  <2> QED BY <1>10, GroupsOfBits
<1>13. Bits(k) <= n * BitsPerLimb
  <2> HIDE DEF k, n
  <2> QED BY <1>6, <1>10, <1>11, BitsHold
<1> QED BY <1>3, <1>6, <1>10, <1>11, <1>12, <1>13

(* A number split into limbs is an element that nothing was done to.       *)
LEMMA SplitIsSized ==
    ASSUME NEW k \in Nat, NEW n \in Nat \ {0}, k < Pow(Base, n),
           NEW x, x.limbs = Decompose(k, n), x.overflow = 0
    PROVE  Sized(x) /\ Len(x.limbs) = n /\ Integer(x) = k
<1>1. /\ Decompose(k, n) \in Seq(0..(Base - 1)) /\ Len(Decompose(k, n)) = n
      /\ recompose(Decompose(k, n)) = k
  BY DecomposeLimbs, DecomposeIsInverse
<1>2. Base \in Nat \ {0, 1} /\ Pow(2, 0) = 1
  BY FieldNumbers, PowersOfTwo
<1>3. x.limbs \in Seq(Nat)
  BY <1>1, <1>2
<1>4. \A i \in DOMAIN x.limbs : x.limbs[i] <= (Base - 1) * Pow(2, x.overflow)
  <2> SUFFICES ASSUME NEW i \in DOMAIN x.limbs
               PROVE  x.limbs[i] <= (Base - 1) * 1
    BY <1>2
  <2>1. x.limbs[i] \in 0..(Base - 1)
    <3> DEFINE S == 0..(Base - 1)
    <3>1. x.limbs \in Seq(S)
      BY <1>1
    <3> HIDE DEF S
    <3>2. \A l \in Seq(S) : \A j \in DOMAIN l : l[j] \in S
      OBVIOUS
    <3>3. x.limbs[i] \in S
      BY <3>1, <3>2
    <3> QED BY <3>3 DEF S
  <2>2. Base - 1 \in Nat /\ (Base - 1) * 1 = Base - 1
    BY <1>2
  <2> QED BY <2>1, <2>2
<1> QED BY <1>1, <1>3, <1>4 DEF Sized, Counted, Integer

(* The quotient times the modulus, as a product of limbs, is that number,  *)
(* and has room for a carry.                                               *)
LEMMA ProductOfQuotient ==
    ASSUME NEW k \in Nat, NEW n \in Nat \ {0}, k < Pow(Base, n), NEW y,
           y = Compute("mul", Allocated(Decompose(k, n), 0), From(Modulus))
    PROVE  /\ Sized(y) /\ Len(y.limbs) >= 1
           /\ y.overflow < max_overflow /\ Integer(y) = k * Modulus
<1> DEFINE a == Allocated(Decompose(k, n), 0)
           b == From(Modulus)
           o == NextOverflow("mul", a, b)
           l == MulLimbs(a, b)
<1>1. /\ BitsPerLimb \in Nat \ {0} /\ NumLimbs \in Nat \ {0, 1}
      /\ Modulus \in Nat \ {0} /\ Modulus < Pow(Base, NumLimbs)
      /\ max_overflow \in Nat /\ BitsPerLimb + CeilLog2(NumLimbs) < max_overflow
  BY FieldNumbers
<1>2. /\ Sized(a) /\ Len(a.limbs) = n /\ Integer(a) = k /\ a.overflow = 0
      /\ a.is = "allocated"
  <2>1. a.limbs = Decompose(k, n) /\ a.overflow = 0 /\ a.is = "allocated"
    BY DEF Allocated
  <2> HIDE DEF a
  <2> QED BY <2>1, SplitIsSized
<1>3. /\ Sized(b) /\ Len(b.limbs) = NumLimbs /\ Integer(b) = Modulus
      /\ b.overflow = 0 /\ b.is = "constant"
  <2>1. b.limbs = Decompose(Modulus, NumLimbs) /\ b.overflow = 0
        /\ b.is = "constant"
    BY <1>1 DEF From, Constant
  <2> HIDE DEF b
  <2> QED BY <1>1, <2>1, SplitIsSized
<1> HIDE DEF a, b
<1>4. y = Allocated(Wrapped(l), o)
  BY <1>2, <1>3 DEF Compute, IsElement, IsConstant, a, b
<1>5. /\ l \in Seq(Nat) /\ Len(l) = n + NumLimbs - 1
      /\ recompose(l) = k * Modulus
  <2>1. /\ a.limbs \in Seq(Nat) /\ b.limbs \in Seq(Nat)
        /\ Len(a.limbs) >= 1 /\ Len(b.limbs) >= 1
    BY <1>1, <1>2, <1>3 DEF Sized
  <2>2. /\ l \in Seq(Nat) /\ Len(l) = Len(a.limbs) + Len(b.limbs) - 1
        /\ recompose(l) = Integer(a) * Integer(b)
    BY ONLY <2>1, MulLimbsMultiply
  <2> HIDE DEF l
  <2> QED BY <1>2, <1>3, <2>2
<1>6. \A i \in DOMAIN l : l[i] <= (Base - 1) * Pow(2, o)
  BY <1>1, <1>2, <1>3, MulIsCounted
<1>7. o \in Nat /\ o < max_overflow
  <2> DEFINE c == Min({n, NumLimbs})
  <2>1. c \in Nat \ {0} /\ c <= NumLimbs
    BY <1>1, MinOfTwo
  <2>2. /\ CeilLog2(NumLimbs) \in Nat /\ NumLimbs <= Pow(2, CeilLog2(NumLimbs))
        /\ Pow(2, CeilLog2(NumLimbs)) \in Nat
    BY <1>1, CeilLog2Holds, PowersOfTwo
  <2> HIDE DEF c
  <2>3. c <= Pow(2, CeilLog2(NumLimbs))
    BY <1>1, <2>1, <2>2
  <2>4. CeilLog2(c) \in Nat /\ CeilLog2(c) <= CeilLog2(NumLimbs)
    BY <2>1, <2>2, <2>3, CeilLog2Holds
  <2>5. o = BitsPerLimb + 0 + 0 + CeilLog2(c)
    BY <1>2, <1>3 DEF NextOverflow, c
  <2> HIDE DEF o
  <2> QED BY <1>1, <2>2, <2>4, <2>5
<1> HIDE DEF o, l
<1>8. Wrapped(l) = l
  BY <1>1, <1>5, <1>6, <1>7, CountedIsNotWrapped
<1>9. y.limbs = l /\ y.overflow = o
  BY <1>4, <1>8 DEF Allocated
<1>10. Len(l) >= 1
  BY <1>1, <1>5
<1> QED BY <1>5, <1>6, <1>7, <1>9, <1>10 DEF Sized, Counted, Integer

(* Asserting that an element is a multiple of the modulus holds for the    *)
(* multiples, and is not satisfied by any other number.                    *)
LEMMA IsMultipleDecides ==
    ASSUME NEW diff, IsElement(diff), Sized(diff),
           Len(diff.limbs) >= NumLimbs, diff.overflow < max_overflow
    PROVE  IsMultiple(diff)
               = IF Integer(diff) % Modulus = 0 THEN "holds" ELSE "unsat"
<1> DEFINE z == Integer(diff)
           k == z \div Modulus
           n == QuotientLimbs(diff)
           y == Compute("mul", Allocated(Decompose(k, n), 0), From(Modulus))
<1>1. /\ z \in Nat /\ k \in Nat /\ n \in Nat \ {0} /\ k < Pow(Base, n)
      /\ Bits(k) <= n * BitsPerLimb
  BY QuotientFits
<1>2. Modulus \in Nat \ {0} /\ NumLimbs \in Nat \ {0, 1} /\ BitsPerLimb \in Nat
  BY FieldNumbers
<1>3. IsMultiple(diff) = assert_limbs_equality(diff, y)
  <2>1. IsMultiple(diff) = IF Bits(k) > n * BitsPerLimb THEN "unsat"
                           ELSE assert_limbs_equality(diff, y)
    BY DEF IsMultiple
  <2>2. Bits(k) \in Nat /\ n * BitsPerLimb \in Nat
    <3> HIDE DEF k, n
    <3>1. \A e, f \in Nat : e * f \in Nat
      OBVIOUS
    <3> QED BY <1>1, <1>2, <3>1, BitsHold
  <2> HIDE DEF k, n, y
  <2> QED BY <1>1, <2>1, <2>2
<1>4. /\ Sized(y) /\ Len(y.limbs) >= 1 /\ y.overflow < max_overflow
      /\ Integer(y) = k * Modulus
  <2> HIDE DEF k, n
  <2> QED BY <1>1, ProductOfQuotient
<1>5. Len(diff.limbs) >= 1
  BY <1>2 DEF Sized
<1>6. assert_limbs_equality(diff, y)
          = IF z = Integer(y) THEN "holds" ELSE "unsat"
  <2> HIDE DEF y
  <2> QED BY <1>4, <1>5, LimbsDecide
<1>7. (z = k * Modulus) <=> (z % Modulus = 0)
  <2>1. z \in Int
    BY <1>1
  <2> HIDE DEF z
  <2>2. /\ z % Modulus \in 0..(Modulus - 1) /\ k \in Int
        /\ z = Modulus * k + (z % Modulus)
    BY ONLY <1>2, <2>1, Remainder DEF k
  <2> DEFINE r == z % Modulus
  <2> HIDE DEF k, r
  <2>3. r \in Int /\ z = Modulus * k + r
    BY <1>2, <2>2 DEF r
  <2>4. \A e, f \in Int : e * f = f * e /\ e * f \in Int
    OBVIOUS
  <2>5. Modulus * k = k * Modulus /\ Modulus * k \in Int
    BY <1>2, <2>2, <2>4
  <2>6. (z = k * Modulus) <=> (r = 0)
    BY ONLY <2>1, <2>3, <2>5
  <2> QED BY <2>6 DEF r
<1> HIDE DEF z, k, n, y
<1> QED BY <1>3, <1>4, <1>6, <1>7 DEF z

(* The difference of two elements with room for one more bit does not wrap *)
(* and is congruent to the difference of the numbers, however it is        *)
(* counted.                                                                *)
LEMMA DifferenceIsExact ==
    ASSUME NEW a, NEW b, Sized(a), Sized(b), IsElement(a), IsElement(b), Long(a),
           ~(IsConstant(a) /\ IsConstant(b)),
           NEW o, o = NextOverflow("sub", a, b), o < max_overflow,
           NEW diff, diff = Compute("sub", a, b)
    PROVE  /\ diff.is = "allocated" /\ diff.overflow = o /\ o \in Nat
           /\ diff.limbs \in Seq(Nat) /\ Len(diff.limbs) >= NumLimbs
           /\ Cong(Integer(diff), Integer(a) - Integer(b))
           /\ \A i \in DOMAIN diff.limbs :
                  diff.limbs[i] <= Base * Pow(2, b.overflow) + (Base - 1)
                                       + Limb(a, i)
<1> DEFINE l == SubLimbs(a, b)
           n == Longest(a, b)
           p == Pow(2, b.overflow)
           q == Pow(2, a.overflow)
           w == Pow(2, max_overflow)
<1>1. /\ Base \in Nat \ {0, 1} /\ max_overflow \in Nat /\ NumLimbs \in Nat
  BY FieldNumbers
<1>2. /\ a.limbs \in Seq(Nat) /\ b.limbs \in Seq(Nat)
      /\ a.overflow \in Nat /\ b.overflow \in Nat
      /\ Len(a.limbs) \in Nat /\ Len(b.limbs) \in Nat /\ Len(a.limbs) >= NumLimbs
      /\ \A i \in DOMAIN a.limbs : a.limbs[i] <= (Base - 1) * q
  BY DEF Sized, Counted, Long
<1>3. /\ o \in Nat /\ a.overflow + 1 <= max_overflow
      /\ b.overflow + 3 <= max_overflow
  <2>1. o = Max({a.overflow, b.overflow + 2})
    BY DEF NextOverflow
  <2>2. o = IF a.overflow < b.overflow + 2 THEN b.overflow + 2 ELSE a.overflow
    <3>1. a.overflow \in Int /\ b.overflow + 2 \in Int
      BY <1>2
    <3>2. Max({a.overflow, b.overflow + 2})
              = IF a.overflow < b.overflow + 2 THEN b.overflow + 2
                                               ELSE a.overflow
      BY ONLY <3>1, MaxOfTwo
    <3> QED BY <2>1, <3>2
  <2> QED BY <1>1, <1>2, <2>2
<1>4. n \in Nat /\ n >= NumLimbs
  <2>1. n = IF Len(a.limbs) < Len(b.limbs) THEN Len(b.limbs) ELSE Len(a.limbs)
    <3>1. Len(a.limbs) \in Int /\ Len(b.limbs) \in Int
      BY <1>2
    <3> QED BY ONLY <3>1, MaxOfTwo DEF Longest
  <2> HIDE DEF n
  <2> QED BY <1>1, <1>2, <2>1
<1>5. /\ l \in Seq(Nat) /\ Len(l) = n
      /\ Cong(recompose(l), Integer(a) - Integer(b))
      /\ \A i \in 1..n : l[i] <= Top(b) + (Base - 1) + Limb(a, i)
      /\ Top(b) = Base * p
  <2> HIDE DEF l
  <2> QED BY <1>2, <1>4, SubLimbsSubtract DEF l
<1>6. /\ p \in Nat \ {0} /\ q \in Nat \ {0} /\ w \in Nat
      /\ 8 * p <= w /\ 2 * q <= w
  <2>1. /\ Pow(2, b.overflow + 1) = 2 * p /\ Pow(2, a.overflow + 1) = 2 * q
        /\ p \in Nat \ {0} /\ q \in Nat \ {0} /\ w \in Nat
    BY <1>1, <1>2, PowersOfTwo
  <2>2. /\ b.overflow + 1 \in Nat /\ b.overflow + 2 \in Nat
        /\ (b.overflow + 1) + 1 = b.overflow + 2
        /\ (b.overflow + 2) + 1 = b.overflow + 3
    BY <1>2
  <2>3. /\ Pow(2, b.overflow + 2) = 2 * Pow(2, b.overflow + 1)
        /\ Pow(2, b.overflow + 3) = 2 * Pow(2, b.overflow + 2)
    BY <2>2, PowersOfTwo
  <2>4. 2 \in Nat \ {0} /\ b.overflow + 3 \in Nat /\ a.overflow + 1 \in Nat
    BY <1>2
  <2>5. Pow(2, b.overflow + 3) <= w /\ Pow(2, a.overflow + 1) <= w
    BY <1>1, <1>3, <2>4, PowerGrows
  <2> QED BY <2>1, <2>3, <2>5
<1>7. \A i \in 1..n : l[i] <= Base * p + (Base - 1) + Limb(a, i)
  BY <1>5
<1>8. \A i \in DOMAIN l : l[i] <= (Base - 1) * w
  <2> SUFFICES ASSUME NEW i \in DOMAIN l
               PROVE  l[i] <= (Base - 1) * w
    OBVIOUS
  <2> DEFINE d == Base - 1
             li == l[i]
             ai == Limb(a, i)
  <2>1. i \in 1..n /\ li \in Nat
    BY <1>5
  <2>2. li <= Base * p + d + ai
    BY <1>7, <2>1
  <2>3. d \in Nat \ {0} /\ Base = d + 1
    BY <1>1
  <2> HIDE DEF d, p, q, w
  <2>4. \A e, f \in Nat : e * f \in Nat
    OBVIOUS
  <2>5. d * q \in Nat /\ ai \in Nat /\ ai <= d * q
    <3>1. d * q \in Nat
      BY <1>6, <2>3, <2>4
    <3>2. CASE i \in DOMAIN a.limbs
      BY <1>2, <3>1, <3>2 DEF Limb, d
    <3>3. CASE i \notin DOMAIN a.limbs
      BY <3>1, <3>3 DEF Limb
    <3> QED BY <3>2, <3>3
  <2>6. \A e \in Nat \ {0}, f \in Nat : (e + 1) * f = e * f + f /\ f <= e * f
                                        /\ e * f \in Nat
    OBVIOUS
  <2>7. Base * p = d * p + p /\ p <= d * p /\ d * p \in Nat
    BY <1>6, <2>3, <2>6
  <2>8. \A e, f, g, h \in Nat : 2 * f + 1 + g <= h =>
            2 * (e * f) + e + e * g <= e * h
    <3>1. \A e, f, g \in Nat : /\ e * (2 * f + 1 + g) = 2 * (e * f) + e + e * g
                               /\ 2 * f + 1 + g \in Nat
      OBVIOUS
    <3>2. \A e, f, g \in Nat : f <= g => e * f <= e * g
      OBVIOUS
    <3> QED BY <3>1, <3>2
  <2>9. 2 * p + 1 + q <= w
    BY <1>6
  <2>10. 2 * (d * p) + d + d * q <= d * w /\ d * w \in Nat
    BY <1>6, <2>3, <2>4, <2>8, <2>9
  <2> HIDE DEF li, ai
  <2>11. li <= d * w
    BY <1>6, <2>1, <2>2, <2>3, <2>5, <2>7, <2>10
  <2> QED BY <2>11 DEF li, d, w
<1>9. diff = Allocated(Wrapped(l), o)
  BY DEF Compute
<1> HIDE DEF l, n
<1>10. Wrapped(l) = l
  <2>1. max_overflow \in Nat /\ max_overflow <= max_overflow /\ l \in Seq(Nat)
    BY <1>1, <1>5
  <2>2. \A i \in DOMAIN l : l[i] <= (Base - 1) * Pow(2, max_overflow)
    BY <1>8
  <2> QED BY ONLY <2>1, <2>2, CountedIsNotWrapped
<1>11. diff.limbs = l /\ diff.overflow = o /\ diff.is = "allocated"
  BY <1>9, <1>10 DEF Allocated
<1>12. DOMAIN l = 1..n
  BY <1>5
<1> QED BY <1>3, <1>4, <1>5, <1>7, <1>11, <1>12 DEF Integer

-------------------------------------------------------------------------------
\* Equality.

(* Remainders are congruent only if they are equal.                        *)
LEMMA RemaindersDiffer ==
    ASSUME NEW m \in 0..(Modulus - 1), NEW n \in 0..(Modulus - 1),
           NEW a \in Int, NEW b \in Int, Cong(a, m), Cong(b, n)
    PROVE  Cong(a, b) <=> (m = n)
<1>1. Modulus \in Nat \ {0}
  BY FieldNumbers
<1>2. m \in Int /\ n \in Int
  BY <1>1
<1>3. Cong(m, m) /\ Cong(n, n) /\ Cong(m, a) /\ Cong(n, b)
  BY <1>2, CongReflexive, CongSymmetric
<1>4. ASSUME m = n PROVE Cong(a, b)
  BY <1>2, <1>3, <1>4, CongTransitive
<1>5. ASSUME Cong(a, b) PROVE m = n
  <2>1. Cong(m, b)
    BY <1>2, <1>3, <1>5, CongTransitive
  <2>2. Cong(m, n)
    BY <1>2, <2>1, CongTransitive
  <2>3. PICK k \in Int : m = n + Modulus * k
    BY <2>2 DEF Cong
  <2>4. \A e \in Nat \ {0}, f \in Int :
            (f >= 1 => e * f >= e) /\ (f <= -1 => e * f <= -e)
            /\ e * f \in Int /\ (f = 0 => e * f = 0)
    OBVIOUS
  <2>5. /\ (k >= 1 => Modulus * k >= Modulus) /\ Modulus * k \in Int
        /\ (k <= -1 => Modulus * k <= -Modulus) /\ (k = 0 => Modulus * k = 0)
    BY <1>1, <2>4
  <2>6. m \in 0..(Modulus - 1) /\ n \in 0..(Modulus - 1)
    OBVIOUS
  <2> QED BY ONLY <1>1, <2>3, <2>5, <2>6
<1> QED BY <1>4, <1>5

(* A number that is congruent to a difference is a multiple of the modulus *)
(* if the two numbers are congruent.                                       *)
LEMMA MultiplesAreDifferences ==
    ASSUME NEW z \in Int, NEW a \in Int, NEW b \in Int, Cong(z, a - b)
    PROVE  (z % Modulus = 0) <=> Cong(a, b)
<1>1. Modulus \in Nat \ {0}
  BY FieldNumbers
<1>2. (z % Modulus = 0) <=> \E k \in Int : z = Modulus * k
  <2>1. z % Modulus \in 0..(Modulus - 1) /\ z \div Modulus \in Int
        /\ z = Modulus * (z \div Modulus) + (z % Modulus)
    BY <1>1, Remainder
  <2> DEFINE r == z % Modulus
             q == z \div Modulus
  <2>2. ASSUME r = 0 PROVE \E k \in Int : z = Modulus * k
    <3>1. q \in Int /\ z = Modulus * q + r
      BY <2>1
    <3> HIDE DEF q, r
    <3>2. \A e, f \in Int : e * f \in Int /\ e * f + 0 = e * f
      OBVIOUS
    <3>3. z = Modulus * q
      BY <1>1, <2>2, <3>1, <3>2
    <3> QED BY <3>1, <3>3
  <2>3. ASSUME NEW k \in Int, z = Modulus * k PROVE r = 0
    <3>1. \A e, f \in Int : e * f \in Int /\ e * f + 0 = e * f
      OBVIOUS
    <3>2. z = Modulus * k + 0 /\ 0 \in 0..(Modulus - 1)
      BY <1>1, <2>3, <3>1
    <3> QED BY ONLY <1>1, <3>2, z \in Int, k \in Int, RemainderIsUnique
  <2> QED BY <2>2, <2>3
<1>3. PICK j \in Int : z = (a - b) + Modulus * j
  BY DEF Cong
<1>4. \A e, f, g \in Int : /\ e * (f - g) = e * f - e * g
                           /\ e * f \in Int /\ e * g \in Int
                           /\ e * (f + g) = e * f + e * g
  OBVIOUS
<1>5. ASSUME NEW k \in Int, z = Modulus * k PROVE Cong(a, b)
  <2>1. /\ Modulus * (k - j) = Modulus * k - Modulus * j
        /\ Modulus * k \in Int /\ Modulus * j \in Int
    BY <1>1, <1>4
  <2>2. a = b + Modulus * (k - j) /\ k - j \in Int
    BY ONLY <1>3, <1>5, <2>1, a \in Int, b \in Int, k \in Int, j \in Int
  <2> QED BY <2>2 DEF Cong
<1>6. ASSUME Cong(a, b) PROVE \E k \in Int : z = Modulus * k
  <2>1. PICK i \in Int : a = b + Modulus * i
    BY <1>6 DEF Cong
  <2>2. /\ Modulus * (i + j) = Modulus * i + Modulus * j
        /\ Modulus * i \in Int /\ Modulus * j \in Int
    BY <1>1, <1>4
  <2>3. z = Modulus * (i + j) /\ i + j \in Int
    BY ONLY <1>3, <2>1, <2>2, a \in Int, b \in Int, i \in Int, j \in Int
  <2> QED BY <2>3
<1> QED BY <1>2, <1>5, <1>6

(* Two elements whose difference is counted and has room for a carry are   *)
(* found equal if they stand for the same number, and only then.           *)
LEMMA ElementsDecide ==
    ASSUME NEW m \in 0..(Modulus - 1), NEW n \in 0..(Modulus - 1),
           NEW a, NEW b, Sound(a, m), Sound(b, n), IsElement(a), IsElement(b),
           Long(a), NextOverflow("sub", a, b) < max_overflow,
           Counted(Compute("sub", a, b))
    PROVE  assert_is_equal(a, b) = IF m = n THEN "holds" ELSE "unsat"
<1>1. Sized(a) /\ Sized(b) /\ Cong(Integer(a), m) /\ Cong(Integer(b), n)
  BY DEF Sound, Keeps
<1>2. Integer(a) \in Int /\ Integer(b) \in Int
  BY <1>1, SoundInteger DEF Sized
<1>3. Cong(Integer(a), Integer(b)) <=> (m = n)
  BY <1>1, <1>2, RemaindersDiffer
<1>4. CASE IsConstant(a) /\ IsConstant(b)
  <2>1. assert_is_equal(a, b) =
            IF Integer(a) % Modulus = Integer(b) % Modulus THEN "holds"
                                                           ELSE "unsat"
    BY <1>4 DEF assert_is_equal
  <2>2. Cong(Integer(a), Integer(b))
            <=> Integer(a) % Modulus = Integer(b) % Modulus
    BY <1>2, CongIsEqualRemainder
  <2> QED BY <1>3, <2>1, <2>2
<1>5. CASE ~(IsConstant(a) /\ IsConstant(b))
  <2> DEFINE diff == Compute("sub", a, b)
             o == NextOverflow("sub", a, b)
  <2>1. /\ diff.is = "allocated" /\ diff.overflow = o /\ o \in Nat
        /\ diff.limbs \in Seq(Nat) /\ Len(diff.limbs) >= NumLimbs
        /\ Cong(Integer(diff), Integer(a) - Integer(b))
    BY <1>1, <1>5, DifferenceIsExact
  <2>2. sub(a, b) = diff
    <3>1. Settle("sub", <<a, b>>) = <<a, b>>
      <4>1. max_overflow \in Nat
        BY FieldNumbers
      <4>2. ~(o > max_overflow)
        <5> HIDE DEF o
        <5> QED BY <2>1, <4>1 DEF o
      <4> QED BY <4>2 DEF Settle
    <3> QED BY <3>1 DEF sub, reduce_and_apply_op, Apply
  <2>3. assert_is_equal(a, b) = IsMultiple(diff)
    BY <1>5, <2>2 DEF assert_is_equal
  <2>4. Sized(diff) /\ IsElement(diff) /\ Integer(diff) \in Int
    <3> HIDE DEF diff
    <3>1. Sized(diff) /\ IsElement(diff)
      BY <2>1 DEF Sized, IsElement, diff
    <3> QED BY <2>1, <3>1, SoundInteger
  <2>5. diff.overflow < max_overflow
    BY <2>1
  <2> HIDE DEF diff, o
  <2>6. IsMultiple(diff)
            = IF Integer(diff) % Modulus = 0 THEN "holds" ELSE "unsat"
    BY <2>1, <2>4, <2>5, IsMultipleDecides
  <2>7. (Integer(diff) % Modulus = 0) <=> Cong(Integer(a), Integer(b))
    BY <1>2, <2>1, <2>4, MultiplesAreDifferences
  <2> QED BY <1>3, <2>3, <2>6, <2>7
<1> QED BY <1>4, <1>5

(***************************************************************************)
(* Two elements of a circuit, whatever operations and reductions made      *)
(* their limbs, are asserted equal exactly if they stand for the same      *)
(* number, if their difference is counted right and has room for a carry:  *)
(* the grouping of limbs, the carries and their offsets, and the number of *)
(* limbs of the quotient lose nothing (assert_is_equal,                    *)
(* assert_limbs_equality, compute_quotient).                               *)
(***************************************************************************)
THEOREM EqualityDecidesCorrect == Spec => []EqualityDecides
<1>1. Inv /\ LongInv => EqualityDecides
  <2> SUFFICES ASSUME Inv, LongInv, NEW r \in Reg, NEW s \in Reg,
                      IsElement(reg[r]), IsElement(reg[s]),
                      NextOverflow("sub", reg[r], reg[s]) < max_overflow,
                      Counted(Compute("sub", reg[r], reg[s]))
               PROVE  assert_is_equal(reg[r], reg[s]) =
                          IF value[r] = value[s] THEN "holds" ELSE "unsat"
    BY DEF EqualityDecides
  <2>1. /\ value[r] \in 0..(Modulus - 1) /\ value[s] \in 0..(Modulus - 1)
        /\ Sound(reg[r], value[r]) /\ Sound(reg[s], value[s])
    BY DEF Inv
  <2>2. Long(reg[r])
    BY DEF LongInv
  <2> QED BY <2>1, <2>2, ElementsDecide
<1> QED BY <1>1, InvHolds, LongHolds, PTL

-------------------------------------------------------------------------------
\* The relation.

(* An element that was just allocated with all of its limbs.               *)
Fresh(x) ==
    /\ x.is = "allocated" /\ Sized(x) /\ x.overflow = 0
    /\ Len(x.limbs) = NumLimbs

(* The operations on elements with no limb above a bound.                  *)
Within(x, u) ==
    /\ x.is = "allocated" /\ x.limbs \in Seq(Nat)
    /\ \A i \in DOMAIN x.limbs : x.limbs[i] <= u

ProductOverflow == BitsPerLimb + CeilLog2(NumLimbs)

(* The product of two new elements is neither reduced nor folded, and has  *)
(* limbs that are sums of NumLimbs products.                               *)
LEMMA FreshProduct ==
    ASSUME NEW a, NEW b, Fresh(a), Fresh(b), ~mersenne
    PROVE  /\ mul(a, b).overflow = ProductOverflow
           /\ Within(mul(a, b), NumLimbs * ((Base - 1) * (Base - 1)))
<1> DEFINE o == NextOverflow("mul", a, b)
           l == MulLimbs(a, b)
           x == Compute("mul", a, b)
<1>1. /\ Base \in Nat \ {0, 1} /\ max_overflow \in Nat /\ NumLimbs \in Nat \ {0, 1}
      /\ BitsPerLimb \in Nat /\ BitsPerLimb + CeilLog2(NumLimbs) < max_overflow
  BY FieldNumbers
<1>2. /\ Sized(a) /\ Sized(b) /\ Len(a.limbs) = NumLimbs /\ Len(b.limbs) = NumLimbs
      /\ a.overflow = 0 /\ b.overflow = 0 /\ a.is = "allocated"
      /\ b.is = "allocated" /\ a.limbs \in Seq(Nat) /\ b.limbs \in Seq(Nat)
  BY DEF Fresh, Sized
<1>3. o = ProductOverflow /\ o \in Nat /\ o <= max_overflow
  <2>1. Min({NumLimbs, NumLimbs}) = NumLimbs
    BY <1>1, MinOfTwo
  <2>2. CeilLog2(NumLimbs) \in Nat
    BY <1>1, CeilLog2Holds
  <2>3. o = BitsPerLimb + 0 + 0 + CeilLog2(NumLimbs)
    BY <1>2, <2>1 DEF NextOverflow
  <2> QED BY <1>1, <2>2, <2>3 DEF ProductOverflow
<1>4. reduce_and_apply_op("mul", a, b) = x
  <2>1. ~(o > max_overflow)
    <3> HIDE DEF o
    <3> QED BY <1>1, <1>3
  <2>2. Settle("mul", <<a, b>>) = <<a, b>>
    BY <2>1 DEF Settle
  <2> QED BY <2>2 DEF reduce_and_apply_op, Apply
<1>5. x = Allocated(Wrapped(l), o)
  BY <1>2 DEF Compute, IsElement, IsConstant
<1>6. l \in Seq(Nat) /\ Len(l) = NumLimbs + NumLimbs - 1
  <2>1. Len(a.limbs) >= 1 /\ Len(b.limbs) >= 1
    BY <1>1, <1>2
  <2> QED BY <1>2, <2>1, MulLimbsMultiply
<1>7. \A i \in DOMAIN l : l[i] <= (Base - 1) * Pow(2, o)
  <2>1. Len(a.limbs) >= 1 /\ Len(b.limbs) >= 1
    BY <1>1, <1>2
  <2> QED BY <1>2, <2>1, MulIsCounted
<1>8. Wrapped(l) = l
  <2> HIDE DEF l, o
  <2> QED BY <1>3, <1>6, <1>7, CountedIsNotWrapped
<1>9. \A i \in DOMAIN l : l[i] <= NumLimbs * ((Base - 1) * (Base - 1))
  <2> SUFFICES ASSUME NEW i \in DOMAIN l
               PROVE  l[i] <= NumLimbs * ((Base - 1) * (Base - 1))
    OBVIOUS
  <2>1. /\ Pow(2, 0) = 1 /\ Base - 1 \in Nat /\ (Base - 1) * 1 = Base - 1
    BY <1>1, PowersOfTwo
  <2>2. /\ \A j \in DOMAIN a.limbs : a.limbs[j] <= Base - 1
        /\ \A j \in DOMAIN b.limbs : b.limbs[j] <= Base - 1
    BY <1>2, <2>1 DEF Sized, Counted
  <2>3. i \in 1..(NumLimbs + NumLimbs - 1)
    <3> HIDE DEF l
    <3> QED BY <1>6
  <2>4. i \in Nat
    BY <1>1, <2>3
  <2>5. SumTo(Products(a, b, i), Len(a.limbs))
            <= Len(a.limbs) * ((Base - 1) * (Base - 1))
    BY ONLY <1>2, <2>1, <2>2, <2>4, ProductsAreCounted
  <2>6. l[i] = SumTo(Products(a, b, i), Len(a.limbs))
    BY <1>2, <2>3 DEF MulLimbs, Products
  <2> QED BY <1>2, <2>5, <2>6
<1>10. mul(a, b) = Allocated(l, o)
  BY <1>4, <1>5, <1>8 DEF mul, fold_limbs
<1>11. mul(a, b).limbs = l /\ mul(a, b).overflow = o /\ mul(a, b).is = "allocated"
  BY <1>10 DEF Allocated
<1> HIDE DEF l, o
<1> QED BY <1>3, <1>6, <1>9, <1>11 DEF Within

(* A sum that has room is not reduced.                                     *)
LEMMA RoomySum ==
    ASSUME NEW a, NEW b, Sized(a), Sized(b), NEW u \in Nat, NEW v \in Nat,
           Within(a, u), Within(b, v),
           NEW o, o = NextOverflow("add", a, b), o <= max_overflow
    PROVE  add(a, b).overflow = o /\ Within(add(a, b), u + v)
<1> DEFINE l == AddLimbs(a, b)
           x == Compute("add", a, b)
<1>1. max_overflow \in Nat
  BY FieldNumbers
<1>2. /\ a.limbs \in Seq(Nat) /\ b.limbs \in Seq(Nat)
      /\ a.overflow \in Nat /\ b.overflow \in Nat
      /\ a.is = "allocated" /\ b.is = "allocated"
  BY DEF Sized, Within
<1>3. o \in Nat
  <2>1. o = Max({a.overflow, b.overflow}) + 1
    BY DEF NextOverflow
  <2>2. Max({a.overflow, b.overflow})
            = IF a.overflow < b.overflow THEN b.overflow ELSE a.overflow
    BY <1>2, MaxOfTwo
  <2> QED BY <1>2, <2>1, <2>2
<1>4. add(a, b) = x
  <2>1. ~(NextOverflow("add", a, b) > max_overflow)
    BY <1>1, <1>3
  <2>2. Settle("add", <<a, b>>) = <<a, b>>
    BY <2>1 DEF Settle
  <2> QED BY <2>2 DEF add, reduce_and_apply_op, Apply
<1>5. x = Allocated(Wrapped(l), o)
  BY <1>2 DEF Compute, IsElement, IsConstant
<1>6. l \in Seq(Nat) /\ Len(l) = Longest(a, b)
  BY <1>2, AddLimbsAdd
<1>7. \A i \in DOMAIN l : l[i] <= (Base - 1) * Pow(2, o)
  BY AddIsCounted
<1>8. Wrapped(l) = l
  <2> HIDE DEF l
  <2> QED BY <1>3, <1>6, <1>7, CountedIsNotWrapped
<1>9. \A i \in DOMAIN l : l[i] <= u + v
  <2> SUFFICES ASSUME NEW i \in DOMAIN l
               PROVE  l[i] <= u + v
    OBVIOUS
  <2>1. i \in 1..Longest(a, b)
    <3> HIDE DEF l
    <3> QED BY <1>6
  <2>2. l[i] = Limb(a, i) + Limb(b, i)
    BY <2>1 DEF AddLimbs
  <2>3. Limb(a, i) \in Nat /\ Limb(a, i) <= u
    BY <1>2 DEF Limb, Within
  <2>4. Limb(b, i) \in Nat /\ Limb(b, i) <= v
    BY <1>2 DEF Limb, Within
  <2> HIDE DEF l
  <2> QED BY <2>2, <2>3, <2>4
<1>10. /\ add(a, b).limbs = l /\ add(a, b).overflow = o
       /\ add(a, b).is = "allocated"
  BY <1>4, <1>5, <1>8 DEF Allocated
<1> HIDE DEF l
<1> QED BY <1>6, <1>9, <1>10 DEF Within

(* Room for the two sums of the relation, and a carry.                     *)
RelationHasRoom == ProductOverflow + 2 < max_overflow

Relation(q0, q1, e1, e2, z) == add(q0, add(mul(e1, q1), mul(e2, z)))

(* No limb of the relation's sum is more than one of the two products'     *)
(* and a new one.                                                          *)
LEMMA RelationIsWithin ==
    ASSUME NEW q0, NEW q1, NEW e1, NEW e2, NEW z,
           Fresh(q0), Fresh(q1), Fresh(e1), Fresh(e2), Fresh(z), ~mersenne,
           RelationHasRoom,
           Sized(mul(e1, q1)), Sized(mul(e2, z)),
           Sized(add(mul(e1, q1), mul(e2, z))),
           NEW p, p = NumLimbs * ((Base - 1) * (Base - 1))
    PROVE  /\ p \in Nat /\ ProductOverflow \in Nat
           /\ Relation(q0, q1, e1, e2, z).overflow = ProductOverflow + 2
           /\ Within(Relation(q0, q1, e1, e2, z), (Base - 1) + (p + p))
<1> DEFINE x == mul(e1, q1)
           y == mul(e2, z)
           s == add(x, y)
           u == NumLimbs * ((Base - 1) * (Base - 1))
           o == ProductOverflow
<1>1. /\ Base \in Nat \ {0, 1} /\ max_overflow \in Nat /\ NumLimbs \in Nat \ {0, 1}
      /\ BitsPerLimb \in Nat
  BY FieldNumbers
<1>2. o \in Nat /\ o + 2 < max_overflow
  <2>1. CeilLog2(NumLimbs) \in Nat
    BY <1>1, CeilLog2Holds
  <2> QED BY <1>1, <2>1 DEF ProductOverflow, RelationHasRoom
<1>3. u \in Nat /\ p = u
  <2>1. \A e, f \in Nat : e * f \in Nat
    OBVIOUS
  <2>2. Base - 1 \in Nat /\ NumLimbs \in Nat
    BY <1>1
  <2>3. (Base - 1) * (Base - 1) \in Nat
    BY ONLY <2>1, <2>2
  <2>4. u \in Nat
    BY ONLY <2>1, <2>2, <2>3
  <2> QED BY <2>4
<1>4. x.overflow = o /\ Within(x, u) /\ y.overflow = o /\ Within(y, u)
  BY FreshProduct
<1> HIDE DEF x, y, u, o
<1>5. s.overflow = o + 1 /\ Within(s, u + u)
  <2>1. NextOverflow("add", x, y) = o + 1
    <3>1. Max({o, o}) = o
      BY <1>2, MaxOfTwo
    <3> QED BY <1>4, <3>1 DEF NextOverflow
  <2>2. o + 1 <= max_overflow
    BY <1>1, <1>2
  <2>3. Sized(x) /\ Sized(y)
    BY DEF x, y
  <2> QED BY <1>3, <1>4, <2>1, <2>2, <2>3, RoomySum
<1>6. Sized(s)
  BY DEF x, y
<1>7. Within(q0, Base - 1) /\ Sized(q0) /\ q0.overflow = 0
  <2>1. /\ q0.is = "allocated" /\ Sized(q0) /\ q0.overflow = 0
        /\ q0.limbs \in Seq(Nat)
    BY DEF Fresh, Sized
  <2>2. Pow(2, 0) = 1 /\ (Base - 1) * 1 = Base - 1
    BY <1>1, PowersOfTwo
  <2>3. \A i \in DOMAIN q0.limbs : q0.limbs[i] <= Base - 1
    BY <2>1, <2>2 DEF Sized, Counted
  <2> QED BY <2>1, <2>3 DEF Within
<1> HIDE DEF s
<1>8. NextOverflow("add", q0, s) = o + 2
  <2>1. Max({0, o + 1}) = o + 1
    <3>1. 0 \in Int /\ o + 1 \in Int /\ 0 < o + 1
      BY <1>2
    <3> QED BY ONLY <3>1, MaxOfTwo
  <2> QED BY <1>2, <1>5, <1>7, <2>1 DEF NextOverflow
<1>9. add(q0, s).overflow = o + 2 /\ Within(add(q0, s), (Base - 1) + (u + u))
  <2>1. o + 2 <= max_overflow /\ Base - 1 \in Nat /\ u + u \in Nat
    BY <1>1, <1>2, <1>3
  <2> QED BY <1>5, <1>6, <1>7, <1>8, <2>1, RoomySum
<1>10. add(q0, s) = Relation(q0, q1, e1, e2, z)
  BY DEF Relation, s, x, y
<1> QED BY <1>2, <1>3, <1>9, <1>10 DEF o

(* The relation's two sides have a difference that is counted right, and   *)
(* has room for a carry.                                                   *)
LEMMA RelationIsCounted ==
    ASSUME NEW t, NEW m, Sized(t), Long(t), Fresh(m),
           NEW p, p = NumLimbs * ((Base - 1) * (Base - 1)),
           t.overflow = ProductOverflow + 2, Within(t, (Base - 1) + (p + p)),
           RelationHasRoom
    PROVE  /\ NextOverflow("sub", t, m) < max_overflow
           /\ Counted(Compute("sub", t, m))
<1> DEFINE o == ProductOverflow
           diff == Compute("sub", t, m)
           k == CeilLog2(NumLimbs)
           d == Base - 1
<1>1. /\ Base \in Nat \ {0, 1} /\ max_overflow \in Nat /\ NumLimbs \in Nat \ {0, 1}
      /\ BitsPerLimb \in Nat
  BY FieldNumbers
<1>2. k \in Nat /\ NumLimbs <= Pow(2, k) /\ Pow(2, k) \in Nat \ {0}
  BY <1>1, CeilLog2Holds, PowersOfTwo
<1>3. o = BitsPerLimb + k /\ o \in Nat /\ o + 2 < max_overflow
  BY <1>1, <1>2 DEF ProductOverflow, RelationHasRoom
<1>4. /\ m.is = "allocated" /\ Sized(m) /\ m.overflow = 0 /\ t.is = "allocated"
      /\ t.limbs \in Seq(Nat)
  BY DEF Fresh, Within
<1>5. NextOverflow("sub", t, m) = o + 2
  <2>1. NextOverflow("sub", t, m) = Max({o + 2, 0 + 2})
    BY <1>4 DEF NextOverflow
  <2>2. o + 2 \in Int /\ 0 + 2 \in Int /\ ~(o + 2 < 0 + 2)
    BY <1>3
  <2>3. Max({o + 2, 0 + 2}) = o + 2
    BY ONLY <2>2, MaxOfTwo
  <2> QED BY <2>1, <2>3
<1>6. /\ diff.overflow = o + 2
      /\ \A i \in DOMAIN diff.limbs :
             diff.limbs[i] <= Base * Pow(2, m.overflow) + d + Limb(t, i)
      /\ diff.limbs \in Seq(Nat)
  <2>1. NextOverflow("sub", t, m) < max_overflow
    BY <1>3, <1>5
  <2>2. IsElement(t) /\ IsElement(m) /\ ~(IsConstant(t) /\ IsConstant(m))
    BY <1>4 DEF IsElement, IsConstant
  <2> HIDE DEF diff
  <2> QED BY <1>4, <1>5, <2>1, <2>2, DifferenceIsExact DEF diff
<1>7. Pow(2, o + 2) = 4 * (Base * Pow(2, k))
  <2>1. Pow(2, o) = Base * Pow(2, k)
    BY <1>1, <1>2, <1>3, PowerSum DEF Base
  <2>2. /\ o + 1 \in Nat /\ (o + 1) + 1 = o + 2
    BY <1>3
  <2>3. /\ Pow(2, o + 1) = 2 * Pow(2, o) /\ Pow(2, o + 2) = 2 * Pow(2, o + 1)
        /\ Pow(2, o) \in Nat
    BY <1>3, <2>2, PowersOfTwo
  <2>4. Pow(2, o + 2) = 4 * Pow(2, o)
    BY <2>3
  <2> QED BY <2>1, <2>4
<1>8. \A i \in DOMAIN diff.limbs : diff.limbs[i] <= (Base - 1) * Pow(2, o + 2)
  <2> SUFFICES ASSUME NEW i \in DOMAIN diff.limbs
               PROVE  diff.limbs[i] <= (Base - 1) * Pow(2, o + 2)
    OBVIOUS
  <2> DEFINE li == diff.limbs[i]
             ti == Limb(t, i)
             w == Pow(2, k)
             h == d * d
  <2>1. li \in Nat /\ li <= Base * 1 + d + ti
    <3>1. Pow(2, m.overflow) = 1
      BY <1>4, PowersOfTwo
    <3> HIDE DEF diff
    <3> QED BY <1>6, <3>1
  <2>2. d \in Nat \ {0} /\ Base = d + 1
    BY <1>1
  <2> HIDE DEF d, w
  <2>3. \A e, f \in Nat : e * f \in Nat
    OBVIOUS
  <2>4. h \in Nat /\ NumLimbs * h \in Nat /\ p = NumLimbs * h
    <3>1. h \in Nat
      BY <2>2, <2>3
    <3>2. p = NumLimbs * h
      BY DEF d
    <3> HIDE DEF h
    <3> QED BY <1>1, <2>3, <3>1, <3>2
  <2> HIDE DEF h
  <2>5. ti \in Nat /\ ti <= d + (p + p)
    BY <1>4, <2>2, <2>4 DEF Limb, Within, d
  <2> HIDE DEF li, ti
  <2>6. NumLimbs * h <= w * h /\ w * h \in Nat /\ w \in Nat \ {0}
    <3>1. \A e, f, g \in Nat : e <= f => e * g <= f * g /\ f * g \in Nat
      OBVIOUS
    <3> QED BY <1>1, <1>2, <2>4, <3>1 DEF w
  <2>7. d * (4 * (Base * w)) = 4 * (w * h) + 4 * (d * w)
    <3>1. \A e, f \in Nat : e * (4 * ((e + 1) * f)) = 4 * (f * (e * e)) + 4 * (e * f)
      OBVIOUS
    <3> QED BY <2>2, <2>6, <3>1 DEF h
  <2>8. d <= d * w /\ d * w \in Nat
    <3>1. \A e \in Nat, f \in Nat \ {0} : e <= e * f /\ e * f \in Nat
      OBVIOUS
    <3> QED BY <2>2, <2>6, <3>1
  <2>9. li <= d * (4 * (Base * w))
    <3> DEFINE nh == NumLimbs * h
               wh == w * h
               dw == d * w
               all == d * (4 * (Base * w))
    <3>1. /\ nh \in Nat /\ p = nh /\ nh <= wh /\ wh \in Nat /\ dw \in Nat
          /\ d <= dw /\ all = 4 * wh + 4 * dw
      BY <2>4, <2>6, <2>7, <2>8
    <3> HIDE DEF nh, wh, dw, all
    <3>2. li <= all
      BY ONLY <2>1, <2>2, <2>5, <3>1
    <3> QED BY <3>2 DEF all
  <2> QED BY <1>7, <2>9 DEF li, d, w
<1> HIDE DEF diff
<1> QED BY <1>3, <1>5, <1>6, <1>8 DEF Counted, diff

(* A number that fits is allocated as a new element.                       *)
LEMMA AllocateIsFresh ==
    ASSUME NEW n \in Nat, n < Pow(Base, NumLimbs), NEW m \in Int, Cong(n, m)
    PROVE  /\ Sound(Allocate(n), m) /\ Fresh(Allocate(n)) /\ Long(Allocate(n))
           /\ IsElement(Allocate(n))
<1>1. /\ Sound(Allocate(n), m) /\ Allocate(n).overflow = 0
      /\ IsElement(Allocate(n)) /\ Len(Allocate(n).limbs) = NumLimbs
  BY AllocateIsSound
<1>2. Allocate(n).is = "allocated"
  BY DEF Allocate, Allocated
<1>3. NumLimbs \in Nat
  BY FieldNumbers
<1> HIDE DEF Allocate
<1> QED BY <1>1, <1>2, <1>3, FreshIsLong DEF Fresh, Sound

(* The modulus is not one: a number is not congruent to the next.          *)
LEMMA NextIsNotCongruent ==
    ASSUME NEW n \in Int
    PROVE  ~Cong(n, n + 1) /\ Cong(n, n + 0)
<1>1. E \in Nat /\ E - 1 \in Nat \ {0} /\ Pow(2, E) = 2 * Pow(2, E - 1)
      /\ Pow(2, E - 1) \in Nat \ {0} /\ E - 1 < Pow(2, E - 1)
  <2>1. E \in ((NumLimbs - 1) * BitsPerLimb + 1)..(NumLimbs * BitsPerLimb)
    BY FieldAssumption
  <2>2. BitsPerLimb \in Nat \ {0} /\ NumLimbs - 1 \in Nat \ {0} /\ E \in Nat \ {0}
    BY FieldNumbers
  <2>3. \A e, f \in Nat \ {0} : e * f \in Nat \ {0}
    OBVIOUS
  <2>4. (NumLimbs - 1) * BitsPerLimb \in Nat \ {0}
    BY ONLY <2>2, <2>3
  <2> DEFINE g == (NumLimbs - 1) * BitsPerLimb
             h == NumLimbs * BitsPerLimb
  <2>5. g \in Nat \ {0} /\ E \in (g + 1)..h
    BY <2>1, <2>4
  <2> HIDE DEF g, h
  <2>6. E - 1 \in Nat \ {0} /\ (E - 1) + 1 = E
    BY <2>2, <2>5
  <2> QED BY <2>2, <2>6, PowersOfTwo
<1>2. Modulus \in Nat /\ Modulus >= 2
  <2>1. C \in 1..Pow(2, E - 1)
    BY FieldAssumption
  <2>2. Pow(2, E - 1) >= 2
    BY <1>1
  <2> QED BY <1>1, <2>1, <2>2 DEF Modulus
<1>3. ASSUME Cong(n, n + 1) PROVE FALSE
  <2>1. PICK k \in Int : n = (n + 1) + Modulus * k
    BY <1>3 DEF Cong
  <2>2. \A e \in Nat, f \in Int :
            e >= 2 => e * f \in Int /\ (f <= -1 => e * f <= -2)
                      /\ (f >= 0 => e * f >= 0)
    OBVIOUS
  <2>3. /\ Modulus * k \in Int /\ (k <= -1 => Modulus * k <= -2)
        /\ (k >= 0 => Modulus * k >= 0)
    BY <1>2, <2>2
  <2> QED BY ONLY <2>1, <2>3, n \in Int, k \in Int
<1>4. Cong(n, n + 0)
  BY CongReflexive
<1> QED BY <1>3, <1>4

(* The relation's sum, as an element, stands for the sum of the numbers.   *)
LEMMA RelationIsSound ==
    ASSUME NEW q0, NEW q1, NEW e1, NEW e2, NEW z,
           NEW n0 \in Int, NEW n1 \in Int, NEW f1 \in Int, NEW f2 \in Int,
           NEW nz \in Int,
           Sound(q0, n0), Sound(q1, n1), Sound(e1, f1), Sound(e2, f2),
           Sound(z, nz), Long(q0)
    PROVE  /\ f1 * n1 + f2 * nz \in Int
           /\ Sound(Relation(q0, q1, e1, e2, z), n0 + (f1 * n1 + f2 * nz))
           /\ Long(Relation(q0, q1, e1, e2, z))
           /\ Sized(mul(e1, q1)) /\ Sized(mul(e2, z))
           /\ Sized(add(mul(e1, q1), mul(e2, z)))
<1> DEFINE x == mul(e1, q1)
           y == mul(e2, z)
           s == add(x, y)
<1>1. \A e, f \in Int : e * f \in Int
  OBVIOUS
<1>2. f1 * n1 \in Int /\ f2 * nz \in Int
  BY <1>1
<1>3. Sound(x, f1 * n1) /\ Sound(y, f2 * nz)
  BY OperationsAreSound
<1> HIDE DEF x, y
<1>4. Sound(s, f1 * n1 + f2 * nz) /\ f1 * n1 + f2 * nz \in Int
  BY <1>2, <1>3, OperationsAreSound
<1> HIDE DEF s
<1>5. Sound(add(q0, s), n0 + (f1 * n1 + f2 * nz)) /\ Long(add(q0, s))
  BY <1>4, OperationsAreSound, OperationsAreLong
<1>6. add(q0, s) = Relation(q0, q1, e1, e2, z)
  BY DEF Relation, s, x, y
<1> QED BY <1>3, <1>4, <1>5, <1>6 DEF Sound, s, x, y

(* A new element and its number, and the result of a relation of them.     *)
Operand(x, n) == n \in Int /\ Sound(x, n) /\ Fresh(x)

ResultOf(m, n0, n1, f1, f2, nz, wrong) ==
    m \in Int /\ m = n0 + (f1 * n1 + f2 * nz) + wrong

(* The relation of new elements is satisfied by its result, and not by the *)
(* next number.                                                            *)
LEMMA RelationDecides ==
    ASSUME NEW q0, NEW q1, NEW e1, NEW e2, NEW z,
           NEW n0, NEW n1, NEW f1, NEW f2, NEW nz,
           Operand(q0, n0), Operand(q1, n1), Operand(e1, f1), Operand(e2, f2),
           Operand(z, nz), Long(q0), ~mersenne, RelationHasRoom,
           NEW wrong \in {0, 1}, NEW m,
           ResultOf(m, n0, n1, f1, f2, nz, wrong)
    PROVE  enforce_m_valid(q0, q1, e1, e2, z, Allocate(m % Modulus))
               = IF wrong = 0 THEN "holds" ELSE "unsat"
<1> DEFINE t == Relation(q0, q1, e1, e2, z)
           sum == n0 + (f1 * n1 + f2 * nz)
           p == NumLimbs * ((Base - 1) * (Base - 1))
           r == m % Modulus
<1>1. /\ f1 * n1 + f2 * nz \in Int /\ Sound(t, sum) /\ Long(t)
      /\ Sized(mul(e1, q1)) /\ Sized(mul(e2, z))
      /\ Sized(add(mul(e1, q1), mul(e2, z)))
  BY RelationIsSound DEF Operand
<1>2. t.overflow = ProductOverflow + 2 /\ Within(t, (Base - 1) + (p + p))
  BY <1>1, RelationIsWithin DEF Operand
<1>3. sum \in Int /\ m = sum + wrong /\ m \in Int
  BY <1>1 DEF Operand, ResultOf
<1> HIDE DEF t, sum, p
<1>4. /\ Modulus \in Nat \ {0} /\ Modulus < Pow(Base, NumLimbs)
      /\ Pow(Base, NumLimbs) \in Nat
  BY FieldNumbers, PowersOfBase
<1>5. r \in 0..(Modulus - 1) /\ Cong(r, m)
  BY <1>3, CongRemainder
<1>6. sum % Modulus \in 0..(Modulus - 1) /\ Cong(sum % Modulus, sum)
  BY <1>3, CongRemainder
<1> HIDE DEF r
<1>7. /\ Sound(Allocate(r), r) /\ Fresh(Allocate(r)) /\ IsElement(Allocate(r))
  <2>1. r \in Nat /\ r \in Int /\ r < Pow(Base, NumLimbs)
    BY <1>4, <1>5
  <2> QED BY <2>1, AllocateIsFresh, CongReflexive
<1>8. Sound(t, sum % Modulus) /\ IsElement(t) /\ Sized(t)
  <2>1. Cong(sum, sum % Modulus) /\ sum % Modulus \in Int
    BY <1>3, <1>4, <1>6, CongSymmetric
  <2>2. Sound(t, sum % Modulus)
    BY <1>1, <1>3, <2>1, SoundCongruent
  <2> QED BY <1>2, <2>2 DEF Sound, Within, IsElement
<1>9. /\ NextOverflow("sub", t, Allocate(r)) < max_overflow
      /\ Counted(Compute("sub", t, Allocate(r)))
  BY <1>1, <1>2, <1>7, <1>8, RelationIsCounted DEF p
<1>10. assert_is_equal(t, Allocate(r))
           = IF sum % Modulus = r THEN "holds" ELSE "unsat"
  <2> DEFINE v == sum % Modulus
  <2>1. v \in 0..(Modulus - 1) /\ Sound(t, v)
    BY <1>6, <1>8
  <2> HIDE DEF v
  <2>2. assert_is_equal(t, Allocate(r)) = IF v = r THEN "holds" ELSE "unsat"
    BY <1>1, <1>5, <1>7, <1>8, <1>9, <2>1, ElementsDecide
  <2> QED BY <2>2 DEF v
<1>11. (sum % Modulus = r) <=> (wrong = 0)
  <2>1. (sum % Modulus = r) <=> Cong(sum, m)
    BY <1>3, CongIsEqualRemainder DEF r
  <2>2. ~Cong(sum, sum + 1) /\ Cong(sum, sum + 0)
    BY <1>3, NextIsNotCongruent
  <2> QED BY <1>3, <2>1, <2>2
<1>12. enforce_m_valid(q0, q1, e1, e2, z, Allocate(r))
           = assert_is_equal(t, Allocate(r))
  BY DEF enforce_m_valid, t, Relation
<1> QED BY <1>10, <1>11, <1>12 DEF r

(***************************************************************************)
(* The circuit of the device signature proof accepts the m of its relation *)
(* and no other number next to it, whatever numbers that fit in the limbs  *)
(* q0, q1 and z are, where the two sums can be made without a reduction    *)
(* (enforce_m_valid; 16 limbs of 16 bits in a field of more than 40 bits). *)
(***************************************************************************)
THEOREM RelationIsDecidedCorrect ==
    ASSUME RelationHasRoom
    PROVE  Spec => []RelationIsDecided
<1>1. Inv /\ LongInv => RelationIsDecided
  <2> SUFFICES ASSUME Inv, LongInv, step = 0, ~mersenne,
                      NEW q0 \in Reg, NEW q1 \in Reg,
                      NEW e1 \in Inputs, NEW e2 \in Inputs, NEW z \in Inputs,
                      NEW wrong \in {0, 1},
                      NEW m, m = value[q0] + value[q1] * e1 + z * e2 + wrong
               PROVE  enforce_m_valid(Allocate(Integer(reg[q0])),
                                      Allocate(Integer(reg[q1])),
                                      Allocate(e1 % Modulus),
                                      Allocate(e2 % Modulus),
                                      Allocate(z), Allocate(m % Modulus))
                          = IF wrong = 0 THEN "holds" ELSE "unsat"
    BY DEF RelationIsDecided
  <2>1. /\ Modulus \in Nat \ {0} /\ Modulus < Pow(Base, NumLimbs)
        /\ Pow(Base, NumLimbs) \in Nat
    BY FieldNumbers, PowersOfBase
  <2>2. \A r \in Reg : /\ Integer(reg[r]) \in Nat
                       /\ Integer(reg[r]) < Pow(Base, NumLimbs)
                       /\ value[r] \in Int /\ Cong(Integer(reg[r]), value[r])
    <3> SUFFICES ASSUME NEW r \in Reg
                 PROVE  /\ Integer(reg[r]) \in Nat
                        /\ Integer(reg[r]) < Pow(Base, NumLimbs)
                        /\ value[r] \in Int
                        /\ Cong(Integer(reg[r]), value[r])
      OBVIOUS
    <3>1. value[r] \in 0..(Modulus - 1) /\ Sound(reg[r], value[r])
      BY DEF Inv
    <3>2. /\ IsElement(reg[r]) /\ Integer(reg[r]) \in Nat
          /\ Integer(reg[r]) < Pow(Base, NumLimbs)
      BY DEF LongInv
    <3>3. value[r] \in Int
      BY <2>1, <3>1
    <3> QED BY <3>1, <3>2, <3>3 DEF Sound, Keeps
  <2>3. \A n \in Inputs : n \in Nat /\ n < Pow(Base, NumLimbs)
    BY <2>1, InputAssumption
  <2>4. \A n \in Inputs : /\ n % Modulus \in Nat /\ Cong(n % Modulus, n)
                          /\ n % Modulus < Pow(Base, NumLimbs)
    <3> SUFFICES ASSUME NEW n \in Inputs
                 PROVE  /\ n % Modulus \in Nat /\ Cong(n % Modulus, n)
                        /\ n % Modulus < Pow(Base, NumLimbs)
      OBVIOUS
    <3>1. n \in Int
      BY <2>3
    <3>2. n % Modulus \in 0..(Modulus - 1) /\ Cong(n % Modulus, n)
      BY <3>1, CongRemainder
    <3> DEFINE r == n % Modulus
    <3>3. r \in 0..(Modulus - 1) /\ Cong(r, n)
      BY <3>2
    <3> HIDE DEF r
    <3>4. r \in Nat /\ Cong(r, n) /\ r < Pow(Base, NumLimbs)
      BY <2>1, <3>3
    <3> QED BY <3>4 DEF r
  <2>5. \A r \in Reg : /\ Sound(Allocate(Integer(reg[r])), value[r])
                       /\ Fresh(Allocate(Integer(reg[r])))
                       /\ Long(Allocate(Integer(reg[r])))
    BY <2>2, AllocateIsFresh
  <2>6. \A n \in Inputs : /\ Sound(Allocate(n % Modulus), n)
                          /\ Fresh(Allocate(n % Modulus))
                          /\ Sound(Allocate(n), n) /\ Fresh(Allocate(n))
    <3> SUFFICES ASSUME NEW n \in Inputs
                 PROVE  /\ Sound(Allocate(n % Modulus), n)
                        /\ Fresh(Allocate(n % Modulus))
                        /\ Sound(Allocate(n), n) /\ Fresh(Allocate(n))
      OBVIOUS
    <3>1. n \in Int /\ n \in Nat /\ n < Pow(Base, NumLimbs)
      BY <2>3
    <3>2. Sound(Allocate(n), n) /\ Fresh(Allocate(n))
      BY <3>1, CongReflexive, AllocateIsFresh
    <3> DEFINE r == n % Modulus
    <3>3. r \in Nat /\ Cong(r, n) /\ r < Pow(Base, NumLimbs)
      BY <2>4
    <3> HIDE DEF r
    <3>4. Sound(Allocate(r), n) /\ Fresh(Allocate(r))
      BY <3>1, <3>3, AllocateIsFresh
    <3> QED BY <3>2, <3>4 DEF r
  <2> DEFINE v0 == value[q0]
             v1 == value[q1]
             a == Allocate(Integer(reg[q0]))
             b == Allocate(Integer(reg[q1]))
             c == Allocate(e1 % Modulus)
             f == Allocate(e2 % Modulus)
             g == Allocate(z)
  <2>7. /\ v0 \in Int /\ v1 \in Int /\ e1 \in Int /\ e2 \in Int /\ z \in Int
        /\ Sound(a, v0) /\ Sound(b, v1) /\ Sound(c, e1) /\ Sound(f, e2)
        /\ Sound(g, z) /\ Long(a)
        /\ Fresh(a) /\ Fresh(b) /\ Fresh(c) /\ Fresh(f) /\ Fresh(g)
        /\ m = v0 + v1 * e1 + z * e2 + wrong
    BY <2>2, <2>3, <2>5, <2>6
  <2> HIDE DEF v0, v1, a, b, c, f, g
  <2>8. m \in Int /\ m = v0 + (e1 * v1 + e2 * z) + wrong
    <3>1. \A i, j \in Int : i * j \in Int /\ i * j = j * i
      OBVIOUS
    <3> DEFINE h == v1 * e1
               k == z * e2
    <3>2. h \in Int /\ k \in Int /\ h = e1 * v1 /\ k = e2 * z
      BY <2>7, <3>1
    <3>3. m = v0 + h + k + wrong
      BY <2>7
    <3> HIDE DEF h, k
    <3>4. m \in Int /\ m = v0 + (h + k) + wrong
      BY ONLY <2>7, <3>2, <3>3, wrong \in {0, 1}
    <3> QED BY <3>2, <3>4
  <2>9. enforce_m_valid(a, b, c, f, g, Allocate(m % Modulus))
            = IF wrong = 0 THEN "holds" ELSE "unsat"
    <3>1. /\ Operand(a, v0) /\ Operand(b, v1) /\ Operand(c, e1)
          /\ Operand(f, e2) /\ Operand(g, z)
      BY <2>7 DEF Operand
    <3>2. ResultOf(m, v0, v1, e1, e2, z, wrong)
      BY <2>8 DEF ResultOf
    <3> QED BY <2>7, <3>1, <3>2, RelationDecides, Zenon
  <2> QED BY <2>9 DEF a, b, c, f, g
<1> QED BY <1>1, InvHolds, LongHolds, PTL
===============================================================================
