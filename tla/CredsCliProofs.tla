---------------------------- MODULE CredsCliProofs ----------------------------
(***************************************************************************)
(* Proofs about the command line tool, for any parameter sets, credentials *)
(* and specifications.                                                     *)
(***************************************************************************)
EXTENDS CredsCli, WellFoundedInduction, TLAPS

-----------------------------------------------------------------------------
(***************************************************************************)
(* Induction over the naturals, stated for a set.                          *)
(***************************************************************************)
LEMMA LeastNumber ==
  ASSUME NEW T \in SUBSET Nat, T # {}
  PROVE  \E n \in T : \A m \in T : n <= m
<1> DEFINE R == OpToRel(<, Nat)
<1>1. IsWellFoundedOn(R, Nat)
  BY NatLessThanWellFounded
<1>2. \A x, y \in Nat : x < y => <<x, y>> \in R
  BY DEF OpToRel
<1> HIDE DEF R
<1>3. \E x \in T : \A y \in T : ~(<<y, x>> \in R)
  BY <1>1, WFMin
<1>4. PICK n \in T : \A y \in T : ~(<<y, n>> \in R)
  BY <1>3
<1>5. ASSUME NEW m \in T PROVE n <= m
  <2>1. m \in Nat /\ n \in Nat
    OBVIOUS
  <2>2. ~(m < n)
    BY <1>2, <1>4, <2>1
  <2> QED BY <2>1, <2>2
<1> QED BY <1>5

\* So a set of numbers that has 0, and each next one, has all of them.
LEMMA SetInduction ==
  ASSUME NEW S, 0 \in S, \A n \in Nat : n \in S => n + 1 \in S
  PROVE  Nat \subseteq S
<1> SUFFICES ASSUME ~(Nat \subseteq S) PROVE FALSE
  OBVIOUS
<1> DEFINE T == {n \in Nat : n \notin S}
<1>1. T \in SUBSET Nat /\ T # {}
  OBVIOUS
<1>2. PICK n \in T : \A m \in T : n <= m
  BY <1>1, LeastNumber
<1>3. n # 0 /\ n \in Nat
  OBVIOUS
<1>4. n - 1 \in Nat /\ ~(n <= n - 1) /\ n - 1 + 1 = n
  BY <1>3
<1>5. n - 1 \in S
  BY <1>2, <1>4
<1> QED BY <1>4, <1>5

-----------------------------------------------------------------------------
(***************************************************************************)
(* q lists the numbers of P in increasing order.                           *)
(***************************************************************************)
Increasing(q) == \A i, j \in DOMAIN q : i < j => q[i] < q[j]

Enumerates(q, P) == q \in Seq(Nat) /\ Increasing(q) /\ Range(q) = P

(***************************************************************************)
(* There is only one such list.                                            *)
(***************************************************************************)
LEMMA Precedes ==
  ASSUME NEW P, NEW q, NEW r, Enumerates(q, P), Enumerates(r, P),
         NEW j \in DOMAIN q,
         \A i \in 1 .. (j - 1) : i \in DOMAIN q /\ i \in DOMAIN r
                                    /\ q[i] = r[i]
  PROVE  j \in DOMAIN r /\ r[j] <= q[j]
<1> USE DEF Enumerates
<1>1. q[j] \in Range(r) /\ j \in Nat /\ j >= 1
  <2>1. q[j] \in Range(q)
    BY DEF Range
  <2> QED BY <2>1
<1>2. PICK i \in DOMAIN r : r[i] = q[j]
  BY <1>1 DEF Range
<1>3. i \in Nat /\ i >= 1 /\ \A k \in DOMAIN q : q[k] \in Nat
  OBVIOUS
<1>4. ~(i < j)
  BY <1>1, <1>2, <1>3 DEF Increasing
<1>5. j \in DOMAIN r
  BY <1>1, <1>3, <1>4
<1>6. CASE i = j
  BY <1>2, <1>3, <1>5, <1>6
<1>7. CASE j < i
  BY <1>2, <1>3, <1>5, <1>7 DEF Increasing
<1> QED BY <1>1, <1>3, <1>4, <1>6, <1>7

\* By the least place where two lists differ, they do not.
LEMMA EnumerationIsUnique ==
  ASSUME NEW P, NEW q, NEW r, Enumerates(q, P), Enumerates(r, P)
  PROVE  q = r
<1> DEFINE T == {j \in DOMAIN q \cup DOMAIN r :
                    ~(j \in DOMAIN q /\ j \in DOMAIN r /\ q[j] = r[j])}
<1>1. q \in Seq(Nat) /\ r \in Seq(Nat)
  BY DEF Enumerates
<1>2. ASSUME T # {} PROVE FALSE
  <2>1. T \in SUBSET Nat
    BY <1>1
  <2>2. PICK j \in T : \A i \in T : j <= i
    BY <1>2, <2>1, LeastNumber
  <2>3. ASSUME NEW i \in 1 .. (j - 1)
        PROVE  i \in DOMAIN q /\ i \in DOMAIN r /\ q[i] = r[i]
    <3>1. i \notin T
      BY <2>1, <2>2, <2>3
    <3>2. i \in DOMAIN q \cup DOMAIN r
      BY <1>1, <2>2, <2>3
    <3> QED BY <3>1, <3>2
  <2>4. j \in DOMAIN q => j \in DOMAIN r /\ r[j] <= q[j]
    BY <2>3, Precedes
  <2>5. j \in DOMAIN r => j \in DOMAIN q /\ q[j] <= r[j]
    BY <2>3, Precedes
  <2>6. j \in DOMAIN q /\ j \in DOMAIN r
    BY <2>2, <2>4, <2>5
  <2>7. q[j] \in Nat /\ r[j] \in Nat
    BY <1>1, <2>6
  <2> QED BY <2>2, <2>4, <2>5, <2>6, <2>7
<1>3. DOMAIN q = DOMAIN r /\ \A j \in DOMAIN q : q[j] = r[j]
  BY <1>2
<1>4. q = [j \in DOMAIN q |-> q[j]] /\ r = [j \in DOMAIN r |-> r[j]]
  BY <1>1
<1> QED BY <1>3, <1>4

(***************************************************************************)
(* And Ordered makes it.                                                   *)
(***************************************************************************)
Upto(P, n, f) ==
    f = [k \in 0 .. n |-> IF k = 0 THEN <<>>
                          ELSE IF k \in P THEN Append(f[k - 1], k)
                          ELSE f[k - 1]]

\* The function that Ordered chooses exists: each one extends to the next n.
LEMMA UptoExists ==
  ASSUME NEW P, NEW n \in Nat
  PROVE  \E f : Upto(P, n, f)
<1> DEFINE S == {m \in Nat : \E f : Upto(P, m, f)}
<1>1. 0 \in S
  <2>1. Upto(P, 0, [k \in 0 .. 0 |-> <<>>])
    BY DEF Upto
  <2> QED BY <2>1
<1>2. ASSUME NEW m \in Nat, m \in S PROVE m + 1 \in S
  <2>1. PICK f : Upto(P, m, f)
    BY <1>2
  <2> DEFINE next == IF m + 1 \in P THEN Append(f[m], m + 1) ELSE f[m]
             g == [k \in 0 .. (m + 1) |-> IF k = m + 1 THEN next ELSE f[k]]
             h == [k \in 0 .. (m + 1) |-> IF k = 0 THEN <<>>
                          ELSE IF k \in P THEN Append(g[k - 1], k)
                          ELSE g[k - 1]]
  <2>2. ASSUME NEW k \in 0 .. (m + 1) PROVE g[k] = h[k]
    <3>1. CASE k = m + 1
      <4>1. k # 0 /\ k - 1 = m /\ m \in 0 .. (m + 1) /\ m # m + 1
        BY <3>1
      <4>2. g[k - 1] = f[m]
        BY <4>1
      <4> QED BY <3>1, <4>1, <4>2
    <3>2. CASE k # m + 1
      <4>1. k \in 0 .. m /\ g[k] = f[k]
        BY <3>2
      <4>2. f[k] = IF k = 0 THEN <<>>
                   ELSE IF k \in P THEN Append(f[k - 1], k) ELSE f[k - 1]
        BY <2>1, <4>1 DEF Upto
      <4>3. k # 0 => g[k - 1] = f[k - 1]
        BY <4>1
      <4> QED BY <4>1, <4>2, <4>3
    <3> QED BY <3>1, <3>2
  <2>3. g = h
    BY <2>2
  <2>4. Upto(P, m + 1, g)
    BY <2>3 DEF Upto
  <2> QED BY <2>4
<1> HIDE DEF S
<1>3. n \in S
  BY <1>1, <1>2, SetInduction
<1> QED BY <1>3 DEF S

\* And its last value lists the numbers of P, by induction over its domain.
LEMMA OrderedEnumerates ==
  ASSUME NEW n \in Nat, NEW P \in SUBSET (1 .. n)
  PROVE  Enumerates(Ordered(P, n), P)
<1> DEFINE f == CHOOSE g : Upto(P, n, g)
<1>1. Upto(P, n, f)
  BY UptoExists
<1>2. Ordered(P, n) = f[n]
  BY DEF Ordered, Upto
<1> HIDE DEF f
<1> DEFINE S == {m \in Nat : m <= n => Enumerates(f[m], P \cap 1 .. m)}
<1>3. 0 \in S
  <2>1. f[0] = <<>>
    BY <1>1 DEF Upto
  <2>2. <<>> \in Seq(Nat) /\ DOMAIN <<>> = {}
    OBVIOUS
  <2>3. Increasing(<<>>) /\ Range(<<>>) = {}
    BY <2>2 DEF Increasing, Range
  <2>4. P \cap 1 .. 0 = {}
    OBVIOUS
  <2> QED BY <2>1, <2>2, <2>3, <2>4 DEF Enumerates
<1>4. ASSUME NEW m \in Nat, m \in S PROVE m + 1 \in S
  <2> SUFFICES ASSUME m + 1 <= n
               PROVE  Enumerates(f[m + 1], P \cap 1 .. (m + 1))
    OBVIOUS
  <2>1. Enumerates(f[m], P \cap 1 .. m)
    BY <1>4
  <2>2. f[m + 1] = IF m + 1 \in P THEN Append(f[m], m + 1) ELSE f[m]
    <3>1. m + 1 \in 0 .. n /\ m + 1 # 0 /\ m + 1 - 1 = m
      OBVIOUS
    <3>2. \A k \in 0 .. n : f[k] = IF k = 0 THEN <<>>
                                   ELSE IF k \in P THEN Append(f[k - 1], k)
                                   ELSE f[k - 1]
      BY <1>1 DEF Upto
    <3>3. f[m + 1] = IF m + 1 \in P THEN Append(f[m + 1 - 1], m + 1)
                                    ELSE f[m + 1 - 1]
      BY <3>1, <3>2
    <3> QED BY <3>1, <3>3
  <2>3. CASE m + 1 \notin P
    <3>1. P \cap 1 .. (m + 1) = P \cap 1 .. m
      BY <2>3
    <3> QED BY <2>1, <2>2, <2>3, <3>1
  <2>4. CASE m + 1 \in P
    <3> DEFINE q == f[m]
               r == Append(q, m + 1)
    <3>1. q \in Seq(Nat) /\ Increasing(q) /\ Range(q) = P \cap 1 .. m
      BY <2>1 DEF Enumerates
    <3>2. f[m + 1] = r
      BY <2>2, <2>4
    <3> HIDE DEF q
    <3>3. r \in Seq(Nat) /\ DOMAIN r = DOMAIN q \cup {Len(q) + 1}
            /\ r[Len(q) + 1] = m + 1 /\ \A i \in DOMAIN q : r[i] = q[i]
      BY <3>1
    <3> HIDE DEF r
    <3>4. ASSUME NEW i \in DOMAIN q PROVE q[i] \in Nat /\ q[i] < m + 1
      <4>1. q[i] \in P \cap 1 .. m
        BY <3>1 DEF Range
      <4> QED BY <4>1
    <3>5. Increasing(r)
      BY <3>1, <3>3, <3>4 DEF Increasing
    <3>6. Range(r) = Range(q) \cup {m + 1}
      BY <3>3 DEF Range
    <3>7. P \cap 1 .. (m + 1) = (P \cap 1 .. m) \cup {m + 1}
      BY <2>4
    <3> QED BY <3>1, <3>2, <3>3, <3>5, <3>6, <3>7 DEF Enumerates
  <2> QED BY <2>3, <2>4
<1> HIDE DEF S
<1>5. n \in S
  BY <1>3, <1>4, SetInduction
<1>6. P \cap 1 .. n = P
  OBVIOUS
<1> QED BY <1>2, <1>5, <1>6 DEF S

(***************************************************************************)
(* A list over all of A followed by one over all of B, if the numbers of A *)
(* are the smaller ones.                                                   *)
(***************************************************************************)
LEMMA ConcatEnumerates ==
  ASSUME NEW A, NEW B, NEW a, NEW b, Enumerates(a, A), Enumerates(b, B),
         \A x \in A, y \in B : x < y
  PROVE  Enumerates(a \o b, A \cup B)
<1> DEFINE c == a \o b
<1>1. a \in Seq(Nat) /\ b \in Seq(Nat) /\ Increasing(a) /\ Increasing(b)
        /\ Range(a) = A /\ Range(b) = B
  BY DEF Enumerates
<1>2. /\ c \in Seq(Nat) /\ Len(c) = Len(a) + Len(b)
      /\ DOMAIN c = 1 .. Len(a) + Len(b)
      /\ \A i \in 1 .. Len(a) : c[i] = a[i]
      /\ \A i \in 1 .. Len(b) : c[Len(a) + i] = b[i]
  BY <1>1
<1>3. /\ Len(a) \in Nat /\ DOMAIN a = 1 .. Len(a)
      /\ Len(b) \in Nat /\ DOMAIN b = 1 .. Len(b)
  BY <1>1
<1> HIDE DEF c
<1>4. \A i \in DOMAIN c : \/ i \in DOMAIN a /\ c[i] = a[i]
                          \/ /\ i > Len(a) /\ i - Len(a) \in DOMAIN b
                             /\ c[i] = b[i - Len(a)]
  <2> TAKE i \in DOMAIN c
  <2>1. CASE i <= Len(a)
    BY <1>2, <1>3, <2>1
  <2>2. CASE i > Len(a)
    <3>1. i - Len(a) \in 1 .. Len(b) /\ Len(a) + (i - Len(a)) = i
      BY <1>2, <1>3, <2>2
    <3>2. c[Len(a) + (i - Len(a))] = b[i - Len(a)]
      BY <1>2, <3>1
    <3> QED BY <1>3, <2>2, <3>1, <3>2
  <2>3. i \in Nat
    BY <1>2, <1>3
  <2> QED BY <1>3, <2>1, <2>2, <2>3
<1>5. Range(c) = A \cup B
  <2>1. ASSUME NEW x \in Range(c) PROVE x \in A \cup B
    <3>1. PICK i \in DOMAIN c : c[i] = x
      BY <2>1 DEF Range
    <3> QED BY <1>1, <1>4, <3>1 DEF Range
  <2>2. ASSUME NEW x \in A PROVE x \in Range(c)
    <3>1. PICK i \in DOMAIN a : a[i] = x
      BY <1>1, <2>2 DEF Range
    <3>2. i \in DOMAIN c /\ c[i] = x
      BY <1>2, <1>3, <3>1
    <3> QED BY <3>2 DEF Range
  <2>3. ASSUME NEW x \in B PROVE x \in Range(c)
    <3>1. PICK i \in DOMAIN b : b[i] = x
      BY <1>1, <2>3 DEF Range
    <3>2. Len(a) + i \in DOMAIN c /\ c[Len(a) + i] = x
      BY <1>2, <1>3, <3>1
    <3> QED BY <3>2 DEF Range
  <2> QED BY <2>1, <2>2, <2>3
<1>6. ASSUME NEW i \in DOMAIN c, NEW j \in DOMAIN c, i < j
      PROVE  c[i] < c[j]
  <2>1. i \in Nat /\ j \in Nat
    BY <1>2, <1>3
  <2>2. CASE j \in DOMAIN a /\ c[j] = a[j]
    <3>1. i \in DOMAIN a /\ c[i] = a[i]
      BY <1>2, <1>3, <1>6, <2>1, <2>2
    <3> QED BY <1>1, <1>6, <2>2, <3>1 DEF Increasing
  <2>3. CASE /\ j > Len(a) /\ j - Len(a) \in DOMAIN b
             /\ c[j] = b[j - Len(a)]
    <3>1. CASE i \in DOMAIN a /\ c[i] = a[i]
      <4>1. c[i] \in A /\ c[j] \in B
        BY <1>1, <2>3, <3>1 DEF Range
      <4> QED BY <4>1
    <3>2. CASE /\ i > Len(a) /\ i - Len(a) \in DOMAIN b
               /\ c[i] = b[i - Len(a)]
      <4>1. i - Len(a) < j - Len(a)
        BY <1>3, <1>6, <2>1
      <4> QED BY <1>1, <2>3, <3>2, <4>1 DEF Increasing
    <3> QED BY <1>4, <3>1, <3>2
  <2> QED BY <1>4, <2>2, <2>3
<1>7. Increasing(c)
  BY <1>6 DEF Increasing
<1> QED BY <1>2, <1>5, <1>7 DEF Enumerates, c

-----------------------------------------------------------------------------
(***************************************************************************)
(* Select is a list of what is at the places.                              *)
(***************************************************************************)
IsList(q) == q \in Seq(Range(q))

\* A sequence over some set is one over its own elements.
LEMMA ListOfSeq ==
  ASSUME NEW V, NEW q \in Seq(V) PROVE IsList(q)
<1>1. Len(q) \in Nat /\ q = [i \in 1 .. Len(q) |-> q[i]]
  OBVIOUS
<1>2. \A i \in 1 .. Len(q) : q[i] \in Range(q)
  BY DEF Range
<1> QED BY <1>1, <1>2 DEF IsList

\* What is used of a list: it is a function on 1 .. Len(q).
LEMMA ListFacts ==
  ASSUME NEW q, IsList(q)
  PROVE  /\ Len(q) \in Nat /\ DOMAIN q = 1 .. Len(q)
         /\ q = [i \in 1 .. Len(q) |-> q[i]]
BY DEF IsList

\* And each such function is a list.
LEMMA ListOfFunction ==
  ASSUME NEW n \in Nat, NEW q, q = [i \in 1 .. n |-> q[i]]
  PROVE  IsList(q) /\ Len(q) = n
<1>1. \A i \in 1 .. n : q[i] \in Range(q)
  BY DEF Range
<1>2. q \in Seq(Range(q)) /\ Len(q) = n
  BY <1>1
<1> QED BY <1>2 DEF IsList

\* Select(q, P) is the list of what q has at the places P, in their order.
LEMMA SelectLemma ==
  ASSUME NEW q, IsList(q), NEW P \in SUBSET DOMAIN q
  PROVE  LET at == Ordered(P, Len(q))
         IN  /\ Enumerates(at, P) /\ IsList(Select(q, P))
             /\ Len(Select(q, P)) = Len(at)
             /\ DOMAIN Select(q, P) = DOMAIN at
             /\ \A k \in DOMAIN at : at[k] \in P /\ Select(q, P)[k] = q[at[k]]
             /\ Range(Select(q, P)) = {q[i] : i \in P}
<1> DEFINE at == Ordered(P, Len(q))
           r == [k \in DOMAIN at |-> q[at[k]]]
<1>1. Enumerates(at, P)
  BY ListFacts, OrderedEnumerates
<1>2. Select(q, P) = r
  BY DEF Select
<1> HIDE DEF at
<1>3. Len(at) \in Nat /\ DOMAIN at = 1 .. Len(at) /\ Range(at) = P
  BY <1>1 DEF Enumerates
<1>4. r = [k \in 1 .. Len(at) |-> r[k]] /\ DOMAIN r = DOMAIN at
  BY <1>3
<1>5. IsList(r) /\ Len(r) = Len(at)
  BY <1>3, <1>4, ListOfFunction
<1>6. \A k \in DOMAIN at : at[k] \in P
  BY <1>3 DEF Range
<1>7. Range(r) = {q[i] : i \in P}
  BY <1>3 DEF Range
<1> QED BY <1>1, <1>2, <1>4, <1>5, <1>6, <1>7 DEF at

(***************************************************************************)
(* c is a, and b after it.                                                 *)
(***************************************************************************)
Joins(c, a, b) ==
    /\ IsList(c) /\ Len(c) = Len(a) + Len(b)
    /\ \A i \in DOMAIN c : \/ i \in DOMAIN a /\ c[i] = a[i]
                           \/ /\ i > Len(a) /\ i - Len(a) \in DOMAIN b
                              /\ c[i] = b[i - Len(a)]
    /\ \A i \in DOMAIN a : i \in DOMAIN c /\ c[i] = a[i]
    /\ \A i \in DOMAIN b : /\ Len(a) + i \in DOMAIN c
                           /\ c[Len(a) + i] = b[i]

\* Concatenation joins.
LEMMA ConcatList ==
  ASSUME NEW a, NEW b, IsList(a), IsList(b)
  PROVE  Joins(a \o b, a, b)
<1> DEFINE V == Range(a) \cup Range(b)
           c == a \o b
<1>1. a \in Seq(V) /\ b \in Seq(V)
  <2>1. a \in Seq(Range(a)) /\ b \in Seq(Range(b))
    BY DEF IsList
  <2> HIDE DEF IsList
  <2> QED BY <2>1
<1> HIDE DEF V
<1>2. /\ c \in Seq(V) /\ Len(c) = Len(a) + Len(b)
      /\ DOMAIN c = 1 .. Len(a) + Len(b)
      /\ \A i \in 1 .. Len(a) : c[i] = a[i]
      /\ \A i \in 1 .. Len(b) : c[Len(a) + i] = b[i]
  BY <1>1
<1>3. /\ Len(a) \in Nat /\ DOMAIN a = 1 .. Len(a)
      /\ Len(b) \in Nat /\ DOMAIN b = 1 .. Len(b)
  BY <1>1
<1> HIDE DEF c
<1>4. ASSUME NEW i \in DOMAIN c, i > Len(a)
      PROVE  i - Len(a) \in DOMAIN b /\ c[i] = b[i - Len(a)]
  <2>1. i - Len(a) \in 1 .. Len(b) /\ Len(a) + (i - Len(a)) = i
    BY <1>2, <1>3, <1>4
  <2>2. c[Len(a) + (i - Len(a))] = b[i - Len(a)]
    BY <1>2, <2>1
  <2> QED BY <1>3, <2>1, <2>2
<1>5. ASSUME NEW i \in DOMAIN c, ~(i > Len(a))
      PROVE  i \in DOMAIN a /\ c[i] = a[i]
  BY <1>2, <1>3, <1>5
<1>6. IsList(c)
  BY <1>2, ListOfSeq
<1>7. \A i \in DOMAIN a : i \in DOMAIN c /\ c[i] = a[i]
  BY <1>2, <1>3
<1>8. \A i \in DOMAIN b : Len(a) + i \in DOMAIN c /\ c[Len(a) + i] = b[i]
  BY <1>2, <1>3
<1>9. \A i \in DOMAIN c : \/ i \in DOMAIN a /\ c[i] = a[i]
                          \/ /\ i > Len(a) /\ i - Len(a) \in DOMAIN b
                             /\ c[i] = b[i - Len(a)]
  BY <1>4, <1>5
<1> QED BY <1>2, <1>6, <1>7, <1>8, <1>9 DEF Joins, c

-----------------------------------------------------------------------------
(***************************************************************************)
(* The layout of the public inputs: digests, the issuer's key at place p,  *)
(* values.                                                                 *)
(***************************************************************************)
Layout(io, p) ==
    /\ IsList(io) /\ p \in DOMAIN io /\ io[p] \in PublicKey
    /\ \A i \in DOMAIN io : i < p => io[i] = Digest(io[i][1])
    /\ \A i \in DOMAIN io : i > p => io[i] = Value(io[i][1])

\* What q has after place n are signals of this form.
FormedAfter(q, n, form) ==
    \A i \in DOMAIN q : i > n => q[i] = <<q[i][1], form>>

\* Signals makes such a list, of the claims of one kind.
LEMMA SignalsList ==
  ASSUME NEW c, NEW as, IsList(as), NEW kind, NEW form
  PROVE  /\ IsList(Signals(c, as, kind, form))
         /\ FormedAfter(Signals(c, as, kind, form), 0, form)
<1> DEFINE P == {i \in DOMAIN as : KindOf(c, as[i]) = kind}
           q == Select(as, P)
           r == [i \in DOMAIN q |-> <<q[i], form>>]
<1>1. P \in SUBSET DOMAIN as
  OBVIOUS
<1> HIDE DEF P
<1>2. IsList(q)
  BY <1>1, SelectLemma
<1> HIDE DEF q
<1>3. Len(q) \in Nat /\ DOMAIN q = 1 .. Len(q)
  BY <1>2, ListFacts
<1>4. r = [i \in 1 .. Len(q) |-> r[i]]
  BY <1>3
<1>5. IsList(r)
  BY <1>3, <1>4, ListOfFunction
<1>6. FormedAfter(r, 0, form)
  BY DEF FormedAfter
<1>7. Signals(c, as, kind, form) = r
  BY DEF Signals, q, P
<1> HIDE DEF r
<1> QED BY <1>5, <1>6, <1>7

\* Digests, then a list that begins with the key, then values: a layout.
LEMMA LayoutOf ==
  ASSUME NEW D, NEW K, NEW R, IsList(D), IsList(K), IsList(R), Len(K) >= 1,
         K[1] \in PublicKey,
         FormedAfter(D, 0, "digest"), FormedAfter(K, 1, "value"),
         FormedAfter(R, 0, "value")
  PROVE  Layout(D \o K \o R, Len(D) + 1)
<1> DEFINE DK == D \o K
           io == DK \o R
           p == Len(D) + 1
<1>1. Joins(DK, D, K)
  BY ConcatList
<1> HIDE DEF DK
<1>2. Joins(io, DK, R)
  <2>1. IsList(DK)
    BY <1>1 DEF Joins
  <2> QED BY <2>1, ConcatList
<1> HIDE DEF io
<1>3. /\ Len(D) \in Nat /\ DOMAIN D = 1 .. Len(D)
      /\ Len(K) \in Nat /\ DOMAIN K = 1 .. Len(K)
      /\ Len(R) \in Nat /\ DOMAIN R = 1 .. Len(R)
  BY ListFacts
<1>4. p \in DOMAIN io /\ io[p] = K[1]
  <2>1. 1 \in DOMAIN K
    BY <1>3
  <2> QED BY <1>1, <1>2, <2>1 DEF Joins
<1>5. ASSUME NEW i \in DOMAIN io, i < p PROVE io[i] = Digest(io[i][1])
  <2>1. ~(i > Len(D)) /\ ~(i > Len(DK))
    <3>1. i \in Nat
      BY <1>2, <1>5, ListFacts DEF Joins
    <3> QED BY <1>1, <1>3, <1>5, <3>1 DEF Joins
  <2>2. i \in DOMAIN D /\ io[i] = D[i]
    BY <1>1, <1>2, <2>1 DEF Joins
  <2>3. i > 0
    BY <1>3, <2>2
  <2> QED BY <2>2, <2>3 DEF FormedAfter, Digest
<1>6. ASSUME NEW i \in DOMAIN io, i > p PROVE io[i] = Value(io[i][1])
  <2>1. i \in Nat
    BY <1>2, <1>6, ListFacts DEF Joins
  <2>2. CASE i > Len(DK) /\ i - Len(DK) \in DOMAIN R
                /\ io[i] = R[i - Len(DK)]
    <3>1. i - Len(DK) > 0
      BY <1>3, <2>2
    <3> QED BY <2>2, <3>1 DEF FormedAfter, Value
  <2>3. CASE i \in DOMAIN DK /\ io[i] = DK[i]
    <3>1. i \notin DOMAIN D
      BY <1>3, <1>6, <2>1
    <3>2. i - Len(D) \in DOMAIN K /\ io[i] = K[i - Len(D)]
      BY <1>1, <2>3, <3>1 DEF Joins
    <3>3. i - Len(D) > 1
      BY <1>3, <1>6, <2>1
    <3> QED BY <3>2, <3>3 DEF FormedAfter, Value
  <2> QED BY <1>2, <2>2, <2>3 DEF Joins
<1> QED BY <1>2, <1>4, <1>5, <1>6 DEF Layout, io, DK, Joins

\* Short tuples are lists.
LEMMA PairsAreLists ==
  ASSUME NEW a, NEW b, NEW c, NEW d
  PROVE  IsList(<<a>>) /\ IsList(<<a, b>>) /\ IsList(<<a, b, c, d>>)
BY DEF IsList, Range

\* Every configuration has the layout.
LEMMA IOLayout ==
  ASSUME NEW c \in Configs, IsList(c.claims)
  PROVE  \E p : Layout(IOLocations(c), p)
<1>1. IsList(WithDeviceKeys(c))
  <2>1. IsList(DeviceKeys)
    BY PairsAreLists DEF DeviceKeys
  <2> QED BY <2>1, ConcatList DEF WithDeviceKeys, Joins
<1>2. CASE c.credtype = "jwt"
  <2> DEFINE D == Signals(c, WithDeviceKeys(c), "digest", "digest")
             R == Signals(c, WithDeviceKeys(c), "reveal", "value")
             K == <<<<"modulus", "key">>>>
  <2>1. IsList(D) /\ FormedAfter(D, 0, "digest")
    BY <1>1, SignalsList
  <2>2. IsList(R) /\ FormedAfter(R, 0, "value")
    BY <1>1, SignalsList
  <2>3. /\ IsList(K) /\ Len(K) >= 1 /\ K[1] \in PublicKey
        /\ FormedAfter(K, 1, "value")
    <3>1. IsList(K)
      BY PairsAreLists
    <3>2. Len(K) = 1 /\ DOMAIN K = 1 .. 1
      OBVIOUS
    <3>3. K[1] \in PublicKey
      BY DEF PublicKey
    <3> HIDE DEF K
    <3> QED BY <3>1, <3>2, <3>3 DEF FormedAfter
  <2>4. IOLocations(c) = D \o K \o R
    BY <1>2 DEF IOLocations, JwtSignals
  <2> HIDE DEF D, R, K
  <2> QED BY <2>1, <2>2, <2>3, <2>4, LayoutOf
<1>3. CASE c.credtype # "jwt"
  <2> DEFINE D == Signals(c, c.claims, "digest", "digest")
             R == Signals(c, c.claims, "reveal", "value")
             K == <<<<"pubkey_hash", "key">>, Value("valid_until"),
                    Value("device_key_0"), Value("device_key_1")>>
  <2>1. IsList(D) /\ FormedAfter(D, 0, "digest")
    BY SignalsList
  <2>2. IsList(R) /\ FormedAfter(R, 0, "value")
    BY SignalsList
  <2>3. /\ IsList(K) /\ Len(K) >= 1 /\ K[1] \in PublicKey
        /\ FormedAfter(K, 1, "value")
    <3>1. IsList(K)
      BY PairsAreLists
    <3>4. Len(K) = 4 /\ DOMAIN K = 1 .. 4
      OBVIOUS
    <3>2. K[2] = Value(K[2][1]) /\ K[3] = Value(K[3][1])
            /\ K[4] = Value(K[4][1])
      BY DEF Value
    <3>3. K[1] \in PublicKey
      BY DEF PublicKey
    <3> HIDE DEF K
    <3> QED BY <3>1, <3>2, <3>3, <3>4 DEF FormedAfter, Value
  <2>4. IOLocations(c) = D \o K \o R
    BY <1>3 DEF IOLocations, MdlSignals
  <2> HIDE DEF D, R, K
  <2> QED BY <2>1, <2>2, <2>3, <2>4, LayoutOf
<1> QED BY <1>2, <1>3

-----------------------------------------------------------------------------
(***************************************************************************)
(* What create_proof_spec_internal makes of a specification.               *)
(***************************************************************************)
ListedSpec(sp) == IsList(sp.revealed) /\ DOMAIN sp.range \subseteq Range(Names)

\* It splits the attributes by kind, and takes the ranges by name.
LEMMA InternalSpecLemma ==
  ASSUME NEW sp, NEW c, ListedSpec(sp), IsList(Names)
  PROVE  LET s == InternalSpec(sp, c)
         IN  /\ IsList(s.revealed) /\ IsList(s.hashed) /\ IsList(s.ranges)
             /\ Range(s.revealed) = {a \in Range(sp.revealed) :
                                        KindOf(c, a) # "digest"}
             /\ Range(s.hashed) = {a \in Range(sp.revealed) :
                                      KindOf(c, a) = "digest"}
             /\ Range(s.ranges) = DOMAIN sp.range
             /\ s.age = sp.range /\ s.message = sp.message
             /\ s.device_bound = sp.device_bound /\ s.config = c
<1> DEFINE s == InternalSpec(sp, c)
           q == sp.revealed
           H == {i \in DOMAIN q : KindOf(c, q[i]) = "digest"}
           N == {i \in DOMAIN Names : Names[i] \in DOMAIN sp.range}
<1>1. /\ s.revealed = Select(q, DOMAIN q \ H) /\ s.hashed = Select(q, H)
      /\ s.ranges = Select(Names, N)
      /\ s.age = sp.range /\ s.message = sp.message
      /\ s.device_bound = sp.device_bound /\ s.config = c
  BY DEF InternalSpec
<1>2. IsList(q)
  BY DEF ListedSpec
<1>3. H \in SUBSET DOMAIN q /\ N \in SUBSET DOMAIN Names
  OBVIOUS
<1>4. {q[i] : i \in DOMAIN q \ H}
        = {a \in Range(q) : KindOf(c, a) # "digest"}
  BY DEF Range
<1>5. {q[i] : i \in H} = {a \in Range(q) : KindOf(c, a) = "digest"}
  BY DEF Range
<1>6. {Names[i] : i \in N} = DOMAIN sp.range
  BY DEF Range, ListedSpec
<1> DEFINE G == DOMAIN q \ H
<1>7. G \in SUBSET DOMAIN q
  OBVIOUS
<1> HIDE DEF s, H, N, G, q
<1>8. IsList(Select(q, G)) /\ Range(Select(q, G)) = {q[i] : i \in G}
  BY <1>2, <1>7, SelectLemma
<1>9. IsList(Select(q, H)) /\ Range(Select(q, H)) = {q[i] : i \in H}
  BY <1>2, <1>3, SelectLemma
<1>10. /\ IsList(Select(Names, N))
       /\ Range(Select(Names, N)) = {Names[i] : i \in N}
  BY <1>3, SelectLemma
<1>11. /\ IsList(s.revealed) /\ IsList(s.hashed) /\ IsList(s.ranges)
       /\ Range(s.revealed) = {a \in Range(q) : KindOf(c, a) # "digest"}
       /\ Range(s.hashed) = {a \in Range(q) : KindOf(c, a) = "digest"}
       /\ Range(s.ranges) = DOMAIN sp.range
  BY <1>1, <1>4, <1>5, <1>6, <1>8, <1>9, <1>10 DEF G
<1> QED BY <1>1, <1>11 DEF s, q

-----------------------------------------------------------------------------
(***************************************************************************)
(* The places of the revealed inputs: the digests' of the attributes that  *)
(* are revealed by them, as the verifier sorts them; the key's; the rest.  *)
(***************************************************************************)
HashedPlaces(io, as) ==
    {k \in DOMAIN io : \E i \in DOMAIN as : io[k] = Digest(as[i])}

PlacesAfter(io, s, p) ==
    {i \in DOMAIN io : i > p /\ IOTypes(io, s)[i] = "Revealed"}

\* Before the key a place is revealed exactly if its digest is asked for.
LEMMA TypesBeforeKey ==
  ASSUME NEW io, NEW p, NEW s, Layout(io, p), NEW i \in DOMAIN io
  PROVE  /\ i < p => ( IOTypes(io, s)[i] = "Revealed"
                         <=> i \in HashedPlaces(io, s.hashed) )
         /\ i = p => IOTypes(io, s)[i] = "Revealed"
         /\ i \in HashedPlaces(io, s.hashed) => i < p
<1>0. p \in Nat /\ i \in Nat
  BY ListFacts DEF Layout
<1> DEFINE keys == {Value(DeviceKeys[1]), Value(DeviceKeys[2])}
           device == s.device_bound /\ io[i] \in keys
<1>1. i <= p => ~device
  <2>1. i < p => io[i] = Digest(io[i][1])
    BY DEF Layout
  <2>2. i = p => io[i] \in PublicKey
    BY DEF Layout
  <2> QED BY <1>0, <2>1, <2>2 DEF Digest, Value, PublicKey
<1>2. i < p => io[i] \notin PublicKey
  <2>1. i < p => io[i] = Digest(io[i][1])
    BY DEF Layout
  <2> QED BY <2>1 DEF Digest, PublicKey
<1>3. i < p => ( io[i] \in Asked(s) <=> i \in HashedPlaces(io, s.hashed) )
  <2>1. i < p => io[i] = Digest(io[i][1])
    BY DEF Layout
  <2> QED BY <2>1 DEF Digest, Value, Asked, HashedPlaces
<1>4. i \in HashedPlaces(io, s.hashed) => i < p
  <2>1. i = p => io[i] \in PublicKey
    BY DEF Layout
  <2>2. i > p => io[i] = Value(io[i][1])
    BY DEF Layout
  <2> QED BY <1>0, <2>1, <2>2 DEF HashedPlaces, Digest, Value, PublicKey
<1>5. i = p => io[i] \in PublicKey
  BY DEF Layout
<1>6. IOTypes(io, s)[i] = IF device THEN "Committed"
                          ELSE IF io[i] \in Asked(s) \cup PublicKey
                          THEN "Revealed"
                          ELSE IF \/ io[i] = Value(ExpName(s.config))
                                  \/ \E k \in DOMAIN s.ranges :
                                        io[i] = Value(s.ranges[k])
                          THEN "Committed" ELSE "Hidden"
  BY DEF IOTypes
<1> HIDE DEF device
<1> QED BY <1>0, <1>1, <1>2, <1>3, <1>4, <1>5, <1>6

\* So the places that are revealed are a list in three parts.
LEMMA RevealedPlaces ==
  ASSUME NEW io, NEW p, NEW s, Layout(io, p)
  PROVE  /\ Enumerates(Ordered(HashedPlaces(io, s.hashed), Len(io)),
                       HashedPlaces(io, s.hashed))
         /\ Enumerates(Ordered(PlacesAfter(io, s, p), Len(io)),
                       PlacesAfter(io, s, p))
         /\ Places(IOTypes(io, s), "Revealed")
              = Ordered(HashedPlaces(io, s.hashed), Len(io)) \o <<p>>
                   \o Ordered(PlacesAfter(io, s, p), Len(io))
<1> DEFINE n == Len(io)
           types == IOTypes(io, s)
           H == HashedPlaces(io, s.hashed)
           A == PlacesAfter(io, s, p)
           P == {i \in DOMAIN types : types[i] = "Revealed"}
           h == Ordered(H, n)
           a == Ordered(A, n)
<1>1. n \in Nat /\ DOMAIN io = 1 .. n /\ p \in 1 .. n /\ p \in Nat
  BY ListFacts DEF Layout
<1>2. DOMAIN types = DOMAIN io /\ types = [i \in 1 .. n |-> types[i]]
  BY <1>1 DEF IOTypes
<1>3. Len(types) = n
  BY <1>1, <1>2, ListOfFunction
<1>4. H \in SUBSET (1 .. n) /\ A \in SUBSET (1 .. n) /\ P \in SUBSET (1 .. n)
  BY <1>1, <1>2 DEF HashedPlaces, PlacesAfter
<1>5. Enumerates(h, H) /\ Enumerates(a, A) /\ Enumerates(Ordered(P, n), P)
  BY <1>1, <1>4, OrderedEnumerates
<1>6. Enumerates(<<p>>, {p})
  BY <1>1 DEF Enumerates, Increasing, Range
<1>7. \A x \in H : x < p
  BY TypesBeforeKey DEF HashedPlaces
<1>8. \A x \in A : p < x
  BY <1>1 DEF PlacesAfter
<1>9. P = H \cup {p} \cup A
  <2>1. ASSUME NEW i \in 1 .. n PROVE i \in P <=> i \in H \cup {p} \cup A
    <3>1. /\ i < p => (types[i] = "Revealed" <=> i \in H)
          /\ i = p => types[i] = "Revealed"
          /\ i \in H => i < p
      BY <1>1, TypesBeforeKey
    <3>2. i > p => (types[i] = "Revealed" <=> i \in A)
      BY <1>1 DEF PlacesAfter
    <3>3. i \in A => i > p
      BY DEF PlacesAfter
    <3>4. i \in P <=> types[i] = "Revealed"
      BY <1>1, <1>2
    <3> HIDE DEF types, H, A, P
    <3> QED BY <1>1, <3>1, <3>2, <3>3, <3>4
  <2> QED BY <1>1, <1>4, <2>1
<1> HIDE DEF H, A, h, a, P, types, n
<1>10. Enumerates(h \o <<p>>, H \cup {p})
  BY <1>5, <1>6, <1>7, ConcatEnumerates
<1>11. Enumerates(h \o <<p>> \o a, H \cup {p} \cup A)
  <2>1. \A x \in H \cup {p}, y \in A : x < y
    <3>1. H \subseteq Nat /\ A \subseteq Nat
      BY <1>1, <1>4
    <3> QED BY <1>1, <1>7, <1>8, <3>1
  <2> QED BY <1>5, <1>10, <2>1, ConcatEnumerates
<1>12. Ordered(P, n) = h \o <<p>> \o a
  BY <1>5, <1>9, <1>11, EnumerationIsUnique
<1>13. Places(types, "Revealed") = Ordered(P, n)
  BY <1>3 DEF Places, P
<1> QED BY <1>5, <1>12, <1>13 DEF h, a, H, A, types, n

(***************************************************************************)
(* A list, one value, and a list.                                          *)
(***************************************************************************)
Around(c, a, x, b) ==
    /\ IsList(c) /\ Len(c) = Len(a) + 1 + Len(b)
    /\ \A k \in DOMAIN a : k \in DOMAIN c /\ c[k] = a[k]
    /\ Len(a) + 1 \in DOMAIN c /\ c[Len(a) + 1] = x
    /\ \A k \in DOMAIN b : /\ Len(a) + 1 + k \in DOMAIN c
                           /\ c[Len(a) + 1 + k] = b[k]

\* Concatenation makes it.
LEMMA ConcatAround ==
  ASSUME NEW a, NEW b, NEW x, IsList(a), IsList(b)
  PROVE  Around(a \o <<x>> \o b, a, x, b)
<1> DEFINE ax == a \o <<x>>
           c == ax \o b
           one == <<x>>
<1>1. IsList(one) /\ Len(one) = 1 /\ 1 \in DOMAIN one /\ one[1] = x
  <2>1. IsList(one)
    BY PairsAreLists
  <2>2. Len(one) = 1 /\ 1 \in DOMAIN one /\ one[1] = x
    OBVIOUS
  <2> QED BY <2>1, <2>2
<1>2. ax = a \o one
  OBVIOUS
<1> HIDE DEF one, ax
<1>3. Joins(ax, a, one)
  BY <1>1, <1>2, ConcatList
<1>4. Joins(c, ax, b)
  <2>1. IsList(ax)
    BY <1>3 DEF Joins
  <2> QED BY <2>1, ConcatList
<1> HIDE DEF c
<1>5. Len(a) \in Nat /\ Len(b) \in Nat
  BY ListFacts
<1>6. Len(ax) = Len(a) + 1
  BY <1>1, <1>3 DEF Joins
<1>7. IsList(c) /\ Len(c) = Len(a) + 1 + Len(b)
  BY <1>4, <1>6 DEF Joins
<1>8. \A k \in DOMAIN a : k \in DOMAIN c /\ c[k] = a[k]
  BY <1>3, <1>4 DEF Joins
<1>9. Len(a) + 1 \in DOMAIN c /\ c[Len(a) + 1] = x
  BY <1>1, <1>3, <1>4 DEF Joins
<1>10. \A k \in DOMAIN b : /\ Len(a) + 1 + k \in DOMAIN c
                           /\ c[Len(a) + 1 + k] = b[k]
  BY <1>4, <1>6 DEF Joins
<1> QED BY <1>7, <1>8, <1>9, <1>10 DEF Around, c, ax

(***************************************************************************)
(* The digests that the verifier computes are as many as their places.     *)
(***************************************************************************)
KnownDigests(io, s, proof) ==
    [i \in DOMAIN SortByLocation(s.hashed, io) |->
        HashOf(proof.revealed_preimages[SortByLocation(s.hashed, io)[i][1]])]

\* Each of them is the digest of the attribute at its place.
LEMMA DigestsLemma ==
  ASSUME NEW io, NEW p, NEW s, NEW proof, Layout(io, p)
  PROVE  LET at == Ordered(HashedPlaces(io, s.hashed), Len(io))
             known == KnownDigests(io, s, proof)
         IN  /\ IsList(known) /\ IsList(at) /\ Len(known) = Len(at)
             /\ \A k \in DOMAIN at :
                   /\ at[k] \in HashedPlaces(io, s.hashed)
                   /\ known[k] = HashOf(
                                  proof.revealed_preimages[io[at[k]][1]])
<1> DEFINE H == HashedPlaces(io, s.hashed)
           at == Ordered(H, Len(io))
           q == SortByLocation(s.hashed, io)
           known == KnownDigests(io, s, proof)
<1>1. q = Select(io, H)
  BY DEF SortByLocation, HashedPlaces
<1>2. IsList(io) /\ H \in SUBSET DOMAIN io
  BY DEF Layout, HashedPlaces
<1> HIDE DEF H, q
<1>3. /\ Enumerates(at, H) /\ IsList(q) /\ Len(q) = Len(at)
      /\ DOMAIN q = DOMAIN at
      /\ \A k \in DOMAIN at : at[k] \in H /\ q[k] = io[at[k]]
  BY <1>1, <1>2, SelectLemma
<1> HIDE DEF at
<1>4. IsList(at)
  BY <1>3, ListOfSeq DEF Enumerates
<1>5. known = [i \in DOMAIN q |-> HashOf(proof.revealed_preimages[q[i][1]])]
  BY DEF KnownDigests, q
<1>6. Len(q) \in Nat /\ DOMAIN q = 1 .. Len(q)
  BY <1>3, ListFacts
<1> HIDE DEF known
<1>7. known = [i \in 1 .. Len(q) |-> known[i]]
  BY <1>5, <1>6
<1>8. IsList(known) /\ Len(known) = Len(at)
  BY <1>3, <1>6, <1>7, ListOfFunction
<1>9. \A k \in DOMAIN at :
         known[k] = HashOf(proof.revealed_preimages[io[at[k]][1]])
  BY <1>3, <1>5
<1> QED BY <1>3, <1>4, <1>8, <1>9 DEF at, known, H

(***************************************************************************)
(* So the issuer's key is compared with the key in the credential.         *)
(***************************************************************************)
LEMMA IssuerIsKnown ==
  ASSUME NEW vp, NEW io, NEW p, NEW s, NEW proof, Layout(io, p),
         IsList(proof.revealed_inputs), Groth16Verifies(vp, io, s, proof)
  PROVE  vp.issuer = proof.inputs[p]
<1> DEFINE h == Ordered(HashedPlaces(io, s.hashed), Len(io))
           a == Ordered(PlacesAfter(io, s, p), Len(io))
           d == KnownDigests(io, s, proof)
           r == proof.revealed_inputs
           places == Places(IOTypes(io, s), "Revealed")
           public == PublicInputs(vp, io, s, proof)
<1>1. IsList(d) /\ IsList(h) /\ Len(d) = Len(h)
  BY DigestsLemma
<1>2. IsList(a) /\ places = h \o <<p>> \o a
  BY RevealedPlaces, ListOfSeq DEF Enumerates
<1>3. public = d \o <<vp.issuer>> \o r
  BY DEF PublicInputs, KnownDigests
<1>4. \A k \in DOMAIN places : public[k] = proof.inputs[places[k]]
  BY DEF Groth16Verifies
<1> HIDE DEF h, a, d, r, places, public
<1>5. Around(places, h, p, a)
  BY <1>1, <1>2, ConcatAround
<1>6. Around(public, d, vp.issuer, r)
  BY <1>1, <1>3, ConcatAround DEF r
<1> QED BY <1>1, <1>4, <1>5, <1>6 DEF Around

-----------------------------------------------------------------------------
(***************************************************************************)
(* The value of a public input, by its signal.                             *)
(***************************************************************************)
LEMMA InputOf ==
  ASSUME NEW io, NEW cr, NEW i \in DOMAIN io
  PROVE  /\ DOMAIN Inputs(io, cr) = DOMAIN io
         /\ \A a : io[i] = Value(a) => Inputs(io, cr)[i] = cr[a]
         /\ \A a : io[i] = Digest(a) => Inputs(io, cr)[i] = HashOf(cr[a])
         /\ io[i] \in PublicKey => Inputs(io, cr)[i] = cr["issuer"]
BY DEF Inputs, Value, Digest, PublicKey

\* Where a signal is found, it is.
LEMMA LocationOf ==
  ASSUME NEW io, NEW sig, HasLocation(io, sig)
  PROVE  Location(io, sig) \in DOMAIN io /\ io[Location(io, sig)] = sig
BY DEF HasLocation, Location, Range

(***************************************************************************)
(* What prove has made for config c and the credential cr.                 *)
(***************************************************************************)
StateOf(c, g, cr) == [gen |-> g, config |-> c,
                      inputs |-> Inputs(IOLocations(c), cr), aux |-> cr]

(***************************************************************************)
(* A show proof that show has made, and that verify accepts for a          *)
(* specification sp, was made for what sp says: the two are the same to    *)
(* create_proof_spec_internal.                                             *)
(***************************************************************************)
LEMMA SameSpecification ==
  ASSUME IsList(Names), NEW c, NEW sp, NEW asked,
         ListedSpec(sp), ListedSpec(asked),
         InternalSpec(sp, c) = InternalSpec(asked, c)
  PROVE  /\ Range(sp.revealed) = Range(asked.revealed)
         /\ sp.range = asked.range /\ sp.message = asked.message
         /\ sp.device_bound = asked.device_bound
<1> DEFINE s == InternalSpec(sp, c)
<1>1. /\ Range(s.revealed) = {a \in Range(sp.revealed) :
                                 KindOf(c, a) # "digest"}
      /\ Range(s.hashed) = {a \in Range(sp.revealed) :
                               KindOf(c, a) = "digest"}
      /\ s.age = sp.range /\ s.message = sp.message
      /\ s.device_bound = sp.device_bound
  BY InternalSpecLemma
<1>2. /\ Range(s.revealed) = {a \in Range(asked.revealed) :
                                 KindOf(c, a) # "digest"}
      /\ Range(s.hashed) = {a \in Range(asked.revealed) :
                               KindOf(c, a) = "digest"}
      /\ s.age = asked.range /\ s.message = asked.message
      /\ s.device_bound = asked.device_bound
  BY InternalSpecLemma
<1> HIDE DEF s
<1>3. Range(sp.revealed) = Range(s.revealed) \cup Range(s.hashed)
  BY <1>1
<1>4. Range(asked.revealed) = Range(s.revealed) \cup Range(s.hashed)
  BY <1>2
<1> QED BY <1>1, <1>2, <1>3, <1>4

(***************************************************************************)
(* And all that verify concludes is true of the credential.                *)
(***************************************************************************)
LEMMA AcceptedShow ==
  ASSUME IsList(Names), NEW c \in Configs, IsList(c.claims),
         NEW cr, NEW g, NEW r, NEW t, NEW now, NEW vp, NEW sp, NEW asked,
         ListedSpec(sp), ListedSpec(asked),
         vp.io = IOLocations(c), vp.config = c,
         Shows(StateOf(c, g, cr), IOLocations(c), asked, t),
         Accepts(vp, ShowProof(StateOf(c, g, cr), IOLocations(c), r, asked, t),
                 sp, now)
  PROVE  LET proof == ShowProof(StateOf(c, g, cr), IOLocations(c), r, asked, t)
         IN  /\ InternalSpec(sp, c) = InternalSpec(asked, c)
             /\ \A a \in Range(sp.revealed) : Revealed(vp, proof, sp)[a] = cr[a]
             /\ cr["issuer"] = vp.issuer
             /\ cr[ExpName(c)] >= t
             /\ IsFresh(proof, now)
             /\ \A a \in DOMAIN sp.range : cr[a] >= Days(sp.range[a])
             /\ vp.vk = g /\ vp.range_vk = r
<1> DEFINE io == IOLocations(c)
           cs == StateOf(c, g, cr)
           s == InternalSpec(sp, c)
           s0 == InternalSpec(asked, c)
           proof == ShowProof(cs, io, r, asked, t)
           open == Opened(cs, io, asked)
<1>1. /\ cs.gen = g /\ cs.config = c /\ cs.inputs = Inputs(io, cr)
      /\ cs.aux = cr
  BY DEF StateOf
<1>2. /\ proof.gen = g /\ proof.range = r /\ proof.context = s0
      /\ proof.inputs = Inputs(io, cr) /\ proof.cur_time = t
      /\ proof.revealed_inputs = [i \in DOMAIN s0.revealed |->
             Inputs(io, cr)[Location(io, Value(s0.revealed[i]))]]
      /\ proof.revealed_preimages = [a \in Range(s0.hashed) |-> cr[a]]
      /\ proof.show_range_attr = [k \in DOMAIN s0.ranges |->
                                     open[FirstRange(s0) + k - 1]]
  BY <1>1 DEF ShowProof, Preimages
<1>3. /\ HasSignals(io, s) /\ Groth16Verifies(vp, io, s, proof)
      /\ IsFresh(proof, now) /\ RangesVerify(vp, io, s, proof)
  BY DEF Accepts
<1>4. /\ HasSignals(io, s0) /\ Inputs(io, cr)[open[1]] >= t
      /\ \A k \in DOMAIN s0.ranges :
            Inputs(io, cr)[open[FirstRange(s0) + k - 1]]
                >= Days(s0.age[s0.ranges[k]])
  BY <1>1 DEF Shows
<1>5. s = s0 /\ vp.vk = g
  BY <1>2, <1>3 DEF Groth16Verifies, SameContext
<1>6. open = Places(IOTypes(io, s0), "Committed")
  BY <1>1 DEF Opened
<1>7. /\ IsList(s.revealed) /\ IsList(s.hashed) /\ IsList(s.ranges)
      /\ Range(s.revealed) = {a \in Range(sp.revealed) :
                                 KindOf(c, a) # "digest"}
      /\ Range(s.hashed) = {a \in Range(sp.revealed) :
                               KindOf(c, a) = "digest"}
      /\ Range(s.ranges) = DOMAIN sp.range /\ s.age = sp.range
      /\ s.config = c
  BY InternalSpecLemma
<1> HIDE DEF io, cs, s, s0, proof, open
<1>8. cr["issuer"] = vp.issuer
  <2>1. PICK p : Layout(io, p)
    BY IOLayout DEF io
  <2>2. IsList(proof.revealed_inputs)
    <3>1. Len(s.revealed) \in Nat /\ DOMAIN s.revealed = 1 .. Len(s.revealed)
      BY <1>7, ListFacts
    <3>2. proof.revealed_inputs
            = [i \in 1 .. Len(s.revealed) |-> proof.revealed_inputs[i]]
      BY <1>2, <1>5, <3>1
    <3> QED BY <3>1, <3>2, ListOfFunction
  <2>3. vp.issuer = proof.inputs[p]
    BY <1>3, <2>1, <2>2, IssuerIsKnown
  <2>4. p \in DOMAIN io /\ io[p] \in PublicKey
    BY <2>1 DEF Layout
  <2> QED BY <1>2, <2>3, <2>4, InputOf
<1>9. cr[ExpName(c)] >= t
  <2> DEFINE e == Value(ExpName(c))
  <2>1. HasLocation(io, e)
    BY <1>3, <1>7 DEF HasSignals
  <2>2. open[1] = Location(io, e)
    BY <1>3, <1>5, <1>6, <1>7 DEF RangesVerify
  <2>3. Inputs(io, cr)[Location(io, e)] = cr[ExpName(c)]
    BY <2>1, LocationOf, InputOf
  <2> QED BY <1>4, <2>2, <2>3
<1>10. ASSUME NEW a \in DOMAIN sp.range
       PROVE  cr[a] >= Days(sp.range[a])
  <2>1. PICK k \in DOMAIN s.ranges : s.ranges[k] = a
    BY <1>7 DEF Range
  <2> DEFINE e == Value(a)
  <2>2. HasLocation(io, e)
    BY <1>3, <2>1 DEF HasSignals
  <2>3. proof.show_range_attr[k] = Location(io, e)
    BY <1>2, <1>3, <1>5, <2>1 DEF RangesVerify
  <2>4. open[FirstRange(s0) + k - 1] = Location(io, e)
    BY <1>2, <1>5, <2>1, <2>3
  <2>5. Inputs(io, cr)[Location(io, e)] = cr[a]
    BY <2>2, LocationOf, InputOf
  <2>6. Inputs(io, cr)[open[FirstRange(s0) + k - 1]]
          >= Days(s0.age[s0.ranges[k]])
    BY <1>4, <1>5, <2>1
  <2> QED BY <1>5, <1>7, <2>1, <2>4, <2>5, <2>6
<1>11. ASSUME NEW a \in Range(sp.revealed)
       PROVE  Revealed(vp, proof, sp)[a] = cr[a]
  <2> DEFINE index == CHOOSE i \in DOMAIN s.revealed : s.revealed[i] = a
  <2>1. Revealed(vp, proof, sp)[a] = IF a \in Range(s.hashed)
                                     THEN proof.revealed_preimages[a]
                                     ELSE proof.revealed_inputs[index]
    BY DEF Revealed, s
  <2>2. CASE a \in Range(s.hashed)
    BY <1>2, <1>5, <2>1, <2>2
  <2>3. CASE a \notin Range(s.hashed)
    <3>1. a \in Range(s.revealed)
      BY <1>7, <2>3
    <3>2. index \in DOMAIN s.revealed /\ s.revealed[index] = a
      BY <3>1 DEF Range
    <3> HIDE DEF index
    <3>3. HasLocation(io, Value(a))
      BY <1>3, <3>2 DEF HasSignals, Asked
    <3>4. Inputs(io, cr)[Location(io, Value(a))] = cr[a]
      BY <3>3, LocationOf, InputOf
    <3> QED BY <1>2, <1>5, <2>1, <2>3, <3>2, <3>4
  <2> QED BY <2>2, <2>3
<1>12. vp.range_vk = r
  BY <1>2, <1>3 DEF RangesVerify
<1> QED BY <1>3, <1>5, <1>8, <1>9, <1>10, <1>11, <1>12
         DEF s, s0, proof, io, cs

-----------------------------------------------------------------------------
(***************************************************************************)
(* No signal has two places.                                               *)
(***************************************************************************)
LEMMA JoinsInjective ==
  ASSUME NEW c, NEW a, NEW b, Joins(c, a, b), IsInjective(a), IsInjective(b),
         IsList(a), IsList(b),
         \A x \in Range(a), y \in Range(b) : x # y
  PROVE  IsInjective(c)
<1>1. Len(a) \in Nat /\ DOMAIN a = 1 .. Len(a) /\ DOMAIN b \subseteq Nat
        /\ DOMAIN c \subseteq Nat
  BY ListFacts DEF Joins
<1>2. \A i \in DOMAIN c : \/ i \in DOMAIN a /\ c[i] = a[i]
                          \/ /\ i > Len(a) /\ i - Len(a) \in DOMAIN b
                             /\ c[i] = b[i - Len(a)]
  BY DEF Joins
<1>3. ASSUME NEW i \in DOMAIN c, NEW j \in DOMAIN c, c[i] = c[j]
      PROVE  i = j
  <2>1. CASE i \in DOMAIN a /\ c[i] = a[i] /\ j \in DOMAIN a /\ c[j] = a[j]
    BY <1>3, <2>1 DEF IsInjective
  <2>2. CASE /\ i > Len(a) /\ i - Len(a) \in DOMAIN b /\ c[i] = b[i - Len(a)]
             /\ j > Len(a) /\ j - Len(a) \in DOMAIN b /\ c[j] = b[j - Len(a)]
    <3>1. i - Len(a) = j - Len(a)
      BY <1>3, <2>2 DEF IsInjective
    <3> QED BY <1>1, <3>1
  <2>3. ~(c[i] \in Range(a) /\ c[j] \in Range(b))
    BY <1>3
  <2>4. ~(c[j] \in Range(a) /\ c[i] \in Range(b))
    BY <1>3
  <2>5. i \in DOMAIN a /\ c[i] = a[i] => c[i] \in Range(a)
    BY DEF Range
  <2>6. j \in DOMAIN a /\ c[j] = a[j] => c[j] \in Range(a)
    BY DEF Range
  <2>7. i - Len(a) \in DOMAIN b /\ c[i] = b[i - Len(a)] => c[i] \in Range(b)
    BY DEF Range
  <2>8. j - Len(a) \in DOMAIN b /\ c[j] = b[j - Len(a)] => c[j] \in Range(b)
    BY DEF Range
  <2> QED BY <1>2, <2>1, <2>2, <2>3, <2>4, <2>5, <2>6, <2>7, <2>8
<1> QED BY <1>3 DEF IsInjective

\* A joined list has the elements of both.
LEMMA JoinsRange ==
  ASSUME NEW c, NEW a, NEW b, Joins(c, a, b)
  PROVE  IsList(c) /\ Range(c) = Range(a) \cup Range(b)
<1>1. ASSUME NEW x \in Range(c) PROVE x \in Range(a) \cup Range(b)
  BY <1>1 DEF Range, Joins
<1>2. ASSUME NEW x \in Range(a) PROVE x \in Range(c)
  BY <1>2 DEF Range, Joins
<1>3. ASSUME NEW x \in Range(b) PROVE x \in Range(c)
  <2>1. PICK k \in DOMAIN b : b[k] = x
    BY <1>3 DEF Range
  <2>2. Len(a) + k \in DOMAIN c /\ c[Len(a) + k] = x
    BY <2>1 DEF Joins
  <2> QED BY <2>2 DEF Range
<1>4. IsList(c)
  BY DEF Joins
<1> QED BY <1>1, <1>2, <1>3, <1>4

\* Claims that differ have signals that differ.
LEMMA SignalsInjective ==
  ASSUME NEW c, NEW as, IsList(as), IsInjective(as), NEW kind, NEW form
  PROVE  /\ IsInjective(Signals(c, as, kind, form))
         /\ \A x \in Range(Signals(c, as, kind, form)) :
               \E a \in Range(as) : x = <<a, form>>
<1> DEFINE P == {i \in DOMAIN as : KindOf(c, as[i]) = kind}
           q == Select(as, P)
           at == Ordered(P, Len(as))
           r == Signals(c, as, kind, form)
<1>1. P \in SUBSET DOMAIN as
  OBVIOUS
<1>2. r = [i \in DOMAIN q |-> <<q[i], form>>]
  BY DEF Signals
<1> HIDE DEF P
<1>3. /\ Enumerates(at, P) /\ DOMAIN q = DOMAIN at
      /\ \A k \in DOMAIN at : at[k] \in P /\ q[k] = as[at[k]]
  BY <1>1, SelectLemma
<1> HIDE DEF q, at, r
<1>4. DOMAIN at \subseteq Nat /\ \A i, j \in DOMAIN at : i < j => at[i] < at[j]
  BY <1>3 DEF Enumerates, Increasing
<1>5. \A k \in DOMAIN at : at[k] \in Nat
  BY <1>3 DEF Enumerates
<1>6. ASSUME NEW i \in DOMAIN r, NEW j \in DOMAIN r, r[i] = r[j]
      PROVE  i = j
  <2>1. i \in DOMAIN at /\ j \in DOMAIN at /\ q[i] = q[j]
    BY <1>2, <1>3, <1>6
  <2>2. at[i] = at[j]
    BY <1>1, <1>3, <2>1 DEF IsInjective
  <2>3. ~(i < j) /\ ~(j < i)
    BY <1>4, <1>5, <2>1, <2>2
  <2> QED BY <1>4, <2>1, <2>3
<1>7. ASSUME NEW x \in Range(r)
      PROVE  \E a \in Range(as) : x = <<a, form>>
  <2>1. PICK k \in DOMAIN r : r[k] = x
    BY <1>7 DEF Range
  <2>2. x = <<as[at[k]], form>> /\ at[k] \in DOMAIN as
    BY <1>1, <1>2, <1>3, <2>1
  <2> QED BY <2>2 DEF Range
<1> QED BY <1>6, <1>7 DEF IsInjective, r

\* Three lists of signals without repetition, and disjoint, in one.
LEMMA Distinct ==
  ASSUME NEW D, NEW K, NEW R, IsList(D), IsList(K), IsList(R),
         IsInjective(D), IsInjective(K), IsInjective(R),
         \A x \in Range(D), y \in Range(K) : x # y,
         \A x \in Range(D), y \in Range(R) : x # y,
         \A x \in Range(K), y \in Range(R) : x # y
  PROVE  IsInjective(D \o K \o R)
<1> DEFINE DK == D \o K
           io == DK \o R
<1>1. Joins(DK, D, K)
  BY ConcatList
<1> HIDE DEF DK
<1>2. IsList(DK) /\ Range(DK) = Range(D) \cup Range(K)
  BY <1>1, JoinsRange
<1>3. IsInjective(DK)
  BY <1>1, JoinsInjective
<1>4. Joins(io, DK, R)
  BY <1>2, ConcatList
<1> HIDE DEF io
<1>5. \A x \in Range(DK), y \in Range(R) : x # y
  BY <1>2
<1>6. IsInjective(io)
  BY <1>2, <1>3, <1>4, <1>5, JoinsInjective
<1> QED BY <1>6 DEF io, DK

\* The signals of a configuration are such lists, by ConfigsAssumption.
LEMMA IOInjective ==
  ASSUME NEW c \in Configs
  PROVE  IsInjective(IOLocations(c))
<1>1. /\ c.credtype \in {"jwt", "mdl"}
      /\ c.claims \in Seq(STRING) /\ IsInjective(c.claims)
      /\ Range(c.claims) \cap Range(DeviceKeys) = {}
      /\ c.credtype = "mdl" => "valid_until" \notin Range(c.claims)
  BY ConfigsAssumption
<1>2. IsList(c.claims)
  BY <1>1, ListOfSeq
<1>3. /\ IsList(DeviceKeys) /\ IsInjective(DeviceKeys)
      /\ Range(DeviceKeys) = {"device_key_0", "device_key_1"}
  <2>1. IsList(DeviceKeys)
    BY PairsAreLists DEF DeviceKeys
  <2>2. IsInjective(DeviceKeys)
    BY DEF DeviceKeys, IsInjective
  <2>3. Range(DeviceKeys) = {"device_key_0", "device_key_1"}
    BY DEF DeviceKeys, Range
  <2> QED BY <2>1, <2>2, <2>3
<1>4. IsList(WithDeviceKeys(c)) /\ IsInjective(WithDeviceKeys(c))
  <2> DEFINE q == c.claims \o DeviceKeys
  <2>1. Joins(q, c.claims, DeviceKeys)
    BY <1>2, <1>3, ConcatList
  <2> HIDE DEF q
  <2>2. \A x \in Range(c.claims), y \in Range(DeviceKeys) : x # y
    BY <1>1
  <2>3. IsInjective(q)
    BY <1>1, <1>2, <1>3, <2>1, <2>2, JoinsInjective
  <2>4. IsList(q)
    BY <2>1, JoinsRange
  <2> QED BY <1>1, <1>2, <2>3, <2>4 DEF WithDeviceKeys, q
<1>5. CASE c.credtype = "jwt"
  <2> DEFINE D == Signals(c, WithDeviceKeys(c), "digest", "digest")
             R == Signals(c, WithDeviceKeys(c), "reveal", "value")
             K == <<<<"modulus", "key">>>>
  <2>1. /\ IsList(D) /\ IsInjective(D)
        /\ \A x \in Range(D) : \E a \in Range(WithDeviceKeys(c)) :
              x = <<a, "digest">>
    BY <1>4, SignalsList, SignalsInjective
  <2>2. /\ IsList(R) /\ IsInjective(R)
        /\ \A x \in Range(R) : \E a \in Range(WithDeviceKeys(c)) :
              x = <<a, "value">>
    BY <1>4, SignalsList, SignalsInjective
  <2>3. IsList(K)
    BY PairsAreLists
  <2>4. IsInjective(K) /\ Range(K) = {<<"modulus", "key">>}
    BY DEF IsInjective, Range
  <2>5. IOLocations(c) = D \o K \o R
    BY <1>5 DEF IOLocations, JwtSignals
  <2> HIDE DEF D, R, K
  <2>6. \A x \in Range(D), y \in Range(K) : x # y
    BY <2>1, <2>4
  <2>7. \A x \in Range(D), y \in Range(R) : x # y
    BY <2>1, <2>2
  <2>8. \A x \in Range(K), y \in Range(R) : x # y
    BY <2>2, <2>4
  <2> QED BY <2>1, <2>2, <2>3, <2>4, <2>5, <2>6, <2>7, <2>8, Distinct
<1>6. CASE c.credtype = "mdl"
  <2> DEFINE D == Signals(c, c.claims, "digest", "digest")
             R == Signals(c, c.claims, "reveal", "value")
             K == <<<<"pubkey_hash", "key">>, Value("valid_until"),
                    Value("device_key_0"), Value("device_key_1")>>
  <2>1. /\ IsList(D) /\ IsInjective(D)
        /\ \A x \in Range(D) : \E a \in Range(c.claims) : x = <<a, "digest">>
    BY <1>1, <1>2, SignalsList, SignalsInjective
  <2>2. /\ IsList(R) /\ IsInjective(R)
        /\ \A x \in Range(R) : \E a \in Range(c.claims) : x = <<a, "value">>
    BY <1>1, <1>2, SignalsList, SignalsInjective
  <2>3. IsList(K)
    BY PairsAreLists
  <2>4. /\ IsInjective(K)
        /\ Range(K) = {<<"pubkey_hash", "key">>, <<"valid_until", "value">>,
                       <<"device_key_0", "value">>, <<"device_key_1", "value">>}
    BY DEF IsInjective, Range, Value
  <2>5. IOLocations(c) = D \o K \o R
    BY <1>6 DEF IOLocations, MdlSignals
  <2> HIDE DEF D, R, K
  <2>6. \A x \in Range(D), y \in Range(K) : x # y
    BY <2>1, <2>4
  <2>7. \A x \in Range(D), y \in Range(R) : x # y
    BY <2>1, <2>2
  <2>8. \A x \in Range(K), y \in Range(R) : x # y
    BY <1>1, <1>3, <1>6, <2>2, <2>4
  <2> QED BY <2>1, <2>2, <2>3, <2>4, <2>5, <2>6, <2>7, <2>8, Distinct
<1> QED BY <1>1, <1>5, <1>6

(***************************************************************************)
(* Signals that are named by location, as a list of their places.          *)
(***************************************************************************)
LEMMA LocationsEnumerate ==
  ASSUME NEW io, IsList(io), IsInjective(io), NEW q, IsList(q),
         ByLocation(io, q), \A k \in DOMAIN q : HasLocation(io, q[k])
  PROVE  Enumerates([k \in DOMAIN q |-> Location(io, q[k])],
                    {i \in DOMAIN io : io[i] \in Range(q)})
<1> DEFINE r == [k \in DOMAIN q |-> Location(io, q[k])]
           P == {i \in DOMAIN io : io[i] \in Range(q)}
<1>1. \A k \in DOMAIN q : r[k] \in DOMAIN io /\ io[r[k]] = q[k]
  BY LocationOf
<1>2. /\ DOMAIN io \subseteq Nat
      /\ Len(q) \in Nat /\ DOMAIN q = 1 .. Len(q)
  BY ListFacts
<1>3. r \in Seq(Nat) /\ DOMAIN r = DOMAIN q
  <2>1. \A k \in 1 .. Len(q) : r[k] \in Nat
    BY <1>1, <1>2
  <2>2. r = [k \in 1 .. Len(q) |-> r[k]]
    BY <1>2
  <2> HIDE DEF r
  <2> QED BY <1>2, <2>1, <2>2
<1>4. Increasing(r)
  BY DEF Increasing, ByLocation
<1> HIDE DEF r
<1>5. ASSUME NEW i \in P PROVE i \in Range(r)
  <2>1. PICK k \in DOMAIN q : q[k] = io[i]
    BY <1>5 DEF Range
  <2>2. r[k] = i
    BY <1>1, <2>1 DEF IsInjective
  <2> QED BY <1>3, <2>2 DEF Range
<1>6. ASSUME NEW i \in Range(r) PROVE i \in P
  <2>1. PICK k \in DOMAIN q : r[k] = i
    BY <1>3, <1>6 DEF Range
  <2> QED BY <1>1, <2>1 DEF Range
<1> QED BY <1>3, <1>4, <1>5, <1>6 DEF Enumerates, r

(***************************************************************************)
(* The signals that are committed to, one by one.                          *)
(***************************************************************************)
LEMMA CommittedLemma ==
  ASSUME NEW s, IsList(s.ranges)
  PROVE  LET q == CommittedSignals(s)
         IN  /\ IsList(q) /\ 1 \in DOMAIN q /\ q[1] = Value(ExpName(s.config))
             /\ Len(q) = FirstRange(s) - 1 + Len(s.ranges)
             /\ s.device_bound => /\ 2 \in DOMAIN q /\ 3 \in DOMAIN q
                                  /\ q[2] = Value(DeviceKeys[1])
                                  /\ q[3] = Value(DeviceKeys[2])
             /\ \A k \in DOMAIN s.ranges :
                   /\ FirstRange(s) + k - 1 \in DOMAIN q
                   /\ q[FirstRange(s) + k - 1] = Value(s.ranges[k])
             /\ \A x : x \in Range(q) <=>
                   \/ x = Value(ExpName(s.config))
                   \/ /\ s.device_bound
                      /\ x \in {Value(DeviceKeys[1]), Value(DeviceKeys[2])}
                   \/ \E k \in DOMAIN s.ranges : x = Value(s.ranges[k])
<1> DEFINE e == <<Value(ExpName(s.config))>>
           d == IF s.device_bound THEN <<Value(DeviceKeys[1]),
                                         Value(DeviceKeys[2])>> ELSE <<>>
           r == [k \in DOMAIN s.ranges |-> Value(s.ranges[k])]
           ed == e \o d
           q == ed \o r
           first == FirstRange(s)
<1>1. q = CommittedSignals(s)
  BY DEF CommittedSignals
<1>2. /\ IsList(e) /\ Len(e) = 1 /\ DOMAIN e = {1}
      /\ e[1] = Value(ExpName(s.config)) /\ Range(e) = {e[1]}
  <2>1. IsList(e)
    BY PairsAreLists
  <2>2. Len(e) = 1 /\ DOMAIN e = {1} /\ e[1] = Value(ExpName(s.config))
    OBVIOUS
  <2> QED BY <2>1, <2>2 DEF Range
<1>3. /\ IsList(d) /\ Len(d) + 2 = first
      /\ s.device_bound => /\ DOMAIN d = {1, 2}
                           /\ d[1] = Value(DeviceKeys[1])
                           /\ d[2] = Value(DeviceKeys[2])
                           /\ Range(d) = {d[1], d[2]}
      /\ ~s.device_bound => Range(d) = {}
  <2>1. CASE s.device_bound
    <3>1. d = <<Value(DeviceKeys[1]), Value(DeviceKeys[2])>>
      BY <2>1
    <3>2. IsList(d)
      BY <3>1, PairsAreLists
    <3>3. /\ Len(d) = 2 /\ DOMAIN d = {1, 2} /\ d[1] = Value(DeviceKeys[1])
          /\ d[2] = Value(DeviceKeys[2])
      BY <3>1
    <3>4. Range(d) = {d[1], d[2]}
      BY <3>3 DEF Range
    <3>5. first = 4
      BY <2>1 DEF FirstRange
    <3> HIDE DEF d, first
    <3> QED BY <2>1, <3>2, <3>3, <3>4, <3>5
  <2>2. CASE ~s.device_bound
    <3>1. d = <<>> /\ first = 2
      BY <2>2 DEF FirstRange
    <3>2. <<>> \in Seq({}) /\ Len(<<>>) = 0 /\ DOMAIN <<>> = {}
      OBVIOUS
    <3>3. IsList(<<>>) /\ Range(<<>>) = {}
      BY <3>2, ListOfSeq DEF Range
    <3> HIDE DEF d, first
    <3> QED BY <2>2, <3>1, <3>2, <3>3
  <2> QED BY <2>1, <2>2
<1>4. /\ Len(s.ranges) \in Nat /\ DOMAIN s.ranges = 1 .. Len(s.ranges)
      /\ DOMAIN r = DOMAIN s.ranges
      /\ \A k \in DOMAIN r : r[k] = Value(s.ranges[k])
  BY ListFacts
<1>5. IsList(r) /\ Len(r) = Len(s.ranges)
  <2>1. r = [k \in 1 .. Len(s.ranges) |-> r[k]]
    BY <1>4
  <2> HIDE DEF r
  <2> QED BY <1>4, <2>1, ListOfFunction
<1> HIDE DEF e, d, r, ed, q, first
<1>6. Joins(ed, e, d)
  BY <1>2, <1>3, ConcatList DEF ed
<1>7. IsList(ed) /\ Range(ed) = Range(e) \cup Range(d)
  BY <1>6, JoinsRange
<1>8. Joins(q, ed, r)
  BY <1>5, <1>7, ConcatList DEF q
<1>9. IsList(q) /\ Range(q) = Range(e) \cup Range(d) \cup Range(r)
  BY <1>7, <1>8, JoinsRange
<1>10. Len(d) \in Nat
  BY <1>3, ListFacts
<1>11. Len(ed) = Len(d) + 1 /\ Len(q) = first - 1 + Len(s.ranges)
         /\ Len(ed) = first - 1
  <2>1. Len(ed) = Len(e) + Len(d) /\ Len(q) = Len(ed) + Len(r)
    BY <1>6, <1>8 DEF Joins
  <2>2. Len(e) = 1 /\ Len(d) + 2 = first /\ Len(r) = Len(s.ranges)
    BY <1>2, <1>3, <1>5
  <2>3. Len(s.ranges) \in Nat
    BY <1>4
  <2>4. Len(ed) = Len(d) + 1 /\ first \in Nat
    BY <1>10, <2>1, <2>2
  <2>5. Len(ed) = first - 1
    BY <1>10, <2>2, <2>4
  <2>6. Len(q) = first - 1 + Len(s.ranges)
    BY <2>1, <2>2, <2>5
  <2> QED BY <2>4, <2>5, <2>6
<1>12. 1 \in DOMAIN q /\ q[1] = e[1]
  BY <1>2, <1>6, <1>8 DEF Joins
<1>13. s.device_bound => /\ 2 \in DOMAIN q /\ 3 \in DOMAIN q
                         /\ q[2] = d[1] /\ q[3] = d[2]
  <2> SUFFICES ASSUME s.device_bound
               PROVE  /\ 2 \in DOMAIN q /\ 3 \in DOMAIN q
                      /\ q[2] = d[1] /\ q[3] = d[2]
    OBVIOUS
  <2>1. /\ 1 + 1 \in DOMAIN ed /\ 1 + 2 \in DOMAIN ed
        /\ ed[1 + 1] = d[1] /\ ed[1 + 2] = d[2]
    BY <1>2, <1>3, <1>6 DEF Joins
  <2> QED BY <1>8, <2>1 DEF Joins
<1>14. \A k \in DOMAIN s.ranges :
          first + k - 1 \in DOMAIN q /\ q[first + k - 1] = Value(s.ranges[k])
  <2> TAKE k \in DOMAIN s.ranges
  <2>1. Len(ed) + k \in DOMAIN q /\ q[Len(ed) + k] = r[k]
    BY <1>4, <1>8 DEF Joins
  <2>2. first - 1 + k = first + k - 1
    BY <1>3, <1>4, <1>10
  <2> QED BY <1>4, <1>11, <2>1, <2>2
<1>15. \A x : x \in Range(r) <=>
          \E k \in DOMAIN s.ranges : x = Value(s.ranges[k])
  BY <1>4 DEF Range
<1>16. ASSUME NEW x
       PROVE  x \in Range(q) <=>
                   \/ x = Value(ExpName(s.config))
                   \/ /\ s.device_bound
                      /\ x \in {Value(DeviceKeys[1]), Value(DeviceKeys[2])}
                   \/ \E k \in DOMAIN s.ranges : x = Value(s.ranges[k])
  BY <1>2, <1>3, <1>9, <1>15
<1> QED BY <1>1, <1>2, <1>3, <1>9, <1>11, <1>12, <1>13, <1>14, <1>16 DEF first

\* In that order, what is opened by index is what was committed to.
LEMMA CommittedPlaces ==
  ASSUME NEW io, NEW p, NEW s, Layout(io, p), IsInjective(io),
         IsList(s.ranges), HasSignals(io, s), InOrder(io, s)
  PROVE  Places(IOTypes(io, s), "Committed")
           = [k \in DOMAIN CommittedSignals(s) |->
                 Location(io, CommittedSignals(s)[k])]
<1> DEFINE q == CommittedSignals(s)
           r == [k \in DOMAIN q |-> Location(io, q[k])]
           types == IOTypes(io, s)
           P == {i \in DOMAIN types : types[i] = "Committed"}
           Q == {i \in DOMAIN io : io[i] \in Range(q)}
<1>1. /\ IsList(q)
      /\ \A x : x \in Range(q) <=>
             \/ x = Value(ExpName(s.config))
             \/ /\ s.device_bound
                /\ x \in {Value(DeviceKeys[1]), Value(DeviceKeys[2])}
             \/ \E k \in DOMAIN s.ranges : x = Value(s.ranges[k])
  BY CommittedLemma
<1>2. IsList(io) /\ Len(io) \in Nat /\ DOMAIN io = 1 .. Len(io)
  BY ListFacts DEF Layout
<1>3. \A k \in DOMAIN q : HasLocation(io, q[k])
  <2>1. \A x \in Range(q) : HasLocation(io, x)
    BY <1>1 DEF HasSignals
  <2> QED BY <2>1 DEF Range
<1>4. Enumerates(r, Q)
  <2>1. ByLocation(io, q)
    BY DEF InOrder
  <2> HIDE DEF q
  <2> QED BY <1>1, <1>2, <1>3, <2>1, LocationsEnumerate
<1>5. ASSUME NEW i \in DOMAIN io
      PROVE  types[i] = "Committed" <=> io[i] \in Range(q)
  <2> DEFINE device == /\ s.device_bound
                       /\ io[i] \in {Value(DeviceKeys[1]), Value(DeviceKeys[2])}
             other == \/ io[i] = Value(ExpName(s.config))
                      \/ \E k \in DOMAIN s.ranges : io[i] = Value(s.ranges[k])
  <2>1. types[i] = IF device THEN "Committed"
                   ELSE IF io[i] \in Asked(s) \cup PublicKey THEN "Revealed"
                   ELSE IF other THEN "Committed" ELSE "Hidden"
    BY DEF IOTypes
  <2>2. io[i] \in Range(q) <=> device \/ other
    BY <1>1
  <2>3. device \/ other => io[i] \notin PublicKey
    BY DEF Value, PublicKey
  <2>4. device \/ other => io[i] \notin Asked(s)
    <3>1. device \/ other => \A a : io[i] # Digest(a)
      BY DEF Value, Digest
    <3>2. io[i] \in Range(q) => io[i] \notin Range(RevealedSignals(s))
      BY DEF InOrder
    <3>3. \A k \in DOMAIN s.revealed :
             Value(s.revealed[k]) \in Range(RevealedSignals(s))
      BY DEF RevealedSignals, Range
    <3> HIDE DEF device, other, q
    <3> QED BY <2>2, <3>1, <3>2, <3>3 DEF Asked
  <2> HIDE DEF device, other, q, types
  <2> QED BY <2>1, <2>2, <2>3, <2>4
<1>6. DOMAIN types = DOMAIN io
  BY DEF IOTypes
<1>7. types = [i \in 1 .. Len(io) |-> types[i]]
  BY <1>2 DEF IOTypes
<1> HIDE DEF q, r, types
<1>8. P = Q /\ P \in SUBSET (1 .. Len(io))
  BY <1>2, <1>5, <1>6
<1>9. Len(types) = Len(io)
  BY <1>2, <1>7, ListOfFunction
<1> HIDE DEF P, Q
<1>10. Enumerates(Ordered(P, Len(io)), P)
  BY <1>2, <1>8, OrderedEnumerates
<1>11. Ordered(P, Len(io)) = r
  BY <1>4, <1>8, <1>10, EnumerationIsUnique
<1> QED BY <1>9, <1>11 DEF Places, P, types, r, q

(***************************************************************************)
(* The revealed inputs after the key are the revealed attributes.          *)
(***************************************************************************)
LEMMA RevealedAfterKey ==
  ASSUME NEW io, NEW p, NEW s, Layout(io, p), InOrder(io, s),
         IsList(s.ranges)
  PROVE  PlacesAfter(io, s, p)
           = {i \in DOMAIN io : io[i] \in Range(RevealedSignals(s))}
<1>1. ASSUME NEW i \in DOMAIN io
      PROVE  i > p /\ IOTypes(io, s)[i] = "Revealed"
               <=> io[i] \in Range(RevealedSignals(s))
  <2> DEFINE device == /\ s.device_bound
                       /\ io[i] \in {Value(DeviceKeys[1]), Value(DeviceKeys[2])}
             other == \/ io[i] = Value(ExpName(s.config))
                      \/ \E k \in DOMAIN s.ranges : io[i] = Value(s.ranges[k])
  <2>1. IOTypes(io, s)[i]
          = IF device THEN "Committed"
            ELSE IF io[i] \in Asked(s) \cup PublicKey THEN "Revealed"
            ELSE IF other THEN "Committed" ELSE "Hidden"
    BY DEF IOTypes
  <2>2. io[i] \in Range(RevealedSignals(s))
          <=> \E k \in DOMAIN s.revealed : io[i] = Value(s.revealed[k])
    BY DEF RevealedSignals, Range
  <2>3. p \in Nat /\ i \in Nat
    BY ListFacts DEF Layout
  <2>4. io[i] \in Range(RevealedSignals(s)) => i > p
    <3>1. i < p => io[i] = Digest(io[i][1])
      BY DEF Layout
    <3>2. i = p => io[i] \in PublicKey
      BY DEF Layout
    <3> QED BY <2>2, <2>3, <3>1, <3>2 DEF Digest, Value, PublicKey
  <2>5. device => io[i] \notin Range(RevealedSignals(s))
    <3>1. device => io[i] \in Range(CommittedSignals(s))
      BY CommittedLemma
    <3> QED BY <3>1 DEF InOrder
  <2>6. i > p => io[i] \notin PublicKey /\ \A a : io[i] # Digest(a)
    <3>1. i > p => io[i] = Value(io[i][1])
      BY DEF Layout
    <3> QED BY <3>1 DEF Digest, Value, PublicKey
  <2>7. i > p => ( io[i] \in Asked(s)
                     <=> io[i] \in Range(RevealedSignals(s)) )
    BY <2>2, <2>6 DEF Asked
  <2> HIDE DEF device, other
  <2> QED BY <2>1, <2>4, <2>5, <2>6, <2>7
<1> QED BY <1>1 DEF PlacesAfter

(***************************************************************************)
(* A show made by the book, in that order, is accepted.                    *)
(***************************************************************************)
LEMMA PublicInputsAgree ==
  ASSUME NEW c \in Configs, NEW cr, NEW g, NEW r, NEW t, NEW sp, NEW vp,
         ListedSpec(sp), IsList(Names), IsList(c.claims),
         cr["issuer"] = vp.issuer,
         InOrder(IOLocations(c), InternalSpec(sp, c)),
         HasSignals(IOLocations(c), InternalSpec(sp, c))
  PROVE  LET io == IOLocations(c)
             s == InternalSpec(sp, c)
             proof == ShowProof(StateOf(c, g, cr), io, r, sp, t)
             places == Places(IOTypes(io, s), "Revealed")
             public == PublicInputs(vp, io, s, proof)
         IN  /\ Len(places) <= Len(public)
             /\ \A k \in DOMAIN places : public[k] = proof.inputs[places[k]]
<1> DEFINE io == IOLocations(c)
           s == InternalSpec(sp, c)
           proof == ShowProof(StateOf(c, g, cr), io, r, sp, t)
           places == Places(IOTypes(io, s), "Revealed")
           public == PublicInputs(vp, io, s, proof)
           sigs == RevealedSignals(s)
           h == Ordered(HashedPlaces(io, s.hashed), Len(io))
           d == KnownDigests(io, s, proof)
           rv == proof.revealed_inputs
           at == [k \in DOMAIN sigs |-> Location(io, sigs[k])]
           inputs == Inputs(io, cr)
<1>1. PICK p : Layout(io, p)
  BY IOLayout
<1>2. /\ IsList(s.revealed) /\ IsList(s.hashed) /\ IsList(s.ranges)
      /\ s.config = c
  BY InternalSpecLemma
<1>3. /\ proof.inputs = inputs
      /\ rv = [k \in DOMAIN s.revealed |->
                  inputs[Location(io, Value(s.revealed[k]))]]
      /\ proof.revealed_preimages = [a \in Range(s.hashed) |-> cr[a]]
  BY DEF StateOf, ShowProof, Preimages
<1>4. public = d \o <<vp.issuer>> \o rv
  BY DEF PublicInputs, KnownDigests
<1>5. IsInjective(io) /\ IsList(io)
  BY <1>1, IOInjective DEF Layout
<1>6. HasSignals(io, s) /\ InOrder(io, s)
  OBVIOUS
<1> HIDE DEF io, s, proof, public, places, inputs, d, rv
<1>7. /\ Len(s.revealed) \in Nat /\ DOMAIN s.revealed = 1 .. Len(s.revealed)
      /\ DOMAIN sigs = DOMAIN s.revealed
      /\ \A k \in DOMAIN sigs : /\ sigs[k] = Value(s.revealed[k])
                                /\ HasLocation(io, sigs[k])
  BY <1>2, <1>6, ListFacts DEF RevealedSignals, HasSignals, Asked
<1>8. IsList(sigs)
  <2>1. sigs = [k \in 1 .. Len(s.revealed) |-> sigs[k]]
    BY <1>7 DEF RevealedSignals
  <2> HIDE DEF sigs
  <2> QED BY <1>7, <2>1, ListOfFunction
<1>9. Enumerates(at, PlacesAfter(io, s, p))
  <2>1. ByLocation(io, sigs)
    BY <1>6 DEF InOrder
  <2>2. PlacesAfter(io, s, p) = {i \in DOMAIN io : io[i] \in Range(sigs)}
    BY <1>1, <1>2, <1>6, RevealedAfterKey
  <2> HIDE DEF sigs
  <2> QED BY <1>5, <1>7, <1>8, <2>1, <2>2, LocationsEnumerate
<1>10. places = h \o <<p>> \o at
  <2> DEFINE a == Ordered(PlacesAfter(io, s, p), Len(io))
  <2>1. places = h \o <<p>> \o a /\ Enumerates(a, PlacesAfter(io, s, p))
    BY <1>1, RevealedPlaces DEF places
  <2> HIDE DEF a, at, h
  <2>2. a = at
    BY <1>9, <2>1, EnumerationIsUnique
  <2> QED BY <2>1, <2>2
<1>11. /\ IsList(d) /\ IsList(h) /\ Len(d) = Len(h)
       /\ \A k \in DOMAIN h :
             /\ h[k] \in HashedPlaces(io, s.hashed)
             /\ d[k] = HashOf(proof.revealed_preimages[io[h[k]][1]])
  BY <1>1, DigestsLemma DEF d
<1>12. DOMAIN at = DOMAIN sigs
  OBVIOUS
<1>13. IsList(at) /\ Len(at) = Len(s.revealed)
  <2>1. at = [k \in 1 .. Len(s.revealed) |-> at[k]]
    BY <1>7
  <2> HIDE DEF at
  <2> QED BY <1>7, <2>1, ListOfFunction
<1>14. /\ IsList(rv) /\ Len(rv) = Len(s.revealed)
       /\ \A k \in DOMAIN s.revealed : rv[k] = inputs[at[k]]
  <2>1. rv = [k \in 1 .. Len(s.revealed) |-> rv[k]]
    BY <1>3, <1>7
  <2>2. IsList(rv) /\ Len(rv) = Len(s.revealed)
    BY <1>7, <2>1, ListOfFunction
  <2>3. \A k \in DOMAIN s.revealed : rv[k] = inputs[at[k]]
    BY <1>3, <1>7
  <2> QED BY <2>2, <2>3
<1>15. \A k \in DOMAIN h : d[k] = inputs[h[k]]
  <2> TAKE k \in DOMAIN h
  <2>1. h[k] \in DOMAIN io /\ \E i \in DOMAIN s.hashed :
            io[h[k]] = Digest(s.hashed[i])
    BY <1>11 DEF HashedPlaces
  <2>2. PICK i \in DOMAIN s.hashed : io[h[k]] = Digest(s.hashed[i])
    BY <2>1
  <2>3. io[h[k]][1] = s.hashed[i]
    BY <2>2 DEF Digest
  <2>4. s.hashed[i] \in Range(s.hashed)
    BY DEF Range
  <2>5. d[k] = HashOf(cr[s.hashed[i]])
    BY <1>3, <1>11, <2>3, <2>4
  <2>6. inputs[h[k]] = HashOf(cr[s.hashed[i]])
    BY <2>1, <2>2, InputOf DEF inputs
  <2> QED BY <2>5, <2>6
<1>16. vp.issuer = inputs[p]
  <2>1. p \in DOMAIN io /\ io[p] \in PublicKey
    BY <1>1 DEF Layout
  <2> QED BY <2>1, InputOf DEF inputs
<1> HIDE DEF h, at, sigs
<1>17. Around(places, h, p, at)
  BY <1>10, <1>11, <1>13, ConcatAround
<1>18. Around(public, d, vp.issuer, rv)
  BY <1>4, <1>11, <1>14, ConcatAround
<1>19. /\ Len(h) \in Nat /\ DOMAIN h = 1 .. Len(h) /\ DOMAIN d = 1 .. Len(h)
       /\ Len(at) \in Nat /\ DOMAIN at = 1 .. Len(at)
       /\ DOMAIN rv = 1 .. Len(at) /\ DOMAIN s.revealed = 1 .. Len(at)
       /\ DOMAIN places = 1 .. Len(h) + 1 + Len(at)
  <2>1. /\ Len(h) \in Nat /\ DOMAIN h = 1 .. Len(h)
        /\ DOMAIN d = 1 .. Len(d) /\ Len(at) \in Nat
        /\ DOMAIN at = 1 .. Len(at) /\ DOMAIN rv = 1 .. Len(rv)
    BY <1>11, <1>13, <1>14, ListFacts
  <2>2. DOMAIN places = 1 .. Len(places) /\ Len(places) = Len(h) + 1 + Len(at)
    BY <1>17, ListFacts DEF Around
  <2> QED BY <1>7, <1>11, <1>13, <1>14, <2>1, <2>2
<1>20. Len(places) <= Len(public)
  BY <1>11, <1>13, <1>14, <1>17, <1>18, <1>19 DEF Around
<1>21. ASSUME NEW k \in DOMAIN places PROVE public[k] = inputs[places[k]]
  <2>1. CASE k \in DOMAIN h
    <3>1. places[k] = h[k] /\ public[k] = d[k]
      BY <1>17, <1>18, <1>19, <2>1 DEF Around
    <3> QED BY <1>15, <2>1, <3>1
  <2>2. CASE k = Len(h) + 1
    <3>1. places[k] = p /\ public[k] = vp.issuer
      BY <1>11, <1>17, <1>18, <2>2 DEF Around
    <3> QED BY <1>16, <3>1
  <2>3. CASE k > Len(h) + 1
    <3> DEFINE j == k - (Len(h) + 1)
    <3>1. j \in 1 .. Len(at) /\ Len(h) + 1 + j = k
      BY <1>19, <2>3
    <3> HIDE DEF j
    <3>2. places[Len(h) + 1 + j] = at[j]
      BY <1>17, <1>19, <3>1 DEF Around
    <3>3. public[Len(h) + 1 + j] = rv[j]
      BY <1>11, <1>18, <1>19, <3>1 DEF Around
    <3> QED BY <1>14, <1>19, <3>1, <3>2, <3>3
  <2> QED BY <1>19, <2>1, <2>2, <2>3
<1> QED BY <1>3, <1>20, <1>21 DEF io, s, proof, public, places

\* With the keys of one zksetup, for the same specification, in time.
LEMMA HonestShow ==
  ASSUME NEW c \in Configs, NEW cr, NEW g, NEW r, NEW t \in Nat,
         NEW now \in Nat, NEW sp, NEW vp,
         ListedSpec(sp), IsList(Names), IsList(c.claims),
         vp.io = IOLocations(c), vp.config = c, cr["issuer"] = vp.issuer,
         vp.vk = g, vp.pvk = g, vp.range_vk = r, now <= t + Validity,
         InOrder(IOLocations(c), InternalSpec(sp, c)),
         Shows(StateOf(c, g, cr), IOLocations(c), sp, t)
  PROVE  Accepts(vp, ShowProof(StateOf(c, g, cr), IOLocations(c), r, sp, t),
                 sp, now)
<1> DEFINE io == IOLocations(c)
           s == InternalSpec(sp, c)
           cs == StateOf(c, g, cr)
           proof == ShowProof(cs, io, r, sp, t)
           open == Opened(cs, io, sp)
           q == CommittedSignals(s)
<1>1. cs.gen = g /\ cs.config = c
  BY DEF StateOf
<1>2. /\ proof.gen = g /\ proof.range = r /\ proof.context = s
      /\ proof.types = IOTypes(io, s) /\ proof.cur_time = t
      /\ DOMAIN proof.revealed_preimages = Range(s.hashed)
      /\ proof.show_range_attr = [k \in DOMAIN s.ranges |->
                                     open[FirstRange(s) + k - 1]]
      /\ s.device_bound => proof.device = <<open[2], open[3]>>
  BY <1>1 DEF ShowProof, Preimages
<1>3. SpecAccepted(sp, c) /\ HasSignals(io, s)
  BY <1>1 DEF Shows
<1>4. IsList(s.ranges) /\ s.config = c
  BY InternalSpecLemma
<1>5. open = [k \in DOMAIN q |-> Location(io, q[k])]
  <2>1. PICK p : Layout(io, p)
    BY IOLayout
  <2>2. IsInjective(io)
    BY IOInjective
  <2>3. open = Places(IOTypes(io, s), "Committed")
    BY <1>1 DEF Opened
  <2> QED BY <1>3, <1>4, <2>1, <2>2, <2>3, CommittedPlaces
<1>6. open = Places(IOTypes(io, s), "Committed")
  BY <1>1 DEF Opened
<1>7. Groth16Verifies(vp, io, s, proof)
  <2> DEFINE places == Places(IOTypes(io, s), "Revealed")
             public == PublicInputs(vp, io, s, proof)
  <2>1. /\ Len(places) <= Len(public)
        /\ \A k \in DOMAIN places : public[k] = proof.inputs[places[k]]
    BY <1>3, PublicInputsAgree
  <2> HIDE DEF places, public, s, proof, io
  <2> QED BY <1>2, <2>1 DEF Groth16Verifies, SameContext, places, public
<1>8. IsFresh(proof, now)
  <2>1. now > t => now - t <= Validity
    BY ShowAssumption
  <2> HIDE DEF proof
  <2> QED BY <1>2, <2>1, ShowAssumption DEF IsFresh
<1>9. /\ 1 \in DOMAIN q /\ q[1] = Value(ExpName(s.config))
      /\ s.device_bound => /\ 2 \in DOMAIN q /\ 3 \in DOMAIN q
                           /\ q[2] = Value(DeviceKeys[1])
                           /\ q[3] = Value(DeviceKeys[2])
      /\ \A k \in DOMAIN s.ranges :
            /\ FirstRange(s) + k - 1 \in DOMAIN q
            /\ q[FirstRange(s) + k - 1] = Value(s.ranges[k])
  BY <1>4, CommittedLemma
<1> HIDE DEF s, q, open, proof, io, cs
<1>10. RangesVerify(vp, io, s, proof)
  <2>1. open[1] = Location(io, Value(ExpName(s.config)))
    BY <1>5, <1>9
  <2>2. \A k \in DOMAIN s.ranges :
           proof.show_range_attr[k] = Location(io, Value(s.ranges[k]))
    BY <1>2, <1>5, <1>9
  <2>3. DOMAIN proof.show_range_attr = DOMAIN s.ranges
    BY <1>2
  <2> QED BY <1>2, <1>6, <2>1, <2>2, <2>3 DEF RangesVerify
<1>11. DeviceVerifies(io, s, proof)
  BY <1>2, <1>5, <1>9 DEF DeviceVerifies
<1>12. Range(s.hashed) \subseteq DOMAIN proof.revealed_preimages
  BY <1>2
<1> QED BY <1>3, <1>7, <1>8, <1>10, <1>11, <1>12
         DEF Accepts, io, s, cs, proof

-----------------------------------------------------------------------------
(***************************************************************************)
(* What can be seen of a show proof depends on what it reveals only.       *)
(***************************************************************************)
LEMMA VisibleIsAsked ==
  ASSUME NEW sp, NEW c1, NEW c2, ListedSpec(sp), IsList(Names),
         \A a \in Range(sp.revealed) : c1[a] = c2[a],
         Visible(c1, IOLocations(config), sp) # <<>>,
         Visible(c2, IOLocations(config), sp) # <<>>
  PROVE  Visible(c1, IOLocations(config), sp)
           = Visible(c2, IOLocations(config), sp)
<1> DEFINE io == IOLocations(config)
           s == InternalSpec(sp, config)
           cs(c) == [gen |-> 1, config |-> config, inputs |-> Inputs(io, c),
                     aux |-> c]
           proof(c) == ShowProof(cs(c), io, 1, sp, clock)
           open == Places(IOTypes(io, s), "Committed")
           seen(c) == <<proof(c).types, proof(c).context,
                        proof(c).revealed_inputs, proof(c).revealed_preimages,
                        proof(c).show_range_attr, proof(c).device,
                        proof(c).cur_time>>
<1>1. ASSUME NEW c, Visible(c, io, sp) # <<>>
      PROVE  Shows(cs(c), io, sp, clock) /\ Visible(c, io, sp) = seen(c)
  BY <1>1 DEF Visible
<1>2. ASSUME NEW c
      PROVE  /\ proof(c).types = IOTypes(io, s) /\ proof(c).context = s
             /\ proof(c).cur_time = clock
             /\ proof(c).show_range_attr
                  = [k \in DOMAIN s.ranges |-> open[FirstRange(s) + k - 1]]
             /\ proof(c).device
                  = IF s.device_bound THEN <<open[2], open[3]>> ELSE <<>>
             /\ proof(c).revealed_inputs = [k \in DOMAIN s.revealed |->
                   Inputs(io, c)[Location(io, Value(s.revealed[k]))]]
             /\ proof(c).revealed_preimages = [a \in Range(s.hashed) |-> c[a]]
  BY DEF ShowProof, Opened, Preimages
<1>3. HasSignals(io, s)
  <2>1. Shows(cs(c1), io, sp, clock)
    BY <1>1
  <2> QED BY <2>1 DEF Shows
<1>4. /\ IsList(s.revealed) /\ IsList(s.hashed)
      /\ Range(s.revealed) \subseteq Range(sp.revealed)
      /\ Range(s.hashed) \subseteq Range(sp.revealed)
  <2>1. /\ IsList(s.revealed) /\ IsList(s.hashed)
        /\ Range(s.revealed) = {a \in Range(sp.revealed) :
                                   KindOf(config, a) # "digest"}
        /\ Range(s.hashed) = {a \in Range(sp.revealed) :
                                 KindOf(config, a) = "digest"}
    BY InternalSpecLemma
  <2> HIDE DEF s
  <2> QED BY <2>1
<1> HIDE DEF s, io, open
<1>5. ASSUME NEW k \in DOMAIN s.revealed
      PROVE  Inputs(io, c1)[Location(io, Value(s.revealed[k]))]
               = Inputs(io, c2)[Location(io, Value(s.revealed[k]))]
  <2> DEFINE a == s.revealed[k]
             l == Location(io, Value(a))
  <2>1. HasLocation(io, Value(a))
    BY <1>3 DEF HasSignals, Asked
  <2>2. l \in DOMAIN io /\ io[l] = Value(a)
    BY <2>1, LocationOf
  <2>3. a \in Range(sp.revealed)
    BY <1>4 DEF Range
  <2> HIDE DEF a, l
  <2>4. Inputs(io, c1)[l] = c1[a] /\ Inputs(io, c2)[l] = c2[a]
    BY <2>2, InputOf
  <2> QED BY <2>3, <2>4 DEF a, l
<1> HIDE DEF proof
<1>6. proof(c1).revealed_inputs = proof(c2).revealed_inputs
  <2> DEFINE given(c) == [k \in DOMAIN s.revealed |->
                             Inputs(io, c)[Location(io, Value(s.revealed[k]))]]
  <2>1. given(c1) = given(c2)
    BY <1>5
  <2>2. /\ proof(c1).revealed_inputs = given(c1)
        /\ proof(c2).revealed_inputs = given(c2)
    BY <1>2
  <2> HIDE DEF given
  <2> QED BY <2>1, <2>2
<1>7. proof(c1).revealed_preimages = proof(c2).revealed_preimages
  <2> DEFINE given(c) == [a \in Range(s.hashed) |-> c[a]]
  <2>1. given(c1) = given(c2)
    BY <1>4
  <2>2. /\ proof(c1).revealed_preimages = given(c1)
        /\ proof(c2).revealed_preimages = given(c2)
    BY <1>2
  <2> HIDE DEF given
  <2> QED BY <2>1, <2>2
<1>8. seen(c1) = seen(c2)
  BY <1>2, <1>6, <1>7
<1> HIDE DEF seen, cs
<1> QED BY <1>1, <1>8 DEF io

-----------------------------------------------------------------------------
(***************************************************************************)
(* The inductive invariant.                                                *)
(***************************************************************************)
CliTypes ==
    /\ config \in Configs /\ spec \in Specs \cup {Missing}
    /\ gen \in Nat /\ complete \in Nat /\ complete <= gen /\ clock \in Nat
    /\ cache = [f \in CacheFiles |-> cache[f]]

\* The writes of a zksetup from its n-th file on.
Remaining(n) ==
    [i \in 1 .. (6 - n) |-> Writing(SetupFiles[n - 1 + i], gen, shown)]

\* A client state is what prove makes, for the configuration in the folder.
ProperState(cs) == cs = StateOf(config, cs.gen, cs.aux)

(* A show proof is what show makes for sh: with range parameters of this   *)
(* zksetup, if it was made with a whole one and no other was begun.        *)
ProperShow(proof, sh) ==
    LET cs == StateOf(config, proof.gen, sh.cred)
        asked == LoadProofSpec(sh.spec, sh.message)
    IN  /\ proof = ShowProof(cs, IOLocations(config), proof.range, asked,
                             proof.cur_time)
        /\ Shows(cs, IOLocations(config), asked, proof.cur_time)
        /\ proof.cur_time \in Nat
        /\ sh.spec \in Specs \cup {Missing} /\ SpecLoads(sh.spec, sh.message)
        /\ sh.gen \in Nat /\ sh.gen <= gen
        /\ sh.gen = gen /\ complete = gen => proof.range = gen

(* While a zksetup writes, its files are this zksetup's up to where it is. *)
SettingUp(n) ==
    /\ writes = Remaining(n) /\ complete < gen
    /\ \A j \in 1 .. (n - 1) : cache[SetupFiles[j]] = gen
    /\ Readable("show_proof") => shown.gen < gen

WritesKnown ==
    \/ writes = <<>>
    \/ \E n \in 1 .. 5 : SettingUp(n)
    \/ \E cs : /\ writes = <<Writing("client_state", cs, shown)>>
               /\ ProperState(cs)
    \/ \E proof, sh : /\ writes = <<Writing("show_proof", proof, sh)>>
                      /\ ProperShow(proof, sh)

\* After a whole zksetup the parameters are its own; or nothing is there.
Bare == writes = <<>> /\ \A f \in CacheFiles : cache[f] = Missing

ParametersKnown == complete = gen =>
    Bare \/ \A f \in Parameters : cache[f] = gen

FilesKnown ==
    /\ Readable("client_state") => ProperState(cache["client_state"])
    /\ Readable("show_proof") => ProperShow(cache["show_proof"], shown)

CliInv == CliTypes /\ WritesKnown /\ ParametersKnown /\ FilesKnown

\* CliInv holds at first: the folder is empty.
LEMMA InitInv == Init => CliInv
<1> SUFFICES ASSUME Init PROVE CliInv
  OBVIOUS
<1>1. CliTypes
  BY DEF Init, CliTypes, Empty
<1>2. Bare /\ WritesKnown /\ ParametersKnown
  BY DEF Init, Bare, WritesKnown, ParametersKnown, Empty
<1>3. FilesKnown
  BY DEF Init, FilesKnown, Readable, Empty, CacheFiles
<1> QED BY <1>1, <1>2, <1>3 DEF CliInv

(***************************************************************************)
(* The files of a zksetup are five, and no others are parameters.          *)
(***************************************************************************)
LEMMA SetupFilesLemma ==
  /\ DOMAIN SetupFiles = 1 .. 5
  /\ \A n \in 1 .. 5 : SetupFiles[n] \in Parameters
  /\ \A f \in Parameters : \E n \in 1 .. 5 : SetupFiles[n] = f
  /\ \A n, k \in 1 .. 5 : SetupFiles[n] = SetupFiles[k] => n = k
  /\ \A n \in 1 .. 5 : SetupFiles[n] = "prover_params" <=> n = 5
  /\ Parameters \subseteq CacheFiles
  /\ {"client_state", "show_proof"} \subseteq CacheFiles \ Parameters
<1>1. DOMAIN SetupFiles = 1 .. 5
  BY DEF SetupFiles
<1>2. /\ SetupFiles[1] = "range_pk" /\ SetupFiles[2] = "range_vk"
      /\ SetupFiles[3] = "groth16_vk" /\ SetupFiles[4] = "groth16_pvk"
      /\ SetupFiles[5] = "prover_params"
  BY DEF SetupFiles
<1>3. \A n \in 1 .. 5 : n \in {1, 2, 3, 4, 5}
  OBVIOUS
<1>4. {1, 2, 3, 4, 5} \subseteq 1 .. 5
  OBVIOUS
<1>5. /\ \A n \in 1 .. 5 : SetupFiles[n] \in Parameters
      /\ \A f \in Parameters : \E n \in 1 .. 5 : SetupFiles[n] = f
  BY <1>2, <1>3, <1>4 DEF Parameters
<1>6. /\ \A n, k \in 1 .. 5 : SetupFiles[n] = SetupFiles[k] => n = k
      /\ \A n \in 1 .. 5 : SetupFiles[n] = "prover_params" <=> n = 5
  BY <1>2, <1>3
<1>7. /\ Parameters \subseteq CacheFiles
      /\ {"client_state", "show_proof"} \subseteq CacheFiles \ Parameters
  BY DEF CacheFiles, Parameters
<1> QED BY <1>1, <1>5, <1>6, <1>7

\* What is left of a list without its first element.
LEMMA TailOf ==
  ASSUME NEW V, NEW q \in Seq(V), q # <<>>
  PROVE  Tail(q) = [i \in 1 .. (Len(q) - 1) |-> q[i + 1]]
<1>1. /\ Tail(q) \in Seq(V) /\ Len(Tail(q)) = Len(q) - 1
      /\ \A i \in 1 .. (Len(q) - 1) : Tail(q)[i] = q[i + 1]
  OBVIOUS
<1>2. Tail(q) = [i \in 1 .. Len(Tail(q)) |-> Tail(q)[i]]
  <2> DEFINE t == Tail(q)
  <2>1. t \in Seq(V)
    BY <1>1
  <2> HIDE DEF t
  <2>2. t = [i \in 1 .. Len(t) |-> t[i]]
    BY <2>1
  <2> QED BY <2>2 DEF t
<1> QED BY <1>1, <1>2

\* The files of a zksetup are written one after the other.
LEMMA RemainingLemma ==
  ASSUME NEW n \in 1 .. 5
  PROVE  /\ Remaining(n) # <<>>
         /\ Head(Remaining(n)) = Writing(SetupFiles[n], gen, shown)
         /\ n < 5 => Tail(Remaining(n)) = Remaining(n + 1)
         /\ n = 5 => Tail(Remaining(n)) = <<>>
<1>1. n - 1 + 1 = n /\ 1 \in 1 .. (6 - n)
  OBVIOUS
<1>2. Remaining(n)[1] = Writing(SetupFiles[n], gen, shown)
  BY <1>1 DEF Remaining
<1>3. Remaining(n) \in Seq(Range(Remaining(n))) /\ Len(Remaining(n)) = 6 - n
  <2> DEFINE q == Remaining(n)
  <2>1. q = [i \in 1 .. (6 - n) |-> q[i]]
    BY DEF Remaining
  <2> HIDE DEF q
  <2>2. IsList(q) /\ Len(q) = 6 - n
    BY <2>1, ListOfFunction
  <2> QED BY <2>2 DEF IsList, q
<1>4. Remaining(n) # <<>> /\ Head(Remaining(n)) = Remaining(n)[1]
  BY <1>3
<1>5. Tail(Remaining(n)) = [i \in 1 .. (5 - n) |-> Remaining(n)[i + 1]]
  <2> DEFINE q == Remaining(n)
  <2> HIDE DEF q
  <2>1. q \in Seq(Range(q)) /\ q # <<>>
    BY <1>3, <1>4 DEF q
  <2>3. Tail(q) = [i \in 1 .. (Len(q) - 1) |-> q[i + 1]]
    BY <2>1, TailOf
  <2>2. Len(q) - 1 = 5 - n
    BY <1>3 DEF q
  <2> QED BY <2>2, <2>3 DEF q
<1>6. ASSUME n < 5 PROVE Tail(Remaining(n)) = Remaining(n + 1)
  <2>1. 6 - (n + 1) = 5 - n
    OBVIOUS
  <2>2. \A i \in 1 .. (5 - n) :
           /\ i + 1 \in 1 .. (6 - n) /\ n - 1 + (i + 1) = n + 1 - 1 + i
    OBVIOUS
  <2>3. \A i \in 1 .. (5 - n) : Remaining(n)[i + 1] = Remaining(n + 1)[i]
    BY <2>1, <2>2 DEF Remaining
  <2>4. Remaining(n + 1) = [i \in 1 .. (5 - n) |-> Remaining(n + 1)[i]]
    BY <2>1 DEF Remaining
  <2> QED BY <1>5, <2>3, <2>4
<1>7. n = 5 => Tail(Remaining(n)) = <<>>
  BY <1>5
<1> QED BY <1>2, <1>4, <1>6, <1>7

(***************************************************************************)
(* Steps of other parts, and steps that only read, keep the invariant.     *)
(***************************************************************************)
LEMMA QuietStep ==
  ASSUME CliInv, UNCHANGED <<config, cache, writes, gen, complete, shown>>,
         spec' \in Specs \cup {Missing}, clock' \in Nat
  PROVE  CliInv'
<1>1. CliTypes'
  BY DEF CliInv, CliTypes
<1>2. \A p, sh : ProperShow(p, sh) => ProperShow(p, sh)'
  BY DEF ProperShow
<1>3. \A cs : ProperState(cs) => ProperState(cs)'
  BY DEF ProperState
<1>4. ASSUME NEW n \in 1 .. 5, SettingUp(n) PROVE SettingUp(n)'
  BY <1>4 DEF SettingUp, Remaining, Readable
<1>5. WritesKnown'
  BY <1>2, <1>3, <1>4 DEF CliInv, WritesKnown
<1>6. ParametersKnown'
  BY DEF CliInv, ParametersKnown, Bare
<1>7. FilesKnown'
  BY <1>2, <1>3 DEF CliInv, FilesKnown, Readable
<1> QED BY <1>1, <1>5, <1>6, <1>7 DEF CliInv

\* run_setup.sh leaves an empty cache.
LEMMA RunSetupInv == CliInv /\ RunSetup => CliInv'
<1> SUFFICES ASSUME CliInv, RunSetup PROVE CliInv'
  OBVIOUS
<1>1. CliTypes'
  BY DEF CliInv, CliTypes, RunSetup, Change, Empty
<1>2. writes' = <<>> /\ cache' = Empty
  BY DEF RunSetup, Change, Idle
<1>3. Bare'
  BY <1>2 DEF Bare, Empty
<1>4. FilesKnown'
  BY <1>2 DEF FilesKnown, Readable, Empty, CacheFiles
<1> QED BY <1>1, <1>2, <1>3, <1>4 DEF CliInv, WritesKnown, ParametersKnown

\* A zksetup begins: all that was made before is now of an earlier one.
LEMMA ZksetupInv == CliInv /\ Zksetup => CliInv'
<1> SUFFICES ASSUME CliInv, Zksetup PROVE CliInv'
  OBVIOUS
<1>1. /\ writes = <<>> /\ gen' = gen + 1
      /\ UNCHANGED <<config, cache, complete, shown, spec, clock>>
      /\ writes' = [i \in DOMAIN SetupFiles |->
                       Writing(SetupFiles[i], gen + 1, shown)]
  BY DEF Zksetup, Idle
<1>2. CliTypes /\ FilesKnown
  BY DEF CliInv
<1>3. CliTypes' /\ complete' < gen'
  BY <1>1, <1>2 DEF CliTypes
<1>4. ASSUME NEW p, NEW sh, ProperShow(p, sh)
      PROVE  ProperShow(p, sh)' /\ sh.gen < gen'
  BY <1>1, <1>2, <1>3, <1>4 DEF ProperShow, CliTypes
<1>5. FilesKnown'
  BY <1>1, <1>2, <1>4 DEF FilesKnown, Readable, ProperState
<1>6. writes' = Remaining(1)'
  <2>1. DOMAIN SetupFiles = 1 .. (6 - 1)
    BY SetupFilesLemma
  <2>2. \A i \in 1 .. (6 - 1) : 1 - 1 + i = i
    OBVIOUS
  <2> QED BY <1>1, <2>1, <2>2 DEF Remaining
<1>7. Readable("show_proof")' => shown'.gen < gen'
  BY <1>1, <1>2, <1>4 DEF FilesKnown, Readable
<1>8. SettingUp(1)'
  BY <1>3, <1>6, <1>7 DEF SettingUp
<1>9. WritesKnown'
  BY <1>8 DEF WritesKnown
<1>10. ParametersKnown'
  BY <1>3 DEF CliTypes, ParametersKnown
<1> QED BY <1>3, <1>5, <1>9, <1>10 DEF CliInv

\* prove queues a client state for the configuration in the folder.
LEMMA ProveInv == CliInv /\ Prove => CliInv'
<1> SUFFICES ASSUME CliInv, Prove PROVE CliInv'
  OBVIOUS
<1>1. /\ writes = <<>> /\ writes' = <<Writing("client_state", ClientState,
                                              shown)>>
      /\ UNCHANGED <<config, cache, gen, complete, shown, spec, clock>>
      /\ Readable("prover_params")
  BY DEF Prove, Idle
<1>2. CliTypes'
  BY <1>1 DEF CliInv, CliTypes
<1>3. ProperState(ClientState)
  BY DEF ProperState, StateOf, ClientState
<1>4. WritesKnown'
  <2>1. PICK cs : /\ writes' = <<Writing("client_state", cs, shown)>>
                  /\ ProperState(cs)
    BY <1>1, <1>3
  <2>2. ProperState(cs)'
    BY <1>1, <2>1 DEF ProperState
  <2> QED BY <1>1, <2>1, <2>2 DEF WritesKnown
<1>5. ParametersKnown'
  BY <1>1 DEF CliInv, ParametersKnown, Bare, Readable, CacheFiles, Parameters
<1>6. FilesKnown'
  BY <1>1 DEF CliInv, FilesKnown, Readable, ProperState, ProperShow
<1> QED BY <1>2, <1>4, <1>5, <1>6 DEF CliInv

\* show queues a show proof for the specification that it has loaded.
LEMMA ShowInv ==
  ASSUME CliInv, NEW m \in Messages, Show(m) PROVE CliInv'
<1> DEFINE cs == cache["client_state"]
           asked == LoadProofSpec(spec, m)
           proof == ShowProof(cs, IOLocations(config), cache["range_pk"],
                              asked, clock)
           sh == [spec |-> spec, message |-> m, gen |-> gen, cred |-> cs.aux]
<1>1. /\ writes = <<>> /\ writes' = <<Writing("show_proof", proof, sh)>>
      /\ UNCHANGED <<config, cache, gen, complete, shown, spec, clock>>
      /\ Readable("client_state") /\ SpecLoads(spec, m)
      /\ Shows(cs, IOLocations(config), asked, clock)
  BY DEF Show, Idle
<1>2. CliTypes /\ ProperState(cs) /\ ParametersKnown
  BY <1>1 DEF CliInv, FilesKnown
<1>3. CliTypes'
  BY <1>1, <1>2 DEF CliTypes
<1>4. /\ proof.gen = cs.gen /\ proof.range = cache["range_pk"]
      /\ proof.cur_time = clock
  BY DEF ShowProof
<1>5. /\ sh.spec = spec /\ sh.message = m /\ sh.gen = gen /\ sh.cred = cs.aux
  OBVIOUS
<1>6. complete = gen => cache["range_pk"] = gen
  BY <1>1, <1>2 DEF ParametersKnown, Bare, Readable, CacheFiles, Parameters
<1>7. cs = StateOf(config, proof.gen, sh.cred)
  BY <1>2, <1>4, <1>5 DEF ProperState
<1>8. proof = ShowProof(StateOf(config, proof.gen, sh.cred),
                        IOLocations(config), proof.range,
                        LoadProofSpec(sh.spec, sh.message), proof.cur_time)
  BY <1>4, <1>5, <1>7
<1>9. Shows(StateOf(config, proof.gen, sh.cred), IOLocations(config),
            LoadProofSpec(sh.spec, sh.message), proof.cur_time)
  BY <1>1, <1>4, <1>5, <1>7
<1> HIDE DEF proof, sh
<1>10. ProperShow(proof, sh)
  BY <1>1, <1>2, <1>4, <1>5, <1>6, <1>8, <1>9 DEF ProperShow, CliTypes
<1>11. PICK p, h : /\ writes' = <<Writing("show_proof", p, h)>>
                   /\ ProperShow(p, h)
  BY <1>1, <1>10 DEF proof, sh
<1>12. WritesKnown'
  <2>1. ProperShow(p, h)'
    BY <1>1, <1>11 DEF ProperShow
  <2> QED BY <1>11, <2>1 DEF WritesKnown
<1>13. ParametersKnown'
  BY <1>1 DEF CliInv, ParametersKnown, Bare, Readable, CacheFiles, Parameters
<1>14. FilesKnown'
  BY <1>1 DEF CliInv, FilesKnown, Readable, ProperState, ProperShow
<1> QED BY <1>3, <1>12, <1>13, <1>14 DEF CliInv

\* Only the write of the first zksetup file of writes is under way.
LEMMA SetupWrite ==
  ASSUME CliInv, ~Idle, NEW n \in 1 .. 5, SettingUp(n)
  PROVE  /\ Head(writes) = Writing(SetupFiles[n], gen, shown)
         /\ Head(writes).file = SetupFiles[n]
         /\ n < 5 => Tail(writes) = Remaining(n + 1)
         /\ n = 5 => Tail(writes) = <<>>
         /\ SetupFiles[n] \in Parameters
         /\ SetupFiles[n] = "prover_params" <=> n = 5
         /\ SetupFiles[n] \notin {"client_state", "show_proof"}
         /\ \A j \in 1 .. (n - 1) : SetupFiles[j] # SetupFiles[n]
<1>1. writes = Remaining(n)
  BY DEF SettingUp
<1>2. \A j \in 1 .. (n - 1) : j \in 1 .. 5 /\ j # n
  OBVIOUS
<1>3. /\ Head(writes) = Writing(SetupFiles[n], gen, shown)
      /\ n < 5 => Tail(writes) = Remaining(n + 1)
      /\ n = 5 => Tail(writes) = <<>>
  BY <1>1, RemainingLemma
<1>4. Head(writes).file = SetupFiles[n]
  BY <1>3 DEF Writing
<1>5. /\ SetupFiles[n] \in Parameters
      /\ SetupFiles[n] = "prover_params" <=> n = 5
      /\ SetupFiles[n] \notin {"client_state", "show_proof"}
      /\ \A j \in 1 .. (n - 1) : SetupFiles[j] # SetupFiles[n]
  BY <1>2, SetupFilesLemma
<1> QED BY <1>3, <1>4, <1>5

\* A file that is emptied is no longer readable.
LEMMA TruncateInv == CliInv /\ Truncate => CliInv'
<1> SUFFICES ASSUME CliInv, Truncate PROVE CliInv'
  OBVIOUS
<1> DEFINE file == Head(writes).file
<1>1. /\ ~Idle /\ cache' = [cache EXCEPT ![file] = Torn]
      /\ UNCHANGED <<config, writes, spec, gen, complete, shown, clock>>
  BY DEF Truncate
<1>2. CliTypes /\ ParametersKnown /\ FilesKnown
  BY DEF CliInv
<1>3. CliTypes'
  BY <1>1, <1>2 DEF CliTypes
<1>4. \A f \in CacheFiles : cache'[f] = IF f = file THEN Torn ELSE cache[f]
  BY <1>1, <1>2 DEF CliTypes
<1>5. /\ \A p, sh : ProperShow(p, sh) => ProperShow(p, sh)'
      /\ \A cs : ProperState(cs) => ProperState(cs)'
  BY <1>1 DEF ProperShow, ProperState
<1>6. {"client_state", "show_proof"} \subseteq CacheFiles
  BY DEF CacheFiles
<1>7. FilesKnown'
  BY <1>1, <1>2, <1>4, <1>5, <1>6 DEF FilesKnown, Readable
<1>8. CASE \E n \in 1 .. 5 : SettingUp(n)
  <2>1. PICK n \in 1 .. 5 : SettingUp(n)
    BY <1>8
  <2>2. /\ file = SetupFiles[n]
        /\ file \notin {"client_state", "show_proof"}
        /\ \A j \in 1 .. (n - 1) : SetupFiles[j] # file
    BY <1>1, <2>1, SetupWrite
  <2>3. \A j \in 1 .. (n - 1) : SetupFiles[j] \in CacheFiles
    <3>1. \A j \in 1 .. (n - 1) : j \in 1 .. 5
      OBVIOUS
    <3> QED BY <3>1, SetupFilesLemma
  <2> HIDE DEF file
  <2>4. Remaining(n)' = Remaining(n)
    BY <1>1 DEF Remaining
  <2>5. \A j \in 1 .. (n - 1) : cache'[SetupFiles[j]] = gen
    BY <1>4, <2>1, <2>2, <2>3 DEF SettingUp
  <2>6. Readable("show_proof")' => Readable("show_proof")
    BY <1>4, <1>6, <2>2 DEF Readable
  <2>7. SettingUp(n)'
    BY <1>1, <2>1, <2>4, <2>5, <2>6 DEF SettingUp
  <2>8. ParametersKnown'
    BY <1>1, <1>2, <2>1 DEF SettingUp, CliTypes, ParametersKnown
  <2> QED BY <1>3, <1>7, <2>7, <2>8 DEF CliInv, WritesKnown
<1>9. CASE /\ file \in {"client_state", "show_proof"}
           /\ \/ \E cs : /\ writes = <<Writing("client_state", cs, shown)>>
                         /\ ProperState(cs)
              \/ \E p, sh : /\ writes = <<Writing("show_proof", p, sh)>>
                            /\ ProperShow(p, sh)
  <2>1. WritesKnown'
    BY <1>1, <1>5, <1>9 DEF WritesKnown
  <2>2. \A f \in Parameters : f \in CacheFiles /\ f # file
    BY <1>9 DEF Parameters, CacheFiles
  <2> HIDE DEF file
  <2>3. ParametersKnown'
    BY <1>1, <1>2, <1>4, <2>2 DEF ParametersKnown, Bare, Idle
  <2> QED BY <1>3, <1>7, <2>1, <2>3 DEF CliInv
<1>10. \/ \E n \in 1 .. 5 : SettingUp(n)
       \/ \E cs : /\ writes = <<Writing("client_state", cs, shown)>>
                  /\ ProperState(cs)
       \/ \E p, sh : /\ writes = <<Writing("show_proof", p, sh)>>
                     /\ ProperShow(p, sh)
  BY <1>1 DEF CliInv, WritesKnown, Idle
<1>11. /\ \A cs : writes = <<Writing("client_state", cs, shown)>>
                => file = "client_state"
       /\ \A p, sh : writes = <<Writing("show_proof", p, sh)>>
                   => file = "show_proof"
  BY DEF Writing
<1> QED BY <1>8, <1>9, <1>10, <1>11

\* An interrupted command leaves what it has written.
LEMMA InterruptInv == CliInv /\ Interrupt => CliInv'
<1> SUFFICES ASSUME CliInv, Interrupt PROVE CliInv'
  OBVIOUS
<1>1. /\ writes # <<>> /\ writes' = <<>>
      /\ UNCHANGED <<config, cache, spec, gen, complete, shown, clock>>
  BY DEF Interrupt, Idle
<1>2. CliTypes' /\ WritesKnown'
  BY <1>1 DEF CliInv, CliTypes, WritesKnown
<1>3. ParametersKnown'
  BY <1>1 DEF CliInv, ParametersKnown, Bare
<1>4. FilesKnown'
  BY <1>1 DEF CliInv, FilesKnown, Readable, ProperState, ProperShow
<1> QED BY <1>2, <1>3, <1>4 DEF CliInv

\* A file is filled with what was queued; the last one of a zksetup makes
\* its files complete.
LEMMA FillInv == CliInv /\ Fill => CliInv'
<1> SUFFICES ASSUME CliInv, Fill PROVE CliInv'
  OBVIOUS
<1> DEFINE w == Head(writes)
<1>1. /\ ~Idle /\ cache' = [cache EXCEPT ![w.file] = w.content]
      /\ writes' = Tail(writes) /\ shown' = w.shown
      /\ complete' = IF w.file = "prover_params" THEN gen ELSE complete
      /\ UNCHANGED <<config, spec, gen, clock>>
  BY DEF Fill
<1>2. CliTypes /\ ParametersKnown /\ FilesKnown
  BY DEF CliInv
<1>3. CliTypes'
  <2> HIDE DEF w
  <2>1. complete' \in Nat /\ complete' <= gen'
    BY <1>1, <1>2 DEF CliTypes
  <2>2. cache' = [f \in CacheFiles |-> cache'[f]]
    BY <1>1, <1>2 DEF CliTypes
  <2> QED BY <1>1, <1>2, <2>1, <2>2 DEF CliTypes
<1>4. \A f \in CacheFiles :
         cache'[f] = IF f = w.file THEN w.content ELSE cache[f]
  BY <1>1, <1>2 DEF CliTypes
<1>5. {"client_state", "show_proof"} \subseteq CacheFiles
  BY DEF CacheFiles
<1>6. CASE \E n \in 1 .. 5 : SettingUp(n)
  <2>1. PICK n \in 1 .. 5 : SettingUp(n)
    BY <1>6
  <2>2. /\ w = Writing(SetupFiles[n], gen, shown)
        /\ w.file = SetupFiles[n]
        /\ n < 5 => Tail(writes) = Remaining(n + 1)
        /\ n = 5 => Tail(writes) = <<>>
        /\ SetupFiles[n] = "prover_params" <=> n = 5
        /\ SetupFiles[n] \notin {"client_state", "show_proof"}
    BY <1>1, <2>1, SetupWrite
  <2>3. w.content = gen /\ w.shown = shown
    BY <2>2 DEF Writing
  <2> HIDE DEF w
  <2>4. shown' = shown /\ complete' = IF n = 5 THEN gen ELSE complete
    BY <1>1, <2>2, <2>3
  <2>5. \A j \in 1 .. n : cache'[SetupFiles[j]] = gen
    <3>1. \A j \in 1 .. n : j \in 1 .. 5 /\ (j \in 1 .. (n - 1) \/ j = n)
      OBVIOUS
    <3>2. \A j \in 1 .. n : SetupFiles[j] \in CacheFiles
      BY <3>1, SetupFilesLemma
    <3> QED BY <1>4, <2>1, <2>2, <2>3, <3>1, <3>2 DEF SettingUp
  <2>6. \A f \in {"client_state", "show_proof"} : cache'[f] = cache[f]
    BY <1>4, <1>5, <2>2
  <2>7. \A cs : ProperState(cs) => ProperState(cs)'
    BY <1>1 DEF ProperState
  <2>8. Readable("show_proof")'
          => /\ Readable("show_proof") /\ shown.gen < gen
             /\ ProperShow(cache["show_proof"], shown)
    BY <1>2, <2>1, <2>6 DEF Readable, SettingUp, FilesKnown
  <2>9. ASSUME NEW p, NEW sh, ProperShow(p, sh), sh.gen < gen
        PROVE  ProperShow(p, sh)'
    <3>1. sh.gen # gen
      BY <1>2, <2>9 DEF ProperShow, CliTypes
    <3> QED BY <1>1, <2>9, <3>1 DEF ProperShow
  <2>10. FilesKnown'
    <3>1. Readable("client_state")' => ProperState(cache["client_state"])'
      BY <1>1, <1>2, <2>6 DEF FilesKnown, Readable, ProperState
    <3>2. Readable("show_proof")' => ProperShow(cache["show_proof"], shown)'
      <4> SUFFICES ASSUME Readable("show_proof")'
                   PROVE  ProperShow(cache["show_proof"], shown)'
        OBVIOUS
      <4>1. PICK p, sh : p = cache["show_proof"] /\ sh = shown
        OBVIOUS
      <4>2. ProperShow(p, sh) /\ sh.gen < gen
        BY <2>8, <4>1
      <4>3. ProperShow(p, sh)'
        BY <2>9, <4>2
      <4> QED BY <2>4, <2>6, <4>1, <4>3 DEF ProperShow
    <3> QED BY <3>1, <3>2 DEF FilesKnown
  <2>11. CASE n = 5
    <3>1. \A f \in Parameters : cache'[f] = gen
      BY <2>5, <2>11, SetupFilesLemma
    <3>2. ParametersKnown'
      BY <1>1, <3>1 DEF ParametersKnown
    <3>3. WritesKnown'
      BY <1>1, <2>2, <2>11 DEF WritesKnown
    <3> QED BY <1>3, <2>10, <3>2, <3>3 DEF CliInv
  <2>12. CASE n < 5
    <3>1. n + 1 \in 1 .. 5 /\ n + 1 - 1 = n
      BY <2>12
    <3>2. Remaining(n + 1)' = Remaining(n + 1)
      BY <1>1, <2>4 DEF Remaining
    <3>3. writes' = Remaining(n + 1)' /\ complete' = complete /\ n # 5
      BY <1>1, <2>2, <2>4, <2>12, <3>2
    <3>4. SettingUp(n + 1)'
      BY <1>1, <2>1, <2>4, <2>5, <2>6, <3>1, <3>3 DEF SettingUp, Readable
    <3>5. ParametersKnown'
      BY <1>1, <1>2, <2>1, <3>3 DEF SettingUp, CliTypes, ParametersKnown
    <3> QED BY <1>3, <2>10, <3>1, <3>4, <3>5 DEF CliInv, WritesKnown
  <2> QED BY <2>11, <2>12
<1>7. ASSUME NEW cs, writes = <<Writing("client_state", cs, shown)>>,
             ProperState(cs)
      PROVE  CliInv'
  <2>1. /\ w = Writing("client_state", cs, shown) /\ Tail(writes) = <<>>
    BY <1>7
  <2>2. w.file = "client_state" /\ w.content = cs /\ w.shown = shown
    BY <2>1 DEF Writing
  <2> HIDE DEF w
  <2>3. /\ writes' = <<>> /\ complete' = complete /\ shown' = shown
        /\ cache'["client_state"] = cs
        /\ \A f \in CacheFiles \ {"client_state"} : cache'[f] = cache[f]
    BY <1>1, <1>4, <1>5, <2>1, <2>2
  <2>4. ParametersKnown'
    <3>1. \A f \in Parameters : f \in CacheFiles \ {"client_state"}
      BY DEF Parameters, CacheFiles
    <3> QED BY <1>1, <1>2, <2>3, <3>1 DEF ParametersKnown, Bare, Idle
  <2>5. ProperState(cache["client_state"])'
    BY <1>1, <1>7, <2>3 DEF ProperState
  <2>6. Readable("show_proof")' => ProperShow(cache["show_proof"], shown)'
    BY <1>1, <1>2, <1>5, <2>3 DEF FilesKnown, Readable, ProperShow
  <2>7. WritesKnown' /\ FilesKnown'
    BY <2>3, <2>5, <2>6 DEF WritesKnown, FilesKnown
  <2> QED BY <1>3, <2>4, <2>7 DEF CliInv
<1>8. ASSUME NEW p, NEW sh, writes = <<Writing("show_proof", p, sh)>>,
             ProperShow(p, sh)
      PROVE  CliInv'
  <2>1. /\ w = Writing("show_proof", p, sh) /\ Tail(writes) = <<>>
    BY <1>8
  <2>2. w.file = "show_proof" /\ w.content = p /\ w.shown = sh
    BY <2>1 DEF Writing
  <2> HIDE DEF w
  <2>3. /\ writes' = <<>> /\ complete' = complete /\ shown' = sh
        /\ cache'["show_proof"] = p
        /\ \A f \in CacheFiles \ {"show_proof"} : cache'[f] = cache[f]
    BY <1>1, <1>4, <1>5, <2>1, <2>2
  <2>4. ParametersKnown'
    <3>1. \A f \in Parameters : f \in CacheFiles \ {"show_proof"}
      BY DEF Parameters, CacheFiles
    <3> QED BY <1>1, <1>2, <2>3, <3>1 DEF ParametersKnown, Bare, Idle
  <2>5. Readable("client_state")' => ProperState(cache["client_state"])'
    BY <1>1, <1>2, <1>5, <2>3 DEF FilesKnown, Readable, ProperState
  <2>6. ProperShow(cache["show_proof"], shown)'
    BY <1>1, <1>8, <2>3 DEF ProperShow
  <2>7. WritesKnown' /\ FilesKnown'
    BY <2>3, <2>5, <2>6 DEF WritesKnown, FilesKnown
  <2> QED BY <1>3, <2>4, <2>7 DEF CliInv
<1>9. \/ \E n \in 1 .. 5 : SettingUp(n)
      \/ \E cs : /\ writes = <<Writing("client_state", cs, shown)>>
                 /\ ProperState(cs)
      \/ \E p, sh : /\ writes = <<Writing("show_proof", p, sh)>>
                    /\ ProperShow(p, sh)
  BY <1>1 DEF CliInv, WritesKnown, Idle
<1> QED BY <1>6, <1>7, <1>8, <1>9

\* CliInv is inductive, and so holds of every behavior.
LEMMA StepInv == CliInv /\ [Next]_vars => CliInv'
<1> SUFFICES ASSUME CliInv, [Next]_vars PROVE CliInv'
  OBVIOUS
<1>1. spec \in Specs \cup {Missing} /\ clock \in Nat
  BY DEF CliInv, CliTypes
<1>2. CASE EditSpec
  BY <1>1, <1>2, QuietStep DEF EditSpec, Change
<1>3. CASE NewCredential
  BY <1>1, <1>3, QuietStep DEF NewCredential, Change
<1>4. CASE Tick
  BY <1>1, <1>4, QuietStep DEF Tick
<1>5. ASSUME NEW m \in Messages, Verify(m) PROVE CliInv'
  BY <1>1, <1>5, QuietStep DEF Verify
<1>6. CASE UNCHANGED vars
  BY <1>1, <1>6, QuietStep DEF vars
<1> QED BY <1>2, <1>3, <1>4, <1>5, <1>6, RunSetupInv, TruncateInv, FillInv,
           InterruptInv, ZksetupInv, ProveInv, ShowInv DEF Next

LEMMA SpecInv == Spec => []CliInv
<1> QED BY InitInv, StepInv, PTL DEF Spec

-----------------------------------------------------------------------------
\* A specification that the code loads lists attributes, and ages of claims.
LEMMA LoadedIsListed ==
  ASSUME NEW sp \in Specs \cup {Missing}, NEW m
  PROVE  /\ ListedSpec(LoadProofSpec(sp, m))
         /\ LoadProofSpec(sp, m).revealed = InFile(sp).revealed
<1> DEFINE message == IF m # NoMessage THEN m ELSE InFile(sp).message
           to == IF InFile(sp).device_bound THEN HashOf(message) ELSE message
           loaded == [InFile(sp) EXCEPT !.message = to]
<1>1. loaded.revealed = InFile(sp).revealed /\ loaded.range = InFile(sp).range
  OBVIOUS
<1>2. LoadProofSpec(sp, m) = loaded
  BY DEF LoadProofSpec
<1> HIDE DEF loaded
<1>3. CASE sp = Missing
  <2>1. InFile(sp).revealed = <<"email">> /\ InFile(sp).range = <<>>
    BY <1>3 DEF InFile, DefaultSpec
  <2>2. IsList(<<"email">>)
    BY PairsAreLists
  <2>3. DOMAIN <<>> = {}
    OBVIOUS
  <2> QED BY <1>1, <1>2, <2>1, <2>2, <2>3 DEF ListedSpec
<1>4. CASE sp # Missing
  <2>1. InFile(sp) = sp /\ sp \in Specs
    BY <1>4 DEF InFile
  <2> QED BY <1>1, <1>2, <2>1, SpecsAssumption, ListOfSeq DEF ListedSpec
<1> QED BY <1>3, <1>4

\* What the assumptions on the constants say of the lists.
LEMMA ListsOfConstants ==
  /\ IsList(Names)
  /\ \A c \in Configs : IsList(c.claims)
BY ShowAssumption, ConfigsAssumption, ListOfSeq

\* A show proof that can be read is what show has made for shown.
LEMMA ReadShow ==
  ASSUME CliInv, Readable("show_proof")
  PROVE  LET proof == cache["show_proof"]
             cs == StateOf(config, proof.gen, shown.cred)
             asked == LoadProofSpec(shown.spec, shown.message)
         IN  /\ proof = ShowProof(cs, IOLocations(config), proof.range, asked,
                                  proof.cur_time)
             /\ Shows(cs, IOLocations(config), asked, proof.cur_time)
             /\ proof.cur_time \in Nat /\ ListedSpec(asked)
             /\ shown.spec \in Specs \cup {Missing}
             /\ SpecLoads(shown.spec, shown.message)
             /\ shown.gen = gen /\ complete = gen => proof.range = gen
<1>1. ProperShow(cache["show_proof"], shown)
  BY DEF CliInv, FilesKnown
<1>2. shown.spec \in Specs \cup {Missing}
  BY <1>1 DEF ProperShow
<1>3. ListedSpec(LoadProofSpec(shown.spec, shown.message))
  BY <1>2, LoadedIsListed
<1> QED BY <1>1, <1>2, <1>3 DEF ProperShow

(***************************************************************************)
(* AcceptedIsTrue is an invariant: whatever commands were run, interrupted *)
(* or run again in the folder, what run_verifier accepts says only what is *)
(* true of the credential that run_show was given, and what it was asked.  *)
(***************************************************************************)
THEOREM AcceptedIsTrueCorrect == Spec => []AcceptedIsTrue
<1>1. CliInv => AcceptedIsTrue
  <2> SUFFICES ASSUME CliInv, NEW m \in Messages, Idle, Verifies(m)
               PROVE  LET s == LoadProofSpec(spec, m)
                          asked == LoadProofSpec(shown.spec, shown.message)
                          proof == cache["show_proof"]
                      IN  /\ \A a \in Range(s.revealed) :
                                Output(m)[a] = shown.cred[a]
                          /\ shown.cred["issuer"] = Issuer
                          /\ proof.cur_time <= shown.cred[ExpName(config)]
                          /\ clock <= proof.cur_time + Validity
                          /\ \A a \in DOMAIN s.range :
                                shown.cred[a] >= Days(s.range[a])
                          /\ Range(s.revealed) = Range(asked.revealed)
                          /\ s.range = asked.range
                          /\ s.message = asked.message
                          /\ s.device_bound = asked.device_bound
    BY DEF AcceptedIsTrue
  <2> DEFINE s == LoadProofSpec(spec, m)
             asked == LoadProofSpec(shown.spec, shown.message)
             proof == cache["show_proof"]
             cs == StateOf(config, proof.gen, shown.cred)
             io == IOLocations(config)
             vp == VerifierParams
  <2>1. /\ proof = ShowProof(cs, io, proof.range, asked, proof.cur_time)
        /\ Shows(cs, io, asked, proof.cur_time)
        /\ proof.cur_time \in Nat /\ ListedSpec(asked)
    BY ReadShow DEF Verifies
  <2>2. Accepts(vp, proof, s, clock)
    BY DEF Verifies
  <2>3. /\ config \in Configs /\ clock \in Nat
        /\ IsList(Names) /\ IsList(config.claims) /\ ListedSpec(s)
    BY LoadedIsListed, ListsOfConstants DEF CliInv, CliTypes
  <2>4. vp.io = io /\ vp.config = config /\ vp.issuer = Issuer
    BY DEF VerifierParams
  <2>5. Output(m) = Revealed(vp, proof, s)
    BY DEF Output
  <2> HIDE DEF s, asked, proof, vp
  <2>6. /\ InternalSpec(s, config) = InternalSpec(asked, config)
        /\ \A a \in Range(s.revealed) :
              Revealed(vp, proof, s)[a] = shown.cred[a]
        /\ shown.cred["issuer"] = vp.issuer
        /\ shown.cred[ExpName(config)] >= proof.cur_time
        /\ IsFresh(proof, clock)
        /\ \A a \in DOMAIN s.range : shown.cred[a] >= Days(s.range[a])
    BY <2>1, <2>2, <2>3, <2>4, AcceptedShow
  <2>7. clock <= proof.cur_time + Validity
    BY <2>1, <2>3, <2>6, ShowAssumption DEF IsFresh
  <2>8. /\ Range(s.revealed) = Range(asked.revealed)
        /\ s.range = asked.range /\ s.message = asked.message
        /\ s.device_bound = asked.device_bound
    BY <2>1, <2>3, <2>6, SameSpecification
  <2>9. proof.cur_time <= shown.cred[ExpName(config)]
    BY <2>6
  <2> QED BY <2>4, <2>5, <2>6, <2>7, <2>8, <2>9 DEF s, asked, proof
<1> QED BY <1>1, SpecInv, PTL

(***************************************************************************)
(* AcceptedIsCurrent is an invariant: once run_zksetup has written all of  *)
(* its files, a show proof that verifies was made with them, both in its   *)
(* Groth16 part and in its range proofs.                                   *)
(***************************************************************************)
THEOREM AcceptedIsCurrentCorrect == Spec => []AcceptedIsCurrent
<1>1. CliInv => AcceptedIsCurrent
  <2> SUFFICES ASSUME CliInv, NEW m \in Messages, Verifies(m), complete = gen
               PROVE  /\ cache["show_proof"].gen = gen
                      /\ cache["show_proof"].range = gen
    BY DEF AcceptedIsCurrent
  <2>1. ~Bare
    BY DEF Verifies, Readable, Bare, CacheFiles, Parameters
  <2>2. cache["groth16_vk"] = gen /\ cache["range_vk"] = gen
    BY <2>1 DEF CliInv, ParametersKnown, Parameters
  <2>3. /\ VerifierParams.vk = gen /\ VerifierParams.range_vk = gen
    BY <2>2 DEF VerifierParams
  <2>4. /\ VerifierParams.vk = cache["show_proof"].gen
        /\ VerifierParams.range_vk = cache["show_proof"].range
    BY DEF Verifies, Accepts, Groth16Verifies, RangesVerify
  <2> QED BY <2>3, <2>4
<1> QED BY <1>1, SpecInv, PTL

(***************************************************************************)
(* ShowHidesTheRest is an invariant: run_show discloses nothing that its   *)
(* specification does not ask for.                                         *)
(***************************************************************************)
THEOREM ShowHidesTheRestCorrect == Spec => []ShowHidesTheRest
<1>1. CliInv => ShowHidesTheRest
  <2> SUFFICES ASSUME CliInv, NEW m \in Messages,
                      NEW c1 \in Creds, NEW c2 \in Creds
               PROVE  LET s == LoadProofSpec(spec, m)
                          seen == [c \in Creds |->
                                      Visible(c, IOLocations(config), s)]
                      IN  /\ \A a \in Range(s.revealed) : c1[a] = c2[a]
                          /\ seen[c1] # <<>> /\ seen[c2] # <<>>
                          => seen[c1] = seen[c2]
    BY DEF ShowHidesTheRest
  <2> DEFINE s == LoadProofSpec(spec, m)
             see(c) == Visible(c, IOLocations(config), s)
             seen == [c \in Creds |-> see(c)]
  <2>1. ListedSpec(s) /\ IsList(Names)
    BY LoadedIsListed, ListsOfConstants DEF CliInv, CliTypes
  <2> HIDE DEF s
  <2>2. /\ \A a \in Range(s.revealed) : c1[a] = c2[a]
        /\ see(c1) # <<>> /\ see(c2) # <<>>
        => see(c1) = see(c2)
    BY <2>1, VisibleIsAsked
  <2> HIDE DEF see
  <2>3. seen[c1] = see(c1) /\ seen[c2] = see(c2)
    OBVIOUS
  <2> HIDE DEF seen
  <2> QED BY <2>2, <2>3 DEF s, see, seen
<1> QED BY <1>1, SpecInv, PTL

(***************************************************************************)
(* HonestVerifies is an invariant: what run_show makes, with the files of  *)
(* one whole zksetup and in the order that the code relies on, is accepted *)
(* by run_verifier, whatever was interrupted before.                       *)
(***************************************************************************)
THEOREM HonestVerifiesCorrect == Spec => []HonestVerifies
<1>1. CliInv => HonestVerifies
  <2> SUFFICES ASSUME CliInv, ShownByTheBook,
                      InOrder(IOLocations(config), InternalSpec(
                          LoadProofSpec(spec, shown.message), config))
               PROVE  Verifies(shown.message)
    BY DEF HonestVerifies
  <2> DEFINE s == LoadProofSpec(spec, shown.message)
             proof == cache["show_proof"]
             cs == StateOf(config, proof.gen, shown.cred)
             io == IOLocations(config)
             vp == VerifierParams
  <2>1. /\ Readable("show_proof") /\ complete = gen /\ shown.gen = gen
        /\ proof.gen = gen /\ shown.spec = spec
        /\ shown.cred["issuer"] = Issuer
        /\ clock <= proof.cur_time + Validity
    BY DEF ShownByTheBook
  <2>2. /\ proof = ShowProof(cs, io, proof.range, s, proof.cur_time)
        /\ Shows(cs, io, s, proof.cur_time)
        /\ proof.cur_time \in Nat /\ ListedSpec(s)
        /\ SpecLoads(spec, shown.message) /\ proof.range = gen
    BY <2>1, ReadShow
  <2>3. /\ cache["groth16_vk"] = gen /\ cache["groth16_pvk"] = gen
        /\ cache["range_vk"] = gen
    <3>1. ~Bare
      BY <2>1 DEF Readable, Bare, CacheFiles
    <3> QED BY <2>1, <3>1 DEF CliInv, ParametersKnown, Parameters
  <2>4. /\ config \in Configs /\ clock \in Nat /\ gen \in Nat
        /\ IsList(Names) /\ IsList(config.claims)
    BY ListsOfConstants DEF CliInv, CliTypes
  <2>5. \A f \in {"show_proof", "groth16_pvk", "groth16_vk", "range_vk"} :
           Readable(f)
    BY <2>1, <2>3, <2>4, FilesAssumption DEF Readable
  <2>6. /\ vp.io = io /\ vp.config = config /\ vp.issuer = Issuer
        /\ vp.vk = gen /\ vp.pvk = gen /\ vp.range_vk = gen
    BY <2>3 DEF VerifierParams
  <2>7. InOrder(io, InternalSpec(s, config))
    OBVIOUS
  <2> HIDE DEF s, proof, vp
  <2>8. Accepts(vp, ShowProof(cs, io, proof.range, s, proof.cur_time), s,
                clock)
    BY <2>1, <2>2, <2>4, <2>6, <2>7, HonestShow
  <2>9. Accepts(vp, proof, s, clock)
    BY <2>2, <2>8
  <2> QED BY <2>2, <2>5, <2>9 DEF Verifies, s, proof, vp
<1> QED BY <1>1, SpecInv, PTL
=============================================================================
