---------------------------- MODULE EmulatedField ----------------------------
(***************************************************************************)
(* Arithmetic of a prime field in circuits over another one, with which    *)
(* the device signature proof checks a relation modulo the order of BN254  *)
(* (ecdsa-pop/src/emulated).                                               *)
(*                                                                         *)
(* An element is a sequence of limbs, the least significant one first.     *)
(* Limbs are numbers of the native field, so that the sum of two elements  *)
(* is the sum of their limbs, and the product is that of polynomials:      *)
(* limbs grow, are counted bit by bit in overflow, and must never reach    *)
(* the native prime.  Reducing an element and comparing two of them is     *)
(* done by asserting that the difference is a multiple of the modulus.     *)
(*                                                                         *)
(* The values are those an honest prover assigns.  Constraints that only   *)
(* bind a dishonest one (range checks of limbs the prover has just split)  *)
(* always hold for these and are left out.                                 *)
(***************************************************************************)
EXTENDS Integers, Sequences, FiniteSetsExt

CONSTANTS Native,       \* The native prime,
          Capacity,     \* F::CAPACITY: the bits that each of its numbers has.
          BitsPerLimb,
          NumLimbs,
          E, C,         \* The emulated prime is 2^E - C.
          Reg,          \* The circuit's variables,
          Factors,      \* the constants it multiplies by,
          Inputs,       \* the numbers it is given,
          MaxSteps      \* and how many operations it has.

\* The n-th power of b, and f[1] + ... + f[n].
Pow(b, n) == LET power[i \in 0..n] == IF i = 0 THEN 1 ELSE b * power[i - 1]
          IN  power[n]

SumTo(f, n) == LET sum[i \in 0..n] == IF i = 0 THEN 0 ELSE sum[i - 1] + f[i]
               IN  sum[n]

Base == Pow(2, BitsPerLimb)
Modulus == Pow(2, E) - C
max_overflow == Capacity - BitsPerLimb

Bits(n) ==
    CHOOSE k \in 0..n : n < Pow(2, k) /\ (k > 0 => n >= Pow(2, k - 1))
CeilLog2(n) ==
    CHOOSE k \in 0..n : n <= Pow(2, k) /\ (k > 0 => n > Pow(2, k - 1))

(***************************************************************************)
(* mul_precondition asserts the first line about Capacity.  The second is  *)
(* what the loop of reduce_and_apply_op needs to end, two elements that    *)
(* need no reduction can be multiplied, with the bit more that the carry   *)
(* needs when the product is compared (assert_limbs_equality_slow), as     *)
(* every reduction does.  The modulus takes all the limbs                  *)
(* (check_field_membership) and is a prime: there are inverses.            *)
(***************************************************************************)
ASSUME FieldAssumption ==
    /\ BitsPerLimb \in Nat \ {0} /\ NumLimbs \in Nat /\ NumLimbs > 1
    /\ Capacity \in Nat /\ 2 * BitsPerLimb <= Capacity
    /\ 2 * BitsPerLimb + CeilLog2(NumLimbs) < Capacity
    /\ Native \in (Pow(2, Capacity) + 1)..(Pow(2, Capacity + 1) - 1)
    /\ E \in ((NumLimbs - 1) * BitsPerLimb + 1)..(NumLimbs * BitsPerLimb)
    /\ C \in 1..(Pow(2, E - 1))

ASSUME PrimeAssumption ==
    \A n \in 1..(Modulus - 1) :
        \E m \in 1..(Modulus - 1) : (n * m) % Modulus = 1

\* What is given to a circuit fits in the limbs.
ASSUME InputAssumption ==
    Inputs \subseteq 0..(Pow(Base, NumLimbs) - 1) /\ Factors \subseteq Nat

VARIABLES reg,          \* The elements,
          value,        \* the number that each stands for,
          mersenne,     \* is_modulus_pseudo_mersenne, a parameter,
          step          \* and the steps so far.

vars == <<reg, value, mersenne, step>>

(***************************************************************************)
(* Elements.  An operation may fail instead: with an error or a violated   *)
(* constraint ("unsat"), by an assertion ("panic"), or as not implemented. *)
(***************************************************************************)
Allocated(limbs, overflow) ==
    [is |-> "allocated", limbs |-> limbs, overflow |-> overflow]
Constant(limbs) == [is |-> "constant", limbs |-> limbs, overflow |-> 0]
Fails(how) == [is |-> how, limbs |-> <<>>, overflow |-> 0]

IsConstant(x) == x.is = "constant"
IsElement(x) == x.is \in {"allocated", "constant"}
Provided(check, x) == IF check = "holds" THEN x ELSE Fails(check)

Limb(x, i) == IF i \in DOMAIN x.limbs THEN x.limbs[i] ELSE 0
Longest(a, b) == Max({Len(a.limbs), Len(b.limbs)})

recompose(limbs) ==
    LET from[i \in 1..(Len(limbs) + 1)] ==
            IF i > Len(limbs) THEN 0 ELSE limbs[i] + Base * from[i + 1]
    IN  from[1]
Integer(x) == recompose(x.limbs)
Decompose(n, count) == [i \in 1..count |-> (n \div Pow(Base, i - 1)) % Base]

\* From<&BigInt>: the modulus itself is not reduced.
From(n) == Constant(Decompose(IF n > Modulus THEN n % Modulus ELSE n,
                              NumLimbs))
\* allocate_field_element_unchecked, and allocated_num_to_emulated_fe of a
\* native number, which may be larger than the modulus.
Allocate(n) == Allocated(Decompose(n, NumLimbs), 0)

(***************************************************************************)
(* The precondition of an operation, and the operation.                    *)
(***************************************************************************)
\* Fault: the carries of the sums in a product are not counted.
FaultNextOverflow(op, a, b) ==
    CASE op = "add" -> Max({a.overflow, b.overflow}) + 1
      [] op = "sub" -> Max({a.overflow, b.overflow + 2})
      [] op = "mul" -> BitsPerLimb + a.overflow + b.overflow

NextOverflow(op, a, b) ==
    CASE op = "add" -> Max({a.overflow, b.overflow}) + 1
      [] op = "sub" -> Max({a.overflow, b.overflow + 2})
      [] op = "mul" -> BitsPerLimb + a.overflow + b.overflow
                        + CeilLog2(Min({Len(a.limbs), Len(b.limbs)}))

\* Fault: the padding is not made a multiple of the modulus.
FaultPadding(b, count) ==
    LET top == Pow(2, b.overflow + BitsPerLimb)
    IN  [i \in 1..count |-> top]

\* A multiple of the modulus, with limbs that none of b can exceed.
sub_padding(b, count) ==
    LET top   == Pow(2, b.overflow + BitsPerLimb)
        all   == recompose([i \in 1..count |-> top])
        delta == Decompose(Modulus - (all % Modulus), count)
    IN  [i \in 1..count |-> top + delta[i]]

AddLimbs(a, b) == [i \in 1..Longest(a, b) |-> Limb(a, i) + Limb(b, i)]

SubLimbs(a, b) ==
    LET padding == sub_padding(b, Longest(a, b))
    IN  [i \in 1..Longest(a, b) |-> padding[i] + Limb(a, i) - Limb(b, i)]

MulLimbs(a, b) ==
    [i \in 1..(Len(a.limbs) + Len(b.limbs) - 1) |->
        SumTo([j \in DOMAIN a.limbs |-> a.limbs[j] * Limb(b, i + 1 - j)],
              Len(a.limbs))]

OfConstants(op, a, b) ==
    CASE op = "add" -> (a + b) % Modulus
      [] op = "sub" -> IF a >= b THEN (a - b) % Modulus
                                 ELSE Modulus - ((b - a) % Modulus)
      [] op = "mul" -> (a * b) % Modulus

Wrapped(limbs) == [i \in DOMAIN limbs |-> limbs[i] % Native]

Compute(op, a, b) ==
    IF ~IsElement(a) THEN a
    ELSE IF ~IsElement(b) THEN b
    ELSE IF IsConstant(a) /\ IsConstant(b)
    THEN From(OfConstants(op, Integer(a), Integer(b)))
    ELSE Allocated(Wrapped(CASE op = "add" -> AddLimbs(a, b)
                             [] op = "sub" -> SubLimbs(a, b)
                             [] op = "mul" -> MulLimbs(a, b)),
                   NextOverflow(op, a, b))

(***************************************************************************)
(* Equality as integers: limbs are grouped as far as the native field has  *)
(* room, and compared from the lowest with a carry, which is kept positive *)
(* by an offset.  A carry of -1 stands for a violated constraint.          *)
(***************************************************************************)
group_size(a, b) ==
    (Capacity - 1 - Max({a.overflow, b.overflow})) \div BitsPerLimb

compact_limbs(x, group) ==
    [i \in 1..((Len(x.limbs) + group - 1) \div group) |->
        recompose([j \in 1..group |-> Limb(x, group * (i - 1) + j)])]

\* Fault: one bit of the carry is forgotten.
FaultShift(v, low, high) ==
    IF v % Pow(2, low) = 0 /\ v < Pow(2, high - 1)
    THEN v \div Pow(2, low) ELSE -1

\* The low bits must be zero, and the others in as many as there are.
right_shift(v, low, high) ==
    IF v % Pow(2, low) = 0 /\ v < Pow(2, high) THEN v \div Pow(2, low) ELSE -1

assert_limbs_equality_slow(a, b, bits, carry_bits) ==
    LET count  == Max({Len(a), Len(b)})
        offset == Pow(2, carry_bits)
        At(x, i) == IF i \in DOMAIN x THEN x[i] ELSE 0
        carry[i \in 0..count] ==
            IF i = 0 THEN 0
            ELSE LET c == carry[i - 1]
                     v == c + Pow(2, bits) * offset + At(a, i) - At(b, i)
                            - (IF i > 1 THEN offset ELSE 0)
                 IN  IF c = -1 THEN -1
                     ELSE right_shift(v % Native, bits, bits + carry_bits + 1)
    IN  IF bits + carry_bits + 1 > Capacity THEN "panic"
        ELSE IF carry[count] = offset THEN "holds" ELSE "unsat"

EqualInGroups(large, small, group) ==
    assert_limbs_equality_slow(compact_limbs(large, group),
                               compact_limbs(small, group),
                               group * BitsPerLimb, large.overflow)

assert_limbs_equality(a, b) ==
    EqualInGroups(IF a.overflow > b.overflow THEN a ELSE b,
                  IF a.overflow > b.overflow THEN b ELSE a,
                  IF group_size(a, b) = 0 THEN 1 ELSE group_size(a, b))

\* compute_quotient
QuotientLimbs(x) ==
    (Len(x.limbs) * BitsPerLimb + x.overflow + 1 - Bits(Modulus)
        + BitsPerLimb - 1) \div BitsPerLimb

IsMultiple(diff) ==
    LET k == Integer(diff) \div Modulus
        n == QuotientLimbs(diff)
    IN  IF ~IsElement(diff) THEN diff.is
        ELSE IF Bits(k) > n * BitsPerLimb THEN "unsat"
        ELSE assert_limbs_equality(diff,
                 Compute("mul", Allocated(Decompose(k, n), 0), From(Modulus)))

(***************************************************************************)
(* reduce: by its assertion, and FieldAssumption, the subtraction and the  *)
(* multiplication in its assert_is_equal need no reduction themselves.     *)
(***************************************************************************)
reduce(x) ==
    LET r == Allocate(Integer(x) % Modulus)
    IN  IF ~IsElement(x) THEN x
        ELSE IF x.overflow + 2 > max_overflow THEN Fails("panic")
        ELSE IF x.overflow = 0 THEN x
        ELSE Provided(IsMultiple(Compute("sub", r, x)), r)

(***************************************************************************)
(* The operand with more overflow is reduced until the result fits; when   *)
(* both are, it does.                                                      *)
(***************************************************************************)
Settle(op, p) ==
    LET larger == IF p[1].overflow < p[2].overflow THEN 2 ELSE 1
    IN  IF /\ IsElement(p[1]) /\ IsElement(p[2])
           /\ NextOverflow(op, p[1], p[2]) > max_overflow
        THEN [p EXCEPT ![larger] = reduce(@)]
        ELSE p

Apply(op, p) == Compute(op, p[1], p[2])

reduce_and_apply_op(op, a, b) == Apply(op, Settle(op, Settle(op, <<a, b>>)))

Times(x, c) ==
    IF ~IsElement(x) THEN x
    ELSE IF IsConstant(x) THEN Fails("not implemented")
    ELSE Allocated(Wrapped([i \in DOMAIN x.limbs |-> x.limbs[i] * c]),
                   Bits(c) + x.overflow)

mul_const(x, c) ==
    IF ~IsElement(x) THEN x
    ELSE IF Bits(c) > max_overflow THEN Fails("unsat")
    ELSE Times(IF Bits(c) + x.overflow <= max_overflow THEN x ELSE reduce(x),
               c)

(***************************************************************************)
(* fold_limbs: 2^E is C modulo a pseudo-Mersenne prime, so that what       *)
(* exceeds NumLimbs limbs is added to them, multiplied by a constant.      *)
(***************************************************************************)
\* Fault: limbs are taken to end where the modulus does.
FaultScale(i) == Pow(C, i)

FoldScale(i) ==
    LET width == i * NumLimbs * BitsPerLimb
    IN  Pow(C, width \div E) * Pow(2, width % E)

fold_limbs(x) ==
    LET count == (Len(x.limbs) + NumLimbs - 1) \div NumLimbs
        Chunk(i) == Allocated(SubSeq(x.limbs, i * NumLimbs + 1,
                                     Min({(i + 1) * NumLimbs,
                                          Len(x.limbs)})), x.overflow)
        acc[i \in 0..(count - 1)] ==
            IF i = 0 THEN Chunk(0)
            ELSE reduce_and_apply_op("add", acc[i - 1],
                                     mul_const(Chunk(i), FoldScale(i)))
    IN  IF mersenne /\ x.is = "allocated" /\ count > 1 THEN acc[count - 1]
                                                       ELSE x

add(a, b) == reduce_and_apply_op("add", a, b)
sub(a, b) == reduce_and_apply_op("sub", a, b)
mul(a, b) == fold_limbs(reduce_and_apply_op("mul", a, b))

assert_is_equal(a, b) ==
    IF IsConstant(a) /\ IsConstant(b)
    THEN IF Integer(a) % Modulus = Integer(b) % Modulus THEN "holds"
                                                        ELSE "unsat"
    ELSE IsMultiple(sub(a, b))

\* compute_ratio; inverse is the same with one as a.
divide(a, b) ==
    LET q == CHOOSE n \in 0..(Modulus - 1) :
                (n * Integer(b)) % Modulus = Integer(a) % Modulus
    IN  IF Integer(b) % Modulus = 0 THEN Fails("unsat")
        ELSE Provided(assert_is_equal(mul(Allocate(q), b), a), Allocate(q))

conditionally_select(a0, a1, condition) ==
    IF Len(a0.limbs) # Len(a1.limbs) THEN Fails("unsat")
    ELSE Allocated(IF condition THEN a1.limbs ELSE a0.limbs,
                   Max({a0.overflow, a1.overflow}))

\* check_field_membership: only the numbers from 2^E - C on have all bits of
\* all limbs but the lowest, and the lowest overflows if C is added to it.
Width(i) == IF i = NumLimbs THEN 1 + ((Bits(Modulus) - 1) % BitsPerLimb)
                            ELSE BitsPerLimb

\* Fault: the bits of the limbs are all that is checked.
FaultMembership(x) ==
    /\ IsConstant(x) => Integer(x) < Modulus
    /\ Len(x.limbs) = NumLimbs
    /\ \A i \in 1..NumLimbs : x.limbs[i] < Pow(2, Width(i))

check_field_membership(x) ==
    LET full == \A i \in 2..NumLimbs : x.limbs[i] = Pow(2, Width(i)) - 1
    IN  IF IsConstant(x) THEN Integer(x) < Modulus
        ELSE
        /\ Len(x.limbs) = NumLimbs
        /\ \A i \in 1..NumLimbs : x.limbs[i] < Pow(2, Width(i))
        /\ x.limbs[1] + (IF full THEN C ELSE 0) < Base

\* m = q0 + q1 * e1 + z * e2
enforce_m_valid(q0, q1, e1, e2, z, m) ==
    assert_is_equal(add(q0, add(mul(e1, q1), mul(e2, z))), m)

(***************************************************************************)
(* A circuit: operations on its elements, in any order.  One that fails    *)
(* ends it.  The only subtractions are those of assert_is_equal, as in the *)
(* circuit of the device signature proof: sub_precondition counts a bit    *)
(* too few if a.overflow is b.overflow + 2 or more.                        *)
(***************************************************************************)
Init ==
    /\ \E n \in [Reg -> Inputs], fixed \in [Reg -> BOOLEAN] :
        /\ reg = [r \in Reg |-> IF fixed[r] THEN From(n[r])
                                           ELSE Allocate(n[r])]
        /\ value = [r \in Reg |-> n[r] % Modulus]
    /\ mersenne \in BOOLEAN /\ (mersenne => C < Base)
    /\ step = 0

Assign(r, x, n) ==
    /\ step < MaxSteps
    /\ \A s \in Reg : IsElement(reg[s])
    /\ reg' = [reg EXCEPT ![r] = x]
    /\ value' = [value EXCEPT ![r] = n % Modulus]
    /\ step' = step + 1
    /\ UNCHANGED mersenne

Add(r, a, b) == Assign(r, add(reg[a], reg[b]), value[a] + value[b])
Mul(r, a, b) == Assign(r, mul(reg[a], reg[b]), value[a] * value[b])
Reduce(r) == Assign(r, reduce(reg[r]), value[r])

Scale(r, a, c) == Assign(r, mul_const(reg[a], c), c * value[a])

Divide(r, a, b) ==
    \E q \in 0..(Modulus - 1) :
        /\ IF value[b] = 0 THEN q = 0
                           ELSE (q * value[b] - value[a]) % Modulus = 0
        /\ Assign(r, divide(reg[a], reg[b]), q)

Select(r, a, b, condition) ==
    Assign(r, conditionally_select(reg[a], reg[b], condition),
           value[IF condition THEN b ELSE a])

Next ==
    \E r, a, b \in Reg :
        \/ Add(r, a, b) \/ Mul(r, a, b) \/ Divide(r, a, b) \/ Reduce(r)
        \/ \E c \in Factors : Scale(r, a, c)
        \/ \E condition \in BOOLEAN : Select(r, a, b, condition)

Spec == Init /\ [][Next]_vars

(***************************************************************************)
(* An element is congruent to the number it stands for, through products   *)
(* that have more limbs than the modulus, folded or not, and reductions:   *)
(* no limb has wrapped around the native prime (Compute, fold_limbs,       *)
(* reduce).                                                                *)
(***************************************************************************)
ValueKept ==
    \A r \in Reg : IsElement(reg[r]) => Integer(reg[r]) % Modulus = value[r]

(***************************************************************************)
(* overflow tells how much larger than fresh ones the limbs may be, which  *)
(* is what all preconditions and the grouping of limbs rely on             *)
(* (add_precondition, mul_precondition, mul_const).                        *)
(***************************************************************************)
Counted(x) ==
    \A i \in DOMAIN x.limbs : x.limbs[i] <= (Base - 1) * Pow(2, x.overflow)

LimbsCounted == \A r \in Reg : Counted(reg[r])

(***************************************************************************)
(* assert_is_equal holds for numbers that are equal modulo the prime and   *)
(* for no others, whatever their limbs look like, if there is room for a   *)
(* carry and the difference is counted right.                              *)
(***************************************************************************)
EqualityDecides ==
    \A r, s \in Reg :
        LET diff == Compute("sub", reg[r], reg[s])
        IN  /\ IsElement(reg[r]) /\ IsElement(reg[s])
            /\ NextOverflow("sub", reg[r], reg[s]) < max_overflow
            /\ Counted(diff)
            => assert_is_equal(reg[r], reg[s]) =
                    IF value[r] = value[s] THEN "holds" ELSE "unsat"

(***************************************************************************)
(* The check that a number is below a pseudo-Mersenne prime, which looks   *)
(* at single limbs only, agrees with the comparison of numbers.            *)
(***************************************************************************)
MembershipIsExact ==
    mersenne =>
        \A x \in {reg[r] : r \in Reg}
                    \cup {Allocate(n) : n \in 0..(Pow(Base, NumLimbs) - 1)} :
            Len(x.limbs) = NumLimbs =>
                (check_field_membership(x) <=>
                    /\ \A i \in DOMAIN x.limbs : x.limbs[i] < Base
                    /\ Integer(x) < Modulus)

(***************************************************************************)
(* The circuit of the device signature proof accepts the m of the relation *)
(* m = q0 + q1 * e1 + z * e2 and no other number, for q0, q1 and z that    *)
(* may be larger than the modulus.                                         *)
(***************************************************************************)
RelationIsDecided ==
    step = 0 /\ ~mersenne =>
        \A q0, q1 \in Reg, e1, e2, z \in Inputs, wrong \in {0, 1} :
            LET m == value[q0] + value[q1] * e1 + z * e2 + wrong
            IN  enforce_m_valid(Allocate(Integer(reg[q0])),
                                Allocate(Integer(reg[q1])),
                                Allocate(e1 % Modulus),
                                Allocate(e2 % Modulus),
                                Allocate(z), Allocate(m % Modulus))
                    = IF wrong = 0 THEN "holds" ELSE "unsat"

=============================================================================
