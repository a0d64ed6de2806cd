-------------------------------- MODULE Modp --------------------------------
(***************************************************************************)
(* modp and Zp_Data (libBDX/OT/Math/modp.cpp, Zp_Data.cpp): elements of a  *)
(* prime field in t limbs, as they are or in Montgomery's representation.  *)
(* A number in limbs is an integer here, B^t and above is a carry out of   *)
(* the last limb; mpn_ and mpz_ functions are arithmetic.                  *)
(***************************************************************************)
EXTENDS Integers

CONSTANTS B,            \* values of a limb (2^64)
          Primes,       \* of the field
          Modes,        \* whether Montgomery's representation is used
          Reg,          \* the elements that are computed with
          Ints,         \* what is converted
          MaxExp        \* bound on exponents
ModpAssumption == /\ B \in Nat \ {0, 1} /\ Primes \subseteq Nat \ {0, 1, 2}
                  /\ Modes \subseteq BOOLEAN /\ Ints \subseteq Int /\ MaxExp \in Nat

\* The state:
\*   ZpD: montgomery, pr, t, pi, R, R2, R3
\*   x: the elements
\*   given: the integer last converted into each, if nothing happened since
VARIABLES ZpD, x, given

vars == <<ZpD, x, given>>

mpz_size(n) == CHOOSE s \in 0..n : n < B^s /\ \A r \in 0..s-1 : n >= B^r
Limb(n, i)  == (n \div B^i) % B

\* n is copied with the number of limbs of r: less than n has, or whatever is behind it.
CopiedAs(n, r) == IF mpz_size(n) >= mpz_size(r) THEN {n % B^mpz_size(r)}
                  ELSE {n + s * B^mpz_size(n) : s \in 0..B^(mpz_size(r) - mpz_size(n))-1}

\* init
PiOf(p, t) == LET r == B^t
                  pp == CHOOSE w \in 1..r-1 : (w * p) % r = 1
              IN (r - pp) % B
ZpDInit(p, mont) ==
    LET t == mpz_size(p)  r == B^t % p  r2 == (r * r) % p  r3 == (r2 * r) % p IN
    IF mont THEN {[montgomery |-> TRUE, pr |-> p, t |-> t, pi |-> PiOf(p, t), R |-> r, R2 |-> c2, R3 |-> c3] :
                     c2 \in CopiedAs(r2, r), c3 \in CopiedAs(r3, r)}
    ELSE {[montgomery |-> FALSE, pr |-> p, t |-> t, pi |-> 0, R |-> 0, R2 |-> 0, R3 |-> 0]}

p == ZpD.pr
t == ZpD.t
W == B^t

NotReduced(z) == z % W                                        \* fault: the last subtraction is left out
Reduced(z) == IF z >= p THEN (z - p) % W ELSE z
\* Mont_Mult: after limb i of a, i + 1 limbs of acc are zero; they are dropped at the end.
RECURSIVE MontLimbs(_, _, _, _)
MontLimbs(acc, a, b, i) ==
    IF i = t THEN acc \div W
    ELSE LET u == ((Limb(acc, i) + Limb(a, i) * Limb(b, 0)) * ZpD.pi) % B
         IN  MontLimbs((acc + (Limb(a, i) * b + u * p) * B^i) % B^(t + i + 2), a, b, i + 1)
Mont_MultUnreduced(a, b) == MontLimbs(0, a, b, 0) % W         \* fault
Mont_Mult(a, b) == Reduced(MontLimbs(0, a, b, 0))

Added(a, b) == LET s == (a + b) % W IN
               IF a + b >= W \/ s >= p THEN (s - p) % W ELSE s
Subtracted(a, b) == LET d == (a - b) % W IN IF a < b THEN (d + p) % W ELSE d
Negated(a) == IF a = 0 THEN a ELSE (p - a) % W
One == IF ZpD.montgomery THEN ZpD.R ELSE 1
isZero(a) == a = 0
isOne(a) == a = One
areEqual(a, b) == a = b
Product(a, b) == IF ZpD.montgomery THEN Mont_Mult(a, b) ELSE (a * b) % p

ToR(a) == Mont_Mult(a, ZpD.R3)
InvertedOnce(a) == CHOOSE w \in 1..p-1 : (w * a) % p = 1        \* fault: R is not put back
Inverted(a) == LET i == CHOOSE w \in 1..p-1 : (w * a) % p = 1
               IN  IF ZpD.montgomery THEN ToR(i) ELSE i

RECURSIVE SquareMultiply(_, _, _)
SquareMultiply(acc, sq, e) ==
    IF e = 0 THEN acc
    ELSE SquareMultiply(IF e % 2 = 1 THEN Product(acc, sq) ELSE acc, Product(sq, sq), e \div 2)
PowerOf(a, e) == CASE e = 1 -> a [] e = 0 -> One [] OTHER -> SquareMultiply(One, a, e)

\* to_modp: of an int, where one limb is enough without bigint, and of a bigint.
InLimbsDirect(n) == n % W                                      \* fault
InLimbs(n) == IF n >= 0 THEN IF t = 1 THEN (n % W) % p ELSE n
              ELSE IF t = 1 THEN ((p + n) % W) % p ELSE n % p
Converted(n) == IF ZpD.montgomery THEN Mont_Mult(InLimbs(n), ZpD.R2) ELSE InLimbs(n)
ConvertedBig(n) == IF ZpD.montgomery THEN Mont_Mult(n % p, ZpD.R2) ELSE n % p
to_bigint(a) == IF ZpD.montgomery THEN Mont_Mult(a, 1) ELSE a

\* output and input: for humans the number itself, else the limbs, as in pack and unpack.
Written(a, human) == IF human THEN to_bigint(a) ELSE a % W
Read(w, human) == IF human THEN ConvertedBig(w) ELSE w

Init == /\ \E q \in Primes, mont \in Modes : ZpD \in ZpDInit(q, mont)
        /\ x = [k \in Reg |-> 0] /\ given = [k \in Reg |-> {}]

Set(k, a) == x' = [x EXCEPT ![k] = a] /\ given' = [given EXCEPT ![k] = {}] /\ UNCHANGED ZpD

Add(k, l, m) == Set(k, Added(x[l], x[m]))
Sub(k, l, m) == Set(k, Subtracted(x[l], x[m]))
Negate(k, l) == Set(k, Negated(x[l]))
Mul(k, l, m) == Set(k, Product(x[l], x[m]))               \* and Sqr
Inv(k, l) == x[l] # 0 /\ Set(k, Inverted(x[l]))           \* mpn_gcdext is given no zero
Power(k, l, e) == Set(k, PowerOf(x[l], e))
assignZero(k) == Set(k, 0)
assignOne(k) == Set(k, One)
to_modp(k, n) == /\ \E a \in {Converted(n), ConvertedBig(n)} : x' = [x EXCEPT ![k] = a]
                 /\ given' = [given EXCEPT ![k] = {n}] /\ UNCHANGED ZpD

Stream(k, l) == \E human \in BOOLEAN : Set(k, Read(Written(x[l], human), human))
Pack(k, l) == Set(k, x[l] % W)                            \* and unpack

Next == \E k, l, m \in Reg :
    \/ Add(k, l, m) \/ Sub(k, l, m) \/ Negate(k, l) \/ Mul(k, l, m) \/ Inv(k, l)
    \/ assignZero(k) \/ assignOne(k) \/ Stream(k, l) \/ Pack(k, l)
    \/ \E e \in 0..MaxExp : Power(k, l, e)
    \/ \E n \in Ints : to_modp(k, n)
Spec == Init /\ [][Next]_vars
-----------------------------------------------------------------------------
\* Elements are below the prime: comparing limbs compares elements.
TypeOK == \A k \in Reg : x[k] \in 0..p-1

\* Whatever is computed with reachable elements, in either representation, is what the field
\* says, and an element that is written is read as the same one.
Powers[n \in Nat, v \in Nat] == IF n = 0 THEN 1 ELSE (v * Powers[n - 1, v]) % p
Computes == \A k, l \in Reg : LET a == to_bigint(x[k])  b == to_bigint(x[l]) IN
    /\ to_bigint(Added(x[k], x[l])) = (a + b) % p
    /\ to_bigint(Subtracted(x[k], x[l])) = (a - b) % p
    /\ to_bigint(Negated(x[k])) = (-a) % p
    /\ to_bigint(Product(x[k], x[l])) = (a * b) % p
    /\ a # 0 => (to_bigint(Inverted(x[k])) * a) % p = 1
    /\ \A e \in 0..MaxExp : to_bigint(PowerOf(x[k], e)) = Powers[e, a]
    /\ \A human \in BOOLEAN : Read(Written(x[k], human), human) = x[k]
    /\ isZero(x[k]) = (a = 0) /\ isOne(x[k]) = (a = 1) /\ areEqual(x[k], x[l]) = (a = b)

\* A number converted to an element and back is itself modulo the prime.
ConvertsBack == \A k \in Reg : \A n \in given[k] : to_bigint(x[k]) = n % p

=============================================================================
