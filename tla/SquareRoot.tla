----------------------------- MODULE SquareRoot -----------------------------
(***************************************************************************)
(* sqrRootMod (libBDX/OT/Math/bigint.cpp): a square root modulo a prime,   *)
(* by one power for primes that are 3 modulo 4 and for 2, by the algorithm *)
(* of Shanks for the others.  A number without a root is not given to it:  *)
(* the loop would not end.  Beside it powerMod, the small functions of     *)
(* bigint.h, and the points that CRS (DMC.cpp) takes of a curve by roots   *)
(* that the Miracl library finds.                                          *)
(***************************************************************************)
EXTENDS Integers, FiniteSets, Sequences

CONSTANT Primes
SquareRootAssumption == Primes \subseteq Nat \ {0, 1}

\* The state:
\*   a, p: the arguments
\*   b, x, y, r: the loop's variables
\*   temp, m: of the inner loop
VARIABLES a, p, b, x, y, r, temp, m, pc, ans

vars == <<a, p, b, x, y, r, temp, m, pc, ans>>

Sqr(n) == (n * n) % p
RECURSIVE powm(_, _)
powm(n, e) == IF e = 0 THEN 1 % p
              ELSE IF e % 2 = 0 THEN Sqr(powm(n, e \div 2)) ELSE (n * Sqr(powm(n, e \div 2))) % p
IsSquare(n) == \E v \in 0..p-1 : Sqr(v) = n

\* p - 1 = 2^e q with q odd
RECURSIVE OddPart(_)
OddPart(n) == IF n % 2 = 0 THEN OddPart(n \div 2) ELSE n
q == OddPart(p - 1)
e == CHOOSE k \in 0..p : 2^k * q = p - 1

OddOnly(n) == n % 2 = 1                                       \* fault: bit 0
ThreeMod4(n) == (n \div 2) % 2 = 1

Init == /\ p \in Primes /\ a \in 0..p-1 /\ IsSquare(a)
        /\ b = 0 /\ x = 0 /\ y = 0 /\ r = 0 /\ temp = 0 /\ m = 0 /\ pc = "start" /\ ans = 0

Return(n) == ans' = n /\ pc' = "done" /\ UNCHANGED <<a, p, b, x, y, r, temp, m>>

AtOnce == /\ pc = "start"
          /\ \/ a = 0 /\ Return(0)
             \/ a # 0 /\ ThreeMod4(p) /\ Return(powm(a, (p + 1) \div 4))

SplitOff(n) == powm(n, (p - 1) \div 4)                        \* fault
Split(n)    == powm(n, q)
\* n: any number drawn until it is not a square
Begin == /\ pc = "start" /\ a # 0 /\ ~ThreeMod4(p)
         /\ \E n \in 1..p-1 : ~IsSquare(n) /\ y' = Split(n)
         /\ LET v == powm(a, (q - 1) \div 2) IN b' = (a * v * v) % p /\ x' = (a * v) % p
         /\ r' = e /\ pc' = "loop" /\ UNCHANGED <<a, p, temp, m, ans>>

Enter == /\ pc = "loop" /\ b # 1
         /\ m' = 1 /\ temp' = Sqr(b) /\ pc' = "find" /\ UNCHANGED <<a, p, b, x, y, r, ans>>
Find  == /\ pc = "find" /\ temp # 1
         /\ temp' = Sqr(temp) /\ m' = m + 1 /\ UNCHANGED <<a, p, b, x, y, r, pc, ans>>
StepsWhole(n) == 2^(r - n)                                    \* fault
Steps(n) == IF r > n THEN 2^(r - n - 1) ELSE 1
Found == /\ pc = "find" /\ temp = 1
         /\ LET t == powm(y, Steps(m)) IN
               /\ y' = Sqr(t) /\ x' = (x * t) % p /\ b' = (b * Sqr(t)) % p
         /\ r' = m /\ pc' = "loop" /\ UNCHANGED <<a, p, temp, m, ans>>
End == pc = "loop" /\ b = 1 /\ Return(x)

\* powerMod, for numbers of any size: a negative power is one of the inverse.
invMod(n) == CHOOSE w \in 1..p-1 : (w * n) % p = 1
powerMod(n, k) == IF k >= 0 THEN powm(n, k) ELSE powm(invMod(n), -k)

\* powerMod for int: the bits of the exponent from the lowest up.
RECURSIVE Multiplied(_, _, _)
Multiplied(answer, t, k) ==
    IF k = 0 THEN answer
    ELSE Multiplied(IF k % 2 = 1 THEN (answer * t) % p ELSE answer, Sqr(t), k \div 2)
powerModInt(n, k) == CASE k = 1 -> n [] k = 0 -> 1 [] OTHER -> Multiplied(1, n, k)

\* bigint.h: how often a number is halved before it is at most low.
RECURSIVE Halved(_, _)
Halved(n, low) == IF n > low THEN 1 + Halved(n \div 2, low) ELSE 0
CEIL_LOG2(n)  == Halved(n - 1, 0)
FLOOR_LOG2(n) == Halved(n, 1)
DIV_CEIL(n, k) == (n + k - 1) \div k
numBits(n) == IF n = 0 THEN 1 ELSE FLOOR_LOG2(n) + 1

\* The bytes of a number, the highest first, and zeros behind them; a number too long throws.
RECURSIVE Exported(_)
Exported(n) == IF n = 0 THEN <<>> ELSE Append(Exported(n \div 256), n % 256)
InvalidLength(n, len) == Len(Exported(n)) > len
bytesFromBigint(n, len) == Exported(n) \o [k \in 1..len - Len(Exported(n)) |-> 0]
RECURSIVE bigintFromBytes(_)
bigintFromBytes(bytes) ==
    IF bytes = <<>> THEN 0
    ELSE 256 * bigintFromBytes(SubSeq(bytes, 1, Len(bytes) - 1)) + bytes[Len(bytes)]

\* CRS: the points of the curve y^2 = x^3 - 3x + c with the four smallest coordinates x
\* whose y2 has jacobi symbol 1; larger are those of them whose larger root is found.
y2(n, c) == (n * n * n - 3 * n + c) % p
Coordinates(c) == {n \in 1..p-1 : y2(n, c) # 0 /\ IsSquare(y2(n, c))}
xOf(c, k) == CHOOSE n \in Coordinates(c) : Cardinality({l \in Coordinates(c) : l < n}) = k - 1
sqrt(v, large) == CHOOSE w \in 1..p-1 : Sqr(w) = v /\ (w > p \div 2) = large
CRSAny(c, larger) ==                                          \* fault: the root as it is found
    [k \in 1..4 |-> LET n == xOf(c, k) IN <<n, sqrt(y2(n, c), k \in larger)>>]
CRS(c, larger) ==
    [k \in 1..4 |-> LET n == xOf(c, k)  y1 == sqrt(y2(n, c), k \in larger)
                    IN  <<n, IF y1 > p \div 2 THEN p - y1 ELSE y1>>]

Next == AtOnce \/ Begin \/ Enter \/ Find \/ Found \/ End
Spec == Init /\ [][Next]_vars /\ WF_vars(Next)
-----------------------------------------------------------------------------
\* The loop of Shanks: x is a root of a up to b, b has an order below that of y, which is 2^r.
ShanksInvariant == pc \in {"loop", "find"} =>
    /\ Sqr(x) = (a * b) % p
    /\ r >= 1 /\ powm(y, 2^(r - 1)) = p - 1
    /\ powm(b, 2^(r - 1)) = 1
    /\ pc = "find" => temp = powm(b, 2^m)

\* What is returned is a root.
ReturnsRoot == pc = "done" => Sqr(ans) = a

\* Both forms of powerMod give powers, the negative ones those of the inverse.
PowersRight == pc = "start" /\ a # 0 => \A k \in 0..6 :
    /\ powerModInt(a, k) % p = powm(a, k)
    /\ (powerMod(a, -k) * powm(a, k)) % p = 1 % p

\* Logarithms and quotients are rounded as their names say.
RoundedRight == pc = "start" /\ a # 0 =>
    /\ 2^FLOOR_LOG2(a) <= a /\ a < 2^(FLOOR_LOG2(a) + 1) /\ numBits(a) = CEIL_LOG2(a + 1)
    /\ a <= 2^CEIL_LOG2(a) /\ (a > 1 => 2^(CEIL_LOG2(a) - 1) < a)
    /\ \A k \in 1..9 : k * DIV_CEIL(a, k) \in a..a+k-1

\* A number is read back from its bytes; from a longer buffer, times a power of 256: the
\* zeros are behind it.
BytesBack == pc = "start" => \A len \in 0..3 :
    LET n == a * p
    IN  /\ InvalidLength(n, len) <=> n >= 256^len
        /\ ~InvalidLength(n, len) =>
               /\ Len(bytesFromBigint(n, len)) = len
               /\ bigintFromBytes(bytesFromBigint(n, len)) = n * 256^(len - Len(Exported(n)))

\* "Need to make this deterministic even if sqrt is probabilistic" (DMC.cpp:27): the four
\* points are the same ones whichever roots are found.
SamePoints == pc = "start" /\ a = 0 /\ p < 20 => \A c \in 1..2 : Cardinality(Coordinates(c)) >= 4 =>
    \A larger \in SUBSET (1..4) : CRS(c, larger) = CRS(c, {})

\* It returns, whatever non-square was drawn.
Ended == pc = "done"
Returns == <>Ended

=============================================================================
