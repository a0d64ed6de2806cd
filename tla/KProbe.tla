------------------------------- MODULE KProbe -------------------------------
(***************************************************************************)
(* The k-probe resistant matrix (libBDX/Circuit/KProbeResistant.cpp): how  *)
(* build chooses its parameters and draws its rows, and how inputs and     *)
(* wire labels are encoded and decoded under it.                           *)
(*                                                                         *)
(* The field F_{2^t} is the numbers below 2^t, whose bits are the          *)
(* coefficients of a polynomial modulo an irreducible one.                 *)
(***************************************************************************)
EXTENDS Integers, FiniteSets, FiniteSetsExt

CONSTANTS InputSizes, SecParams,   \* what a matrix may be built for
          MaxOnes                  \* bound: ones in the random part of an encoding

KProbeAssumption == /\ InputSizes \subseteq Nat \ {0} /\ SecParams \subseteq Nat \ {0} /\ MaxOnes \in Nat

VARIABLES pc, n, secParam,      \* the arguments of build
          t, T, N,              \* its locals
          mMtx,                 \* the rows
          input, encoding,      \* of the evaluator: bits
          labels                \* of the garbler: encodedLabels, as sets of independent blocks

vars == <<pc, n, secParam, t, T, N, mMtx, input, encoding, labels>>

\* Powers and logarithms, without leaving the small integers.
Pow2AtLeast(e, a) == IF e >= 30 THEN TRUE ELSE e >= 0 /\ 2^e >= a
Ceiling(P(_), from) == CHOOSE a \in from..from+400 : P(a) /\ \A b \in from..a-1 : ~P(b)

\* Multiplication in F_{2^t}: an irreducible polynomial for each t.
Modulus(s) == CASE s = 1 -> 2 [] s = 2 -> 7 [] s = 3 -> 11 [] s = 4 -> 19 [] s = 5 -> 37 [] s = 6 -> 67
BitOf(a, i) == (a \div 2^i) % 2
Plus(a, b) ==
    LET x[i \in 0..12] == IF i = 12 THEN 0 ELSE x[i+1] + 2^i * ((BitOf(a, i) + BitOf(b, i)) % 2) IN x[0]
Reduced(a) ==    \* to_GF2E
    LET r[i \in 0..12] == IF i = 12 THEN a
                          ELSE IF i >= t /\ BitOf(r[i+1], i) = 1 THEN Plus(r[i+1], Modulus(t) * 2^(i - t)) ELSE r[i+1]
    IN  r[0]
Times(a, b) ==
    LET p[i \in 0..6] == IF i = 6 THEN 0 ELSE IF BitOf(b, i) = 1 THEN Plus(p[i+1], a * 2^i) ELSE p[i+1]
    IN  Reduced(p[0])

K == Ceiling(LAMBDA a : Pow2AtLeast(a * t - n - secParam, n), 1)
m == N * t
mEncodingSize == m + n

\* The value at the point x of the polynomial with coefficients p[0], p[1] ...
EvalAt(p, x) ==
    LET v[i \in Nat] == IF i \notin DOMAIN p THEN 0 ELSE Plus(p[i], Times(Reduced(x), v[i+1])) IN v[0]

\* A row: the bits of the values at 1..N.
RowOfLast(p) == [j \in 0..m-1 |-> IF j < t THEN BitOf(EvalAt(p, N), j) ELSE 0]   \* fault: idx starts again
Row(p) == [j \in 0..m-1 |-> BitOf(EvalAt(p, 1 + j \div t), j % t)]

\* The sum of the bits, or of the blocks, that a row picks.
Parity(row, bits) == Cardinality({j \in DOMAIN row : row[j] = 1 /\ bits[j] = 1}) % 2
Xored(a, b) == (a \ b) \cup (b \ a)
Picked(row, blocks) == FoldSet(LAMBDA j, s : Xored(blocks[j], s), {}, {j \in DOMAIN row : row[j] = 1})
-----------------------------------------------------------------------------
Nothing == <<>>
Init ==
    /\ pc = "shrink"
    /\ n \in InputSizes /\ secParam \in SecParams
    /\ t = Ceiling(LAMBDA a : 2^a >= 4 * n /\ 2^a >= 4 * secParam, 0)
    /\ T = 2^(t - 1)
    /\ N = 0 /\ mMtx = <<>> /\ input = Nothing /\ encoding = Nothing /\ labels = Nothing

\* T > h / (t - 1), with h = secParam + (log2(inputSize) + inputSize + secParam).
TooLarge == LET d == T * (t - 1) - 2 * secParam - n IN Pow2AtLeast(d, n + 1)

ShrinkOnly ==                                         \* fault: T is not halved
    /\ pc = "shrink" /\ TooLarge
    /\ t' = t - 1
    /\ UNCHANGED <<pc, n, secParam, T, N, mMtx, input, encoding, labels>>
Shrink ==
    /\ pc = "shrink" /\ TooLarge
    /\ t' = t - 1 /\ T' = T \div 2
    /\ UNCHANGED <<pc, n, secParam, N, mMtx, input, encoding, labels>>

Choose ==
    /\ pc = "shrink" /\ ~TooLarge
    /\ N' = K + secParam - 1
    /\ pc' = "rows"
    /\ UNCHANGED <<n, secParam, t, T, mMtx, input, encoding, labels>>

\* SetCoeff with get_bit: the first K - 1 coefficients are drawn, a bit each.
Polynomials == [0..K-2 -> {0, 1}]

DrawRow ==
    /\ pc = "rows" /\ Cardinality(DOMAIN mMtx) < n
    /\ \E p \in Polynomials :
          mMtx' = [i \in 0..Cardinality(DOMAIN mMtx) |-> IF i \in DOMAIN mMtx THEN mMtx[i] ELSE Row(p)]
    /\ UNCHANGED <<pc, n, secParam, t, T, N, input, encoding, labels>>

\* The labels of 0 of the input wires, one independent block each.
ZeroLabel(i) == {<<"wire", i>>}
xorOffset == {<<"offset", 0>>}

\* encode, of labels: the first m are random, the last n make up for them.
EncodeLabels ==
    /\ pc = "rows" /\ Cardinality(DOMAIN mMtx) = n
    /\ LET random == [j \in 0..m-1 |-> {<<"random", j>>}]
       IN  labels' = [j \in 0..mEncodingSize-1 |->
                         IF j < m THEN random[j] ELSE Xored(ZeroLabel(j - m), Picked(mMtx[j - m], random))]
    /\ pc' = "encode"
    /\ UNCHANGED <<n, secParam, t, T, N, mMtx, input, encoding>>

\* encode, of bits: the random ones are kept, the last n say whether their parity is wrong.
EncodedUnprojected(x, random) == [j \in 0..mEncodingSize-1 |-> IF j < m THEN random[j] ELSE x[j - m]]   \* fault
Encoded(x, random) ==
    [j \in 0..mEncodingSize-1 |-> IF j < m THEN random[j]
                                  ELSE IF Parity(mMtx[j - m], random) # x[j - m] THEN 1 ELSE 0]

Encode ==
    /\ pc = "encode"
    /\ \E x \in [0..n-1 -> {0, 1}], ones \in UNION {kSubset(o, 0..m-1) : o \in 0..MaxOnes} :
        /\ input' = x
        /\ encoding' = Encoded(x, [j \in 0..m-1 |-> IF j \in ones THEN 1 ELSE 0])
    /\ pc' = "done"
    /\ UNCHANGED <<n, secParam, t, T, N, mMtx, labels>>

Next == Shrink \/ Choose \/ DrawRow \/ EncodeLabels \/ Encode

Spec == Init /\ [][Next]_vars

\* decode, of bits and of blocks.
DecodedBits(e) == [i \in 0..n-1 |-> (e[m + i] + Parity(mMtx[i], e)) % 2]
Decoded(e) == [i \in 0..n-1 |-> Xored(e[m + i], Picked(mMtx[i], e))]
DecodedPairs(e) ==
    [i \in 0..n-1 |-> [c \in 1..2 |-> Xored(e[m + i][c], Picked(mMtx[i], [j \in DOMAIN e |-> e[j][c]]))]]
-----------------------------------------------------------------------------
TypeOK ==
    /\ pc \in {"shrink", "rows", "encode", "done"} /\ t \in Nat /\ T = 2^(t - 1) /\ N \in Nat
    /\ \A i \in DOMAIN mMtx : mMtx[i] \in [0..m-1 -> {0, 1}]
    /\ input # Nothing => encoding \in [0..mEncodingSize-1 -> {0, 1}]

\* An encoding decodes to the input, and the labels the evaluator gets for an encoded
\* input decode to the labels of the input (KProbe_Labels_Test_Impl).
Chosen == [j \in DOMAIN labels |-> IF encoding[j] = 1 THEN Xored(labels[j], xorOffset) ELSE labels[j]]
DecodesToInput == pc = "done" =>
    /\ DecodedBits(encoding) = input
    /\ Decoded(Chosen) = [i \in 0..n-1 |-> IF input[i] = 1 THEN Xored(ZeroLabel(i), xorOffset) ELSE ZeroLabel(i)]
    /\ DecodedPairs([j \in DOMAIN labels |-> <<labels[j], Chosen[j]>>]) =
           [i \in 0..n-1 |-> <<ZeroLabel(i), Decoded(Chosen)[i]>>]

\* Who learns fewer than secParam bits of an encoding learns nothing of the input: a sum
\* of rows is zero or has at least secParam ones.
SumOfRows(S) == [j \in 0..m-1 |-> Cardinality({i \in S : mMtx[i][j] = 1}) % 2]
Weight(row) == Cardinality({j \in DOMAIN row : row[j] = 1})
Resistant == \A S \in SUBSET DOMAIN mMtx : Weight(SumOfRows(S)) = 0 \/ Weight(SumOfRows(S)) >= secParam

\* The field is large enough for N points: "find the minimum t such that
\* 2^t >= k + (lg(n) + n + k) / t" (KProbeResistant.cpp:121).
PointsDistinct == pc # "shrink" => N < 2^t

=============================================================================
