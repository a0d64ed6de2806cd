---------------------------- MODULE OTExtension ----------------------------
(***************************************************************************)
(* The OT extension (libBDX/OT): OTExtReceiver::Extend and                 *)
(* OTExtSender::Extend, run by two parties that both follow the code, and  *)
(* the threads that read finished OTs while the extension goes on.         *)
(*                                                                         *)
(* K is BASE_OT_COUNT, 128 in the code: the width of a block, the number   *)
(* of base OTs and the number of OTs extended at a time.  Gen and Chi are  *)
(* pseudo-random streams: Gen[i][b][n] is the n-th block from base OT i    *)
(* and message b, Chi[s][n] the n-th block from the common seed s.  SHA1   *)
(* is abstracted to the block it hashes.                                   *)
(*                                                                         *)
(* An operator marked "fault" is a variant, with a plausible slip, of the  *)
(* operator defined after it.  No action uses one; each property below is  *)
(* checked to fail when one of them takes the place of the real operator.  *)
(***************************************************************************)
EXTENDS Integers, FiniteSets, Sequences

-----------------------------------------------------------------------------
(* Vectors over GF(2) and the operations of libBDX/OT/Tools.cpp that the     *)
(* extension is built on: mul128, a carry-less multiplication put together   *)
(* from products of halves, and eklundh_transpose128, which transposes a     *)
(* square of bits by swapping ever smaller blocks; and beside them gfmul128, *)
(* which reduces the product.  A block of K bits is the set of the positions *)
(* of its ones: XOR is the symmetric difference.                             *)

Xor(a, b) == (a \ b) \cup (b \ a)

Block(K) == SUBSET (0..K-1)

\* The product of two polynomials: bit d counts, modulo two, how often two ones
\* add up to d.
Product(a, b) ==
    {d \in {i + j : <<i, j>> \in a \X b} : Cardinality({i \in a : d - i \in b}) % 2 = 1}

Shift(a, n) == {i + n : i \in a}
Low(a, n)   == {i \in a : i < n}                      \* the low n bits
High(a, n)  == {i - n : i \in {j \in a : j >= n}}     \* the others, moved down

\* mul128 for blocks of 2 * h bits, from four products of halves; the middle
\* ones are split between the low and the high block of the result.
MulNoCarry(a, b, h) ==                                \* fault: the middle product is cut
    LET mid == Xor(Product(High(a, h), Low(b, h)), Product(Low(a, h), High(b, h)))
    IN  <<Xor(Product(Low(a, h), Low(b, h)), Low(Shift(mid, h), 2 * h)),
          Product(High(a, h), High(b, h))>>
Mul(a, b, h) ==
    LET mid == Xor(Product(High(a, h), Low(b, h)), Product(Low(a, h), High(b, h)))
    IN  <<Xor(Product(Low(a, h), Low(b, h)), Low(Shift(mid, h), 2 * h)),
          Xor(Product(High(a, h), High(b, h)), High(mid, h))>>

\* The shifts of four lanes of n bits each, _mm_slli_epi32 and _mm_srli_epi32, and those
\* of a whole block by whole lanes.
LanesLeft(a, k, n)  == {i + k : i \in {j \in a : (j % n) + k < n}}
LanesRight(a, k, n) == {i - k : i \in {j \in a : j % n >= k}}
Left(a, lanes, n)   == Low(Shift(a, lanes * n), 4 * n)
Right(a, lanes, n)  == High(a, lanes * n)
XorAll(f) == {d \in UNION {f[k] : k \in DOMAIN f} : Cardinality({k \in DOMAIN f : d \in f[k]}) % 2 = 1}

\* gfred128: the two blocks of a product are shifted by one bit, across the lanes, and the
\* low one is folded into the high one.
gfred128Dropped(lo, hi, n) ==                         \* fault: what leaves the lanes is not kept
    LET Doubled(a) == LanesLeft(a, 1, n) \cup Left(LanesRight(a, n - 1, n), 1, n)
        tmp3 == Doubled(lo)
        tmp6 == Doubled(hi) \cup Right(LanesRight(lo, n - 1, n), 3, n)
        tmp7 == XorAll([k \in {1, 2, 7} |-> LanesLeft(tmp3, n - k, n)])
        low  == Xor(tmp3, Left(tmp7, 3, n))
    IN  Xor(tmp6, Xor(low, XorAll([k \in {1, 2, 7} |-> LanesRight(low, k, n)])))
gfred128(lo, hi, n) ==
    LET Doubled(a) == LanesLeft(a, 1, n) \cup Left(LanesRight(a, n - 1, n), 1, n)
        tmp3 == Doubled(lo)
        tmp6 == Doubled(hi) \cup Right(LanesRight(lo, n - 1, n), 3, n)
        tmp7 == XorAll([k \in {1, 2, 7} |-> LanesLeft(tmp3, n - k, n)])
        low  == Xor(tmp3, Left(tmp7, 3, n))
        tmp2 == Xor(XorAll([k \in {1, 2, 7} |-> LanesRight(low, k, n)]), Right(tmp7, 1, n))
    IN  Xor(tmp6, Xor(low, tmp2))
gfmul128(a, b, n) == LET p == Mul(a, b, 2 * n) IN gfred128(p[1], p[2], n)

\* The remainder of a polynomial of degree below 2 * K modulo x^K + x^7 + x^2 + x + 1: the
\* powers from x^K on are replaced, once and, as that gives up to x^(K + 6), once more.
Remainder(p, K) ==
    LET Replaced(q) == Xor(Low(q, K), Product(High(q, K), {0, 1, 2, 7}))
    IN  Replaced(Replaced(p))

Transposed(rows) == [r \in DOMAIN rows |-> {c \in DOMAIN rows : r \in rows[c]}]

\* One pass of the transposition: rows k and k + w of each group of 2 * w rows
\* exchange blocks of w columns, the upper right and the lower left one.
PassUpper(rows, w) ==                                 \* fault: reads a row already written
    LET left == {c \in 0..Cardinality(DOMAIN rows)-1 : c % (2 * w) < w}
        upper == [r \in DOMAIN rows |-> IF r % (2 * w) < w
                     THEN (rows[r] \cap left) \cup Shift(rows[r + w] \cap left, w) ELSE rows[r]]
    IN  [r \in DOMAIN rows |-> IF r % (2 * w) < w THEN upper[r]
            ELSE {c - w : c \in upper[r - w] \ left} \cup (rows[r] \ left)]
PassNoMask(rows, w) ==                                \* fault: shifts the whole row
    LET left == {c \in 0..Cardinality(DOMAIN rows)-1 : c % (2 * w) < w} IN
    [r \in DOMAIN rows |-> IF r % (2 * w) < w THEN (rows[r] \cap left) \cup Shift(rows[r + w], w)
                                             ELSE (rows[r - w] \ left) \cup (rows[r] \ left)]
Pass(rows, w) ==
    [r \in DOMAIN rows |->
        LET left == {c \in 0..Cardinality(DOMAIN rows)-1 : c % (2 * w) < w} IN
        IF r % (2 * w) < w
        THEN (rows[r] \cap left) \cup Shift(rows[r + w] \cap left, w)
        ELSE {c - w : c \in rows[r - w] \ left} \cup (rows[r] \ left)]

\* eklundh_transpose128: a pass for each width from half the rows down to one.  The
\* number of rows is a power of two, 128 in the code.
Transpose(rows) ==
    LET n == Cardinality(DOMAIN rows)
        after[w \in {d \in 1..n : n % d = 0}] ==
            IF w = n THEN rows ELSE Pass(after[2 * w], w)
    IN  after[1]

-----------------------------------------------------------------------------
(* The extension. *)

CONSTANTS K,         \* BASE_OT_COUNT
          OTCount,   \* otCount
          SeedBits,  \* the seeds of the check are blocks of SeedBits bits
          Gens,      \* a set of streams Gen
          Chi

RoundUp(n) == ((n + K - 1) \div K) * K
NumOTExt   == RoundUp(OTCount) + K
NumBlocks  == NumOTExt \div K

Column == 0..K-1
Row    == 0..NumOTExt-1
OT     == 0..OTCount-1
Seed   == Block(SeedBits)

OTExtensionAssumption ==
    /\ K \in Nat \ {0} /\ K % 2 = 0 /\ OTCount \in Nat \ {0} /\ SeedBits \in Nat
    /\ \A g \in Gens : g \in [Column -> [{0, 1} -> [0..NumBlocks-1 -> Block(K)]]]
    /\ Chi \in [Seed -> [Row -> Block(K)]]

None == {-1}    \* a block that was not computed

VARIABLES gen,     \* the stream behind the base OTs
          delta,   \* baseChoiceBits, the sender's
          r,       \* the receiver: pc, choice bits, block, rows, messages, done index
          s,       \* the sender: pc, block, rows, both messages, done index, commitment
          toR, toS \* messages in flight

vars == <<gen, delta, r, s, toR, toS>>

Vector(n, x) == [i \in 0..n-1 |-> x]

Init ==
    /\ gen \in Gens /\ delta \in Block(K)
    /\ \E seed \in Seed :
        r = [pc |-> "start", seed |-> seed, choice |-> {}, choices |-> 0, blk |-> 0,
             rows |-> Vector(NumOTExt, None), msgs |-> Vector(OTCount, None), done |-> 0]
    /\ \E seed \in Seed :
        s = [pc |-> "start", seed |-> seed, comm |-> None, theirs |-> None, blk |-> 0,
             rows |-> Vector(NumOTExt, None), msgs |-> Vector(OTCount, <<None, None>>), done |-> 0]
    /\ toR = <<>> /\ toS = <<>>

\* How many rows of a block become OTs: all, or those that are left.
StopIdxAll(done) == K                                 \* fault: past the end of the messages
StopIdx(done)    == IF OTCount - done < K THEN OTCount - done ELSE K

\* The OTs of a block, as row numbers, and all its rows.
Fresh(blk, done) == {blk * K + n : n \in 0..StopIdx(done)-1}
Rows(blk)        == {blk * K + n : n \in Column}

\* vec with the entries at the indices idx replaced.
Filled(vec, idx, val(_)) == [i \in DOMAIN vec |-> IF i \in idx THEN val(i) ELSE vec[i]]

-----------------------------------------------------------------------------
(* OTExtReceiver::Extend.  The sender's u is t0 + t1 + x, row by row. *)

\* Choice bits for all rows, the extra ones too, and a commitment to a seed.
ReceiverStart ==
    /\ r.pc = "start"
    /\ \E choice \in SUBSET Row : r' = [r EXCEPT !.pc = "blocks", !.choice = choice,
                                                 !.choices = NumOTExt]
    /\ toS' = Append(toS, [kind |-> "commit", val |-> r.seed])
    /\ UNCHANGED <<gen, delta, s, toR>>

\* The choice bits of a block, as a block.
ChoiceBlock(blk) == {n \in Column : blk * K + n \in r.choice}

UNoChoice(blk) ==                                     \* fault: t0 + t1
    [i \in Column |-> Xor(gen[i][1][blk], gen[i][0][blk])]
U(blk) ==
    [i \in Column |-> Xor(gen[i][1][blk], Xor(gen[i][0][blk], ChoiceBlock(blk)))]

\* One block: send u, transpose t0, make messages of its rows.  The rows past
\* otCount only take part in the check.
DoneIdx(blk) == IF (blk + 1) * K < OTCount THEN (blk + 1) * K ELSE OTCount

ReceiverBlock ==
    LET t0     == Transpose([i \in Column |-> gen[i][0][r.blk]])
        row(j) == t0[j - r.blk * K]
    IN
    /\ r.pc = "blocks"
    /\ toS' = Append(toS, [kind |-> "u", val |-> U(r.blk)])
    /\ r' = [r EXCEPT !.rows = Filled(@, Rows(r.blk), row),
                      !.msgs = Filled(@, Fresh(r.blk, r.done), row),
                      !.done = DoneIdx(r.blk),
                      !.blk = @ + 1,
                      !.pc = IF r.blk + 1 = NumBlocks THEN "seed" ELSE "blocks"]
    /\ UNCHANGED <<gen, delta, s, toR>>

Sum(rows, chi) ==
    [h \in 1..2 |-> {d \in 0..2*K : Cardinality({i \in Row :
                        d \in Mul(rows[i], chi[i], K \div 2)[h]}) % 2 = 1}]
Chosen(choice, chi) == {d \in Column : Cardinality({i \in choice : d \in chi[i]}) % 2 = 1}

\* Their seed is in: open the own one, send the combinations.  The choice bits
\* lose the rows of the check; that changes their number and moves nothing.
ShrunkToEnd(choice) == {i \in OT : i + NumOTExt - OTCount \in choice}  \* fault: the wrong end
Shrunk(choice)      == choice

ReceiverOpen ==
    LET chi == Chi[Xor(r.seed, Head(toR).val)] IN
    /\ r.pc = "seed" /\ toR # <<>>
    /\ toR' = Tail(toR)
    /\ toS' = toS \o <<[kind |-> "open", val |-> r.seed],
                       [kind |-> "check", val |-> <<Chosen(r.choice, chi), Sum(r.rows, chi)>>]>>
    /\ r' = [r EXCEPT !.pc = "end", !.choice = Shrunk(@), !.choices = OTCount]
    /\ UNCHANGED <<gen, delta, s>>

-----------------------------------------------------------------------------
(* OTExtSender::Extend. *)

SenderCommit ==
    /\ s.pc = "start" /\ toS # <<>>
    /\ s' = [s EXCEPT !.pc = "blocks", !.comm = Head(toS).val]
    /\ toS' = Tail(toS)
    /\ UNCHANGED <<gen, delta, r, toR>>

\* What the sender knows of base OT i: the stream it chose, corrected by u.
Q(u, blk) == [i \in Column |-> IF i \in delta THEN Xor(gen[i][1][blk], u[i]) ELSE gen[i][0][blk]]

\* One block: the row is the one message, the row plus delta the other.
SenderBlock ==
    LET q       == Transpose(Q(Head(toS).val, s.blk))
        row(j)  == q[j - s.blk * K]
        pair(j) == <<row(j), Xor(row(j), delta)>>
    IN
    /\ s.pc = "blocks" /\ toS # <<>>
    /\ toS' = Tail(toS)
    /\ s' = [s EXCEPT !.rows = Filled(@, Rows(s.blk), row),
                      !.msgs = Filled(@, Fresh(s.blk, s.done), pair),
                      !.done = @ + StopIdx(@),
                      !.blk = @ + 1,
                      !.pc = IF s.blk + 1 = NumBlocks THEN "seed" ELSE "blocks"]
    /\ UNCHANGED <<gen, delta, r, toR>>

SenderSeedLast ==                                     \* fault: waits for their seed first
    /\ s.pc = "seed" /\ toS # <<>>
    /\ toR' = Append(toR, [kind |-> "seed", val |-> s.seed])
    /\ s' = [s EXCEPT !.pc = "open"]
    /\ UNCHANGED <<gen, delta, r, toS>>
SenderSeed ==
    /\ s.pc = "seed"
    /\ toR' = Append(toR, [kind |-> "seed", val |-> s.seed])
    /\ s' = [s EXCEPT !.pc = "open"]
    /\ UNCHANGED <<gen, delta, r, toS>>

\* The commitment must open to the seed, ...
SenderOpened ==
    /\ s.pc = "open" /\ toS # <<>>
    /\ s' = [s EXCEPT !.theirs = Head(toS).val,
                      !.pc = IF Head(toS).val = s.comm THEN "check" ELSE "threw"]
    /\ toS' = Tail(toS)
    /\ UNCHANGED <<gen, delta, r, toR>>

\* ... and t = x * delta + q.
Checks(x, t) ==
    LET q == Sum(s.rows, Chi[Xor(s.seed, s.theirs)])  xd == Mul(x, delta, K \div 2)
    IN  \A h \in 1..2 : t[h] = Xor(xd[h], q[h])

SenderCheck ==
    LET check == Head(toS).val IN
    /\ s.pc = "check" /\ toS # <<>>
    /\ s' = [s EXCEPT !.pc = IF Checks(check[1], check[2]) THEN "end" ELSE "threw"]
    /\ toS' = Tail(toS)
    /\ UNCHANGED <<gen, delta, r, toR>>

-----------------------------------------------------------------------------

ReceiverStep == ReceiverStart \/ ReceiverBlock \/ ReceiverOpen
SenderStep   == SenderCommit \/ SenderBlock \/ SenderSeed \/ SenderOpened \/ SenderCheck

Next       == ReceiverStep \/ SenderStep
SafetySpec == Init /\ [][Next]_vars
Spec       == SafetySpec /\ WF_vars(ReceiverStep) /\ WF_vars(SenderStep)

-----------------------------------------------------------------------------

Vectors(n) == [0..n-1 -> Block(K) \cup {None}]

TypeOK ==
    /\ r.pc \in {"start", "blocks", "seed", "end"} /\ r.seed \in Seed
    /\ s.pc \in {"start", "blocks", "seed", "open", "check", "end", "threw"}
    /\ r.choice \subseteq Row /\ r.choices \in {0, OTCount, NumOTExt}
    /\ r.blk \in 0..NumBlocks /\ s.blk \in 0..NumBlocks
    /\ r.rows \in Vectors(NumOTExt) /\ s.rows \in Vectors(NumOTExt)
    /\ r.msgs \in Vectors(OTCount)
    /\ \A b \in 1..2 : [i \in OT |-> s.msgs[i][b]] \in Vectors(OTCount)
    /\ r.done \in 0..OTCount /\ s.done \in 0..OTCount

\* Whatever the done indices promise other threads is there, and the receiver's
\* message is the one of the sender's two that its choice bit names.
Correlated ==
    /\ \A i \in 0..r.done-1 : r.msgs[i] # None /\ i < r.choices
    /\ \A i \in 0..s.done-1 : s.msgs[i] # <<None, None>>
    /\ \A i \in 0..r.done-1 : i < s.done =>
            r.msgs[i] = s.msgs[i][IF i \in r.choice THEN 2 ELSE 1]

\* The check of two parties that follow the code succeeds.
NeverThrows == s.pc # "threw"

\* What another thread may have read never changes again.
StaysBelow ==
    /\ r'.done >= r.done /\ s'.done >= s.done
    /\ \A i \in 0..r.done-1 : /\ r'.msgs[i] = r.msgs[i]
                              /\ i \in r'.choice <=> i \in r.choice
    /\ \A i \in 0..s.done-1 : s'.msgs[i] = s.msgs[i]
ReadStable == [][StaysBelow]_vars

\* Both functions return with all OTs done.
Ended == r.pc = "end" /\ s.pc = "end" /\ r.done = OTCount /\ s.done = OTCount
BothEnd == <>Ended

=============================================================================
