-------------------------------- MODULE PRNG --------------------------------
(***************************************************************************)
(* PRNG (libBDX/Crypto/PRNG.cpp and .h): AES of a counter under the seed,  *)
(* a block at a time.  The counter is an array of bytes that is counted up *)
(* with carries, SetSeed starts it at one, and the calls differ in whether *)
(* they fetch the next block before they need it or once the old one is    *)
(* used up.  Byte i of the block of a counter is <<seed, counter, i>>.     *)
(***************************************************************************)
EXTENDS Integers, Sequences

CONSTANTS Seeds,
          Base,      \* values of a byte (256)
          Size,      \* SEED_SIZE and RAND_SIZE (16)
          Word,      \* bytes of an unsigned int (4)
          MaxLen     \* bound: bytes asked for in a call
PRNGAssumption == /\ Base \in Nat \ {0, 1} /\ Size \in Nat \ {0} /\ Word \in 1..Size
                  /\ MaxLen \in Nat

VARIABLES seed,
          state,     \* the counter, least significant byte first
          random, cnt,
          got        \* what the last call returned

vars == <<seed, state, random, cnt, got>>

At == 0..Size-1
Least(a, b) == IF a <= b THEN a ELSE b

\* The block of a counter.
hash(sd, st) == [i \in At |-> <<sd, st, i>>]

\* Bytes up to the first that does not wrap are counted up.
CountedFirst(st) == [st EXCEPT ![0] = (@ + 1) % Base]       \* fault: no carry
CountedWide(st) == [i \in At |-> IF \A k \in 0..i-1 : st[k] = Base - 1 THEN st[i] + 1 ELSE st[i]]  \* fault
Counted(st) == [i \in At |-> IF \A k \in 0..i-1 : st[k] = Base - 1 THEN (st[i] + 1) % Base ELSE st[i]]

\* A generator on its own, so that a call can take several blocks.
Gen == [state |-> state, random |-> random, cnt |-> cnt, out |-> <<>>]
next(g) == [g EXCEPT !.state = Counted(@), !.random = hash(seed, Counted(g.state)), !.cnt = 0]
Copied(g, n) == [g EXCEPT !.out = @ \o [i \in 1..n |-> g.random[g.cnt + i - 1]], !.cnt = @ + n]

\* get_u8s: what is left of the block, then the next one.
FetchUsed(g) == IF g.cnt = Size THEN next(g) ELSE g
RECURSIVE Taken(_, _)
Taken(g, len) ==
    IF len = 0 THEN g
    ELSE LET step == Least(len, Size - g.cnt) IN Taken(FetchUsed(Copied(g, step)), len - step)

\* get_uchar and get_uint fetch a block when what they need is not left.
WordLeft(g) == IF g.cnt > Size - Word THEN next(g) ELSE g
ByteLeft(g) == IF g.cnt >= Size THEN next(g) ELSE g
OneByte(g) == Copied(ByteLeft(g), 1)
OneWord(g) == Copied(WordLeft(g), Word)
RECURSIVE TakenSingly(_, _)
TakenSingly(g, len) == IF len = 0 THEN g ELSE TakenSingly(OneByte(g), len - 1)

Start(s) ==
    LET st == Counted([i \in At |-> 0]) IN
    /\ seed' = s /\ state' = st /\ random' = hash(s, st) /\ cnt' = 0 /\ got' = <<>>

Init == /\ seed \in Seeds
        /\ state = Counted([i \in At |-> 0]) /\ random = hash(seed, state) /\ cnt = 0 /\ got = <<>>

Becomes(g) == /\ state' = g.state /\ random' = g.random /\ cnt' = g.cnt /\ got' = g.out
              /\ seed' = seed

SetSeed == \E s \in Seeds : Start(s)
get_u8s(len) == Becomes(Taken(Gen, len))              \* and get_block
get_ByteStream(len) == Becomes(TakenSingly(Gen, len))
get_uchar == Becomes(OneByte(Gen))                    \* and get_bit
get_uint == Becomes(OneWord(Gen))                     \* and get_double
get_u64 == Becomes(OneWord(OneWord(Gen)))

Next == \/ SetSeed \/ get_uchar \/ get_uint \/ get_u64
        \/ \E len \in 0..MaxLen : get_u8s(len) \/ get_ByteStream(len)
Spec == Init /\ [][Next]_vars
-----------------------------------------------------------------------------
TypeOK ==
    /\ seed \in Seeds /\ state \in [At -> 0..Base-1] /\ cnt \in 0..Size
    /\ random = hash(seed, state)

\* The number of blocks counted before this one: the counter starts at one.
RECURSIVE Value(_, _)
Value(st, i) == IF i = Size THEN 0 ELSE st[i] + Base * Value(st, i + 1)
Before(st) == (Value(st, 0) + Base^Size - 1) % Base^Size

Seen(b) == <<b[1], Before(b[2]), b[3]>>
Stream == INSTANCE RandomStream WITH
    Blocks <- Base^Size,
    pos <- (Size * Before(state) + cnt) % (Size * Base^Size),
    got <- [i \in DOMAIN got |-> Seen(got[i])]

\* Whatever calls are made in whatever order, they read the one stream of the seed: no byte
\* is returned twice, none but those before a word is skipped, and two parties that cut
\* their requests differently get the same bytes (carries of the counter included).
ReadsOneStream == Stream!Spec

=============================================================================
