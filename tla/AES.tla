--------------------------------- MODULE AES ---------------------------------
(***************************************************************************)
(* AES128 (libBDX/Crypto/AES.h): the key schedules, encrypting one block   *)
(* or many, Unroll of them side by side a round at a time, and decrypting  *)
(* with the inverse rounds under the transformed keys.                     *)
(*                                                                         *)
(* The processor's instructions are a small cipher of the same structure:  *)
(* a block is four lanes of three bits, a round substitutes every lane,    *)
(* rotates the lanes, mixes them linearly and adds the round key; the last *)
(* round does not mix.  aesdec undoes these steps in the order the         *)
(* instruction has, which is right only for keys that are unmixed.         *)
(***************************************************************************)
EXTENDS Integers, Sequences

CONSTANTS SBox,          \* a permutation of the values of a lane
          Keys, Blocks,  \* the keys and blocks that are tried
          Unroll,        \* blocks side by side (8)
          Sizes, Gaps    \* numbers of blocks; how far dest is from src
Value == DOMAIN SBox
AESAssumption ==
    /\ Value = 0..7 /\ \A v \in Value : \E w \in Value : SBox[w] = v
    /\ Unroll \in Nat \ {0} /\ Sizes \subseteq Nat /\ Gaps \subseteq Nat

VARIABLES userKey, key, decKey,   \* the two schedules
          plain, size, gap,
          mem,                    \* src starts at 0, dest at gap
          pc

vars == <<userKey, key, decKey, plain, size, gap, mem, pc>>

Rounds == 0..10
Bit(v, b) == (v \div 2^b) % 2
PlusTable == [v, w \in Value |-> LET s(b) == ((Bit(v, b) + Bit(w, b)) % 2) * 2^b IN s(0) + s(1) + s(2)]
Plus(v, w) == PlusTable[v, w]
xor(x, y) == <<Plus(x[1], y[1]), Plus(x[2], y[2]), Plus(x[3], y[3]), Plus(x[4], y[4])>>

\* The instructions.
InvSBox == [v \in Value |-> CHOOSE w \in Value : SBox[w] = v]
Sub(x, box) == <<box[x[1]], box[x[2]], box[x[3]], box[x[4]]>>
Rot(x) == <<x[2], x[3], x[4], x[1]>>
InvRot(x) == <<x[4], x[1], x[2], x[3]>>
Mix(x) == xor(x, xor(Rot(x), Rot(Rot(x))))
aesimc(x) == xor(x, xor(InvRot(x), Rot(Rot(x))))
aesenc(x, k)     == xor(Mix(Rot(Sub(x, SBox))), k)
aesenclast(x, k) == xor(Rot(Sub(x, SBox)), k)
aesdec(x, k)     == xor(aesimc(Sub(InvRot(x), InvSBox)), k)
aesdeclast(x, k) == xor(Sub(InvRot(x), InvSBox), k)
assist(x, rcon)  == <<0, 0, 0, Plus(SBox[x[4]], rcon)>>

Rcon(r) == (2^(r-1)) % 8                                   \* of round r: 1, 2, 4, ...
Shifted(x) == <<0, x[1], x[2], x[3]>>                       \* slli_si128 by a lane
RECURSIVE Summed(_, _)
Summed(x, n) == IF n = 0 THEN x ELSE Summed(xor(x, Shifted(x)), n - 1)
Expansion(k, keyRcon) == xor(Summed(k, 3), <<keyRcon[4], keyRcon[4], keyRcon[4], keyRcon[4]>>)

RECURSIVE RoundKey(_, _)
RoundKey(k, r) == IF r = 0 THEN k
                  ELSE LET v == RoundKey(k, r - 1) IN Expansion(v, assist(v, Rcon(r)))
EncKeys(k) == [r \in Rounds |-> RoundKey(k, r)]

DecKeysMixed(k) == [r \in Rounds |-> RoundKey(k, 10 - r)]  \* fault: none is transformed
DecKeys(k) == [r \in Rounds |-> IF r \in {0, 10} THEN RoundKey(k, 10 - r)
                                                 ELSE aesimc(RoundKey(k, 10 - r))]

\* Round r of a block: round 0 only adds the key.
Round(x, r, ks) == CASE r = 0 -> xor(x, ks[0])
                     [] r = 10 -> aesenclast(x, ks[10])
                     [] OTHER -> aesenc(x, ks[r])
RECURSIVE EncRounds(_, _, _), DecRounds(_, _, _)
EncRounds(x, r, ks) == IF r = 11 THEN x ELSE EncRounds(Round(x, r, ks), r + 1, ks)
EcbEncBlock(x, ks) == EncRounds(x, 0, ks)
DecRounds(x, r, ks) ==
    IF r = 11 THEN x
    ELSE DecRounds(CASE r = 0 -> xor(x, ks[0]) [] r = 10 -> aesdeclast(x, ks[10])
                     [] OTHER -> aesdec(x, ks[r]), r + 1, ks)
EcbDecBlock(x, ks) == DecRounds(x, 0, ks)

\* n blocks from i on, side by side: round 0 reads src, every other reads dest.
From(r) == IF r = 0 THEN 0 ELSE gap
RECURSIVE Batch(_, _, _, _, _)
Batch(mm, i, n, r, k) ==
    IF r = 11 THEN mm
    ELSE IF k = n THEN Batch(mm, i, n, r + 1, 0)
    ELSE Batch([mm EXCEPT ![gap + i + k] = Round(mm[From(r) + i + k], r, key)], i, n, r, k + 1)

MainLoopUp(sz) == (sz + Unroll - 1) \div Unroll            \* fault: the remainder is a batch too
MainLoop(sz) == sz \div Unroll
RECURSIVE Batches(_, _), Remainder(_, _)
Batches(mm, jj) == IF jj = MainLoop(size) THEN mm
                   ELSE Batches(Batch(mm, jj * Unroll, Unroll, 0, 0), jj + 1)
Remainder(mm, i) == IF i >= size THEN mm ELSE Remainder(Batch(mm, i, 1, 0, 0), i + 1)

Spare == <<0, 0, 0, 0>>
Init == /\ userKey \in Keys /\ plain \in [0..3 -> Blocks] /\ size \in Sizes /\ gap \in Gaps
        /\ key = [r \in Rounds |-> Spare] /\ decKey = [r \in Rounds |-> Spare]
        /\ mem = [a \in 0..15 |-> IF a < size THEN plain[a % 4] ELSE Spare]
        /\ pc = "keys"

KeyGen == /\ pc = "keys"
          /\ key' = EncKeys(userKey) /\ decKey' = DecKeys(userKey)
          /\ pc' = "encrypt" /\ UNCHANGED <<userKey, plain, size, gap, mem>>

EcbEncBlocks == /\ pc = "encrypt"
                /\ mem' = Remainder(Batches(mem, 0), MainLoop(size) * Unroll)
                /\ pc' = "decrypt" /\ UNCHANGED <<userKey, key, decKey, plain, size, gap>>
\* EcbEncTwoBlocks and EcbEncFourBlocks: one batch.
EcbEncFew == /\ pc = "encrypt" /\ size \in {2, 4}
             /\ mem' = Batch(mem, 0, size, 0, 0)
             /\ pc' = "decrypt" /\ UNCHANGED <<userKey, key, decKey, plain, size, gap>>

Decrypt == /\ pc = "decrypt"
           /\ mem' = [a \in 0..15 |-> IF a \in gap..gap+size-1 THEN EcbDecBlock(mem[a], decKey) ELSE mem[a]]
           /\ pc' = "done" /\ UNCHANGED <<userKey, key, decKey, plain, size, gap>>

Next == KeyGen \/ EcbEncBlocks \/ EcbEncFew \/ Decrypt
Spec == Init /\ [][Next]_vars
-----------------------------------------------------------------------------
\* Several blocks at a time, in place or to another array, give what one at a time gives,
\* and nothing is written behind the last of them.
OneByOne == pc = "decrypt" =>
    /\ \A i \in 0..size-1 : mem[gap + i] = EcbEncBlock(plain[i % 4], key)
    /\ \A a \in gap+size..15 : mem[a] = (IF a < size THEN plain[a % 4] ELSE Spare)

\* The inverse rounds under the decryption schedule undo the rounds under the other.
Decrypts == pc = "done" => \A i \in 0..size-1 : mem[gap + i] = plain[i % 4]

=============================================================================
