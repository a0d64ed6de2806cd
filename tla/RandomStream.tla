---------------------------- MODULE RandomStream ----------------------------
(***************************************************************************)
(* What a PRNG promises: for each seed one fixed stream of bytes, in       *)
(* blocks, read from the start without ever going back.  How a request is  *)
(* cut into calls does not change what it returns; only a word is never    *)
(* split over two blocks.                                                  *)
(***************************************************************************)
EXTENDS Integers, Sequences

CONSTANTS Seeds,
          Size, Word,   \* bytes in a block and in a word
          Blocks,       \* the blocks of a stream
          MaxLen        \* bound: bytes taken at once

VARIABLES seed, pos, got              \* got: what the last call returned

vars == <<seed, pos, got>>

Period  == Size * Blocks
Byte(i) == <<seed, ((i % Period) \div Size), i % Size>>
Bytes(from, n) == [i \in 1..n |-> Byte(from + i - 1)]

Init == seed \in Seeds /\ pos = 0 /\ got = <<>>

SetSeed == seed' \in Seeds /\ pos' = 0 /\ got' = <<>>

Take(n) == got' = Bytes(pos, n) /\ pos' = (pos + n) % Period /\ seed' = seed

\* The words start at the next place where a word fits.
Place(p)  == IF p % Size > Size - Word /\ p % Size # 0 THEN ((p \div Size) + 1) * Size ELSE p
TakeWord  == got' = Bytes(Place(pos), Word) /\ pos' = (Place(pos) + Word) % Period /\ seed' = seed
TakeTwo   == LET p == Place(pos)  q == Place(p + Word) IN
             got' = Bytes(p, Word) \o Bytes(q, Word) /\ pos' = (q + Word) % Period /\ seed' = seed

Next == SetSeed \/ TakeWord \/ TakeTwo \/ \E n \in 0..MaxLen : Take(n)
Spec == Init /\ [][Next]_vars

=============================================================================
