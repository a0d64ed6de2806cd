----------------------------- MODULE BitStrings -----------------------------
(***************************************************************************)
(* What a BitVector promises: named strings of bits and the operations on  *)
(* them, with nothing said of bytes, padding or allocation.  Where the     *)
(* class makes no promise (the bits a resize adds, a randomized range) any *)
(* bits may come.                                                          *)
(***************************************************************************)
EXTENDS Arrays

CONSTANTS Names,     \* the vectors
          MaxBits,   \* the longest string
          W,         \* bits in a byte
          WordBytes  \* bytes in a word

VARIABLES len, bit,  \* the length and the bits of each vector
          last       \* the kind of the last operation

vars == <<len, bit, last>>

Strings(n) == Array(n, {0, 1})

Init == len = [x \in Names |-> 0] /\ bit = [x \in Names |-> Constant(0, 0)] /\ last = "exact"

Only(x) == \A z \in Names \ {x} : len'[z] = len[z] /\ bit'[z] = bit[z]

\* reset: zeros.
Cleared(x) == bit'[x] = Constant(len'[x], 0)

\* resize: what was there stays, as far as the new length reaches.
Resized(x) == \A i \in 0..len'[x]-1 : i < len[x] => bit'[x][i] = bit[x][i]

\* append: a piece of another string follows what was there, which keeps its value.
Appended(x, y) == \E at \in 0..MaxBits :
    /\ len'[x] >= len[x] /\ at + (len'[x] - len[x]) <= len[y]
    /\ bit'[x] = Joined(bit[x], len[x], Piece(bit[y], at, len'[x] - len[x]), len'[x] - len[x])

\* copy, and assign for the whole: the string is a piece of the other one.
Copied(x, y) == \E at \in 0..MaxBits :
    at + len'[x] <= len[y] /\ bit'[x] = Piece(bit[y], at, len'[x])

Moved(x, y) == /\ len' = [len EXCEPT ![x] = len[y], ![y] = 0]
               /\ bit' = [bit EXCEPT ![x] = bit[y], ![y] = Constant(0, 0)]

\* ^= and &=: bit by bit.
Combined(x, y) ==
    /\ len'[x] = len[x] /\ len[x] = len[y]
    /\ \/ bit'[x] = [i \in 0..len[x]-1 |-> (bit[x][i] + bit[y][i]) % 2]
       \/ bit'[x] = [i \in 0..len[x]-1 |-> bit[x][i] * bit[y][i]]

\* An assignment to a bit, a byte or a word: a range changes and nothing else.
Written(x) == \E from \in 0..MaxBits, n \in {1, W, W * WordBytes} :
    /\ len'[x] = len[x]
    /\ \A i \in 0..len[x]-1 : i < from \/ i >= from + n => bit'[x][i] = bit[x][i]

\* Sent over a channel, or packed and unpacked: both have the bits they share.
Received(x, y) == /\ len'[x] = len[x]
                  /\ \A i \in 0..len[x]-1 : i < len[y] => bit'[x][i] = bit[y][i]

Next ==
    \/ \E x \in Names :
        /\ Only(x) /\ len'[x] \in 0..MaxBits /\ bit'[x] \in Strings(len'[x])
        /\ \/ last' = "resize" /\ Resized(x)
           \/ last' = "random" /\ len'[x] = len[x]
           \/ last' = "exact" /\ (Cleared(x) \/ Written(x))
           \/ /\ last' = "exact"
              /\ \E y \in Names : \/ Appended(x, y) \/ Copied(x, y) \/ Combined(x, y)
                                  \/ Received(x, y)
    \/ last' = "exact" /\ \E x, y \in Names : Moved(x, y)

Spec == Init /\ [][Next]_vars

=============================================================================
