------------------------------- MODULE Tapes -------------------------------
(***************************************************************************)
(* What a ByteStream promises: named tapes that are written at their end   *)
(* and read from a position of their own, with nothing said of the buffer  *)
(* that holds them.                                                        *)
(***************************************************************************)
EXTENDS Arrays

CONSTANTS Names, Values, MaxBytes

VARIABLES len, byte,   \* the length and the bytes of each tape
          read,        \* the position it is read from
          last         \* the kind of the last operation

vars == <<len, byte, read, last>>

Init == /\ len = [x \in Names |-> 0] /\ read = [x \in Names |-> 0]
        /\ byte = [x \in Names |-> Constant(0, 0)] /\ last = "exact"

Only(x) == \A z \in Names \ {x} : len'[z] = len[z] /\ byte'[z] = byte[z] /\ read'[z] = read[z]

\* Writing, or making it longer, adds any bytes to the end: the position does not move.
Written(x) == /\ read'[x] = read[x] /\ len'[x] >= len[x]
              /\ Prefix(byte'[x], len[x]) = byte[x]

\* ... and so does adding another tape, whole.
Added(x, y) == /\ read'[x] = read[x] /\ len'[x] = len[x] + len[y]
               /\ byte'[x] = Joined(byte[x], len[x], byte[y], len[y])

\* Reading and seeking move the position within the tape and nothing else.
Moved(x) == len' = len /\ byte' = byte /\ read'[x] \in 0..len[x]

\* Cutting the tape keeps its beginning and a position that is still on it.
Cut(x) == /\ len'[x] <= len[x] /\ byte'[x] = Prefix(byte[x], len'[x])
          /\ read'[x] = IF read[x] <= len'[x] THEN read[x] ELSE len'[x]

Duplicated(x, y) == len'[x] = len[y] /\ byte'[x] = byte[y] /\ read'[x] = read[y]

\* Sent over a channel: the other side has what was not read yet, from the start.
Received(x, y) == /\ len'[x] = len[y] - read[y] /\ read'[x] = 0
                  /\ byte'[x] = Piece(byte[y], read[y], len[y] - read[y])

\* Part of one tape read onto another, which is then the part alone.
Extracted(x, y) == /\ read[y] + len'[x] <= len[y]
                   /\ byte'[x] = Piece(byte[y], read[y], len'[x])
                   /\ read' = [read EXCEPT ![y] = @ + len'[x]]
                   /\ \A z \in Names \ {x} : len'[z] = len[z] /\ byte'[z] = byte[z]

Fresh(x) == read'[x] = 0

OnTape == \A x \in Names : /\ len'[x] \in 0..MaxBytes /\ byte'[x] \in Array(len'[x], Values)
                           /\ read'[x] \in 0..len'[x]

Next ==
    /\ OnTape
    /\ \/ \E x \in Names :
            /\ Only(x)
            /\ \/ last' = "exact" /\ (Moved(x) \/ Cut(x))
               \/ last' = "write" /\ Written(x)
               \/ last' = "fresh" /\ Fresh(x)
               \/ last' = "digest" /\ read'[x] = read[x]
               \/ /\ last' = "exact"
                  /\ \E y \in Names : Added(x, y) \/ Duplicated(x, y) \/ Received(x, y)
       \/ last' = "exact" /\ \E x, y \in Names : Extracted(x, y)

Spec == Init /\ [][Next]_vars

=============================================================================
