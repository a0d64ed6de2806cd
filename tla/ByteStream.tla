----------------------------- MODULE ByteStream -----------------------------
(***************************************************************************)
(* ByteStream (libBDX/Common/ByteStream.h and .cpp): a buffer of mxlen     *)
(* bytes with a write head and a read head, the unit of what is packed,    *)
(* hashed and sent.  Growing allocates twice what is needed and leaves the *)
(* new bytes uninitialised; they are the value Any here.                   *)
(***************************************************************************)
EXTENDS Arrays

CONSTANTS Names,
          Base,       \* values of a byte (256 in the code)
          LenBytes,   \* bytes of an encoded length (4)
          HashSize,   \* bytes of a digest (20)
          MaxBytes,   \* bound: bytes a stream holds
          Rewound     \* consume and hash are given streams read no further than they will be long

StreamAssumption == /\ Base \in Nat \ {0, 1} /\ LenBytes \in Nat \ {0}
                    /\ HashSize \in Nat /\ MaxBytes \in Nat /\ Rewound \in BOOLEAN

VARIABLES strm,   \* strm[x]: the buffer and the two heads
          last    \* the kind of the last operation: what it leaves open

vars == <<strm, last>>

Any    == -1
Byte   == 0..Base-1
Values == Byte \cup {Any}
Bytes(n) == Array(n, Byte)

New(n) == [mxlen |-> n, mWriteHead |-> 0, mReadHead |-> 0, mData |-> Constant(n, Any)]

ReservedHalf(s, l) ==                                 \* fault: allocates before it doubles
    IF l < s.mxlen THEN s
    ELSE [s EXCEPT !.mxlen = 2 * l, !.mData = Overwritten(Constant(l, Any), 0, @, s.mWriteHead)]
\* reserve: at least l bytes; it grows already when l is reached, and then twice.
Reserved(s, l) ==
    IF l < s.mxlen THEN s
    ELSE [s EXCEPT !.mxlen = 2 * l,
                   !.mData = Overwritten(Constant(2 * l, Any), 0, @, s.mWriteHead)]

Appended(s, x, l) ==
    LET r == Reserved(s, s.mWriteHead + l)
    IN  [r EXCEPT !.mData = Overwritten(@, s.mWriteHead, x, l), !.mWriteHead = @ + l]

AssignedUnread(s, os) ==                              \* fault: the read head stays
    LET r == IF os.mWriteHead >= s.mxlen THEN New(os.mxlen) ELSE s
    IN  [r EXCEPT !.mWriteHead = os.mWriteHead, !.mReadHead = 0,
                  !.mData = Overwritten(@, 0, os.mData, os.mWriteHead)]
Assigned(s, os) ==
    LET r == IF os.mWriteHead >= s.mxlen THEN New(os.mxlen) ELSE s
    IN  [r EXCEPT !.mWriteHead = os.mWriteHead, !.mReadHead = os.mReadHead,
                  !.mData = Overwritten(@, 0, os.mData, os.mWriteHead)]

WriteAtOnly(s, loc) == [s EXCEPT !.mWriteHead = loc]   \* fault: the read head stays
WriteAt(s, loc) == [s EXCEPT !.mWriteHead = loc, !.mReadHead = IF @ <= loc THEN @ ELSE loc]

\* The length, least significant byte first, then the bytes.
encodeHighFirst(l) ==                                 \* fault: most significant first
    [i \in 0..LenBytes-1 |-> (l \div Base^(LenBytes - 1 - i)) % Base]
encode(l) == [i \in 0..LenBytes-1 |-> (l \div Base^i) % Base]
decodeFrom[d \in [0..LenBytes-1 -> Values], i \in 0..LenBytes] ==
    IF i = LenBytes THEN 0 ELSE d[i] * Base^i + decodeFrom[d, i + 1]
decode(d) == decodeFrom[d, 0]

Stored(s, x, l) ==
    LET r == Reserved(s, s.mWriteHead + LenBytes + l)
        d == Overwritten(r.mData, s.mWriteHead, encode(l), LenBytes)
    IN  [r EXCEPT !.mData = Overwritten(d, s.mWriteHead + LenBytes, x, l), !.mWriteHead = @ + LenBytes + l]

GotLength(s) == decode(Piece(s.mData, s.mReadHead, LenBytes))
Got(s)  == Piece(s.mData, s.mReadHead + LenBytes, GotLength(s))
Past(s) == [s EXCEPT !.mReadHead = @ + LenBytes + GotLength(s)]

\* The three functions a channel uses: what is sent is what was not read yet, and the
\* receiver's buffer is made to fit and read from its start.
ChannelBufferSize(s) == s.mWriteHead - s.mReadHead
ChannelBufferResized(s, l) ==
    [IF l > s.mxlen THEN New(2 * l) ELSE s EXCEPT !.mWriteHead = l, !.mReadHead = 0]
-----------------------------------------------------------------------------
Init == strm = [x \in Names |-> New(0)] /\ last = "exact"

Become(x, s, kind) == strm' = [strm EXCEPT ![x] = s] /\ last' = kind

Fits(l) == l <= MaxBytes

Construct(x) == \E n \in 0..MaxBytes : Become(x, New(n), "fresh")

FromBytes(x) == \E l \in 0..MaxBytes : \E d \in Bytes(l) : Become(x, Appended(New(0), d, l), "fresh")

CopyConstruct(x, y) == x # y /\ Become(x, Assigned(New(0), strm[y]), "exact")

Reserve(x) == \E l \in 0..MaxBytes : Become(x, Reserved(strm[x], l), "exact")

Assign(x, y) == x # y /\ Become(x, Assigned(strm[x], strm[y]), "exact")

Append(x) == \E l \in 0..MaxBytes : \E d \in Bytes(l) :
    Fits(strm[x].mWriteHead + l) /\ Become(x, Appended(strm[x], d, l), "write")

\* concat reads the other stream's buffer after it has made room: x = y is allowed.
Concat(x, y) ==
    /\ Fits(strm[x].mWriteHead + strm[y].mWriteHead)
    /\ Become(x, Appended(strm[x], strm[y].mData, strm[y].mWriteHead), "exact")

StoreBytes(x) == \E l \in 0..MaxBytes : \E d \in Bytes(l) :
    Fits(strm[x].mWriteHead + LenBytes + l) /\ Become(x, Stored(strm[x], d, l), "write")

\* get_bytes does not look at the write head: it is called where store_bytes wrote.
GetBytes(x) ==
    /\ strm[x].mReadHead + LenBytes <= strm[x].mWriteHead
    /\ \A i \in 0..LenBytes-1 : strm[x].mData[strm[x].mReadHead + i] # Any
    /\ Past(strm[x]).mReadHead <= strm[x].mWriteHead
    /\ Become(x, Past(strm[x]), "exact")

\* setp and setg throw past the end of the buffer and of what is written.
SetP(x) == \E loc \in 0..MaxBytes :
    /\ loc <= strm[x].mxlen
    /\ Become(x, WriteAt(strm[x], loc), IF loc > strm[x].mWriteHead THEN "write" ELSE "exact")

SetG(x) == \E loc \in 0..strm[x].mWriteHead : Become(x, [strm[x] EXCEPT !.mReadHead = loc], "exact")

Resize(x) == \E size \in 0..MaxBytes :
    Become(x, WriteAt(Reserved(strm[x], size), size),
           IF size > strm[x].mWriteHead THEN "write" ELSE "exact")

Consume(x) == \E l \in 0..ChannelBufferSize(strm[x]) :
    Become(x, [strm[x] EXCEPT !.mReadHead = @ + l], "exact")

\* consume into a stream, whose read head stays where it was; if the source holds too
\* little it throws when room has been made.
ConsumeInto(x, y) == x # y /\ \E l \in 0..MaxBytes :
    LET t == Reserved(strm[y], l) IN
    IF strm[x].mReadHead + l > strm[x].mWriteHead
    THEN Become(y, t, "exact")
    ELSE /\ Rewound => strm[y].mReadHead = 0
         /\ strm' = [strm EXCEPT ![x].mReadHead = @ + l,
                        ![y] = [t EXCEPT !.mData = Overwritten(@, 0, Piece(strm[x].mData, strm[x].mReadHead, l), l),
                                         !.mWriteHead = l]]
         /\ last' = "exact"

\* hash writes the digest over the beginning of the output.
Hash(x) == \E d \in Bytes(HashSize) :
    LET t == Reserved(strm[x], HashSize) IN
    /\ Fits(HashSize)
    /\ Rewound => strm[x].mReadHead <= HashSize
    /\ Become(x, [t EXCEPT !.mData = Overwritten(@, 0, d, HashSize), !.mWriteHead = HashSize], "digest")

Receive(x, y) == LET l == ChannelBufferSize(strm[y]) IN
    /\ x # y
    /\ Become(x, [ChannelBufferResized(strm[x], l) EXCEPT
                    !.mData = Overwritten(@, 0, Piece(strm[y].mData, strm[y].mReadHead, l), l)], "exact")

Next ==
    \/ \E x \in Names : \/ Construct(x) \/ FromBytes(x) \/ Reserve(x) \/ Append(x) \/ StoreBytes(x)
                        \/ GetBytes(x) \/ SetP(x) \/ SetG(x) \/ Resize(x) \/ Consume(x) \/ Hash(x)
    \/ \E x, y \in Names : \/ CopyConstruct(x, y) \/ Assign(x, y) \/ Concat(x, y)
                           \/ ConsumeInto(x, y) \/ Receive(x, y)

Spec == Init /\ [][Next]_vars
-----------------------------------------------------------------------------
Streams == UNION {[mxlen : {n}, mWriteHead : 0..MaxBytes, mReadHead : 0..MaxBytes,
                   mData : Array(n, Values)] : n \in 0..2*MaxBytes}
TypeOK == /\ \A x \in Names : strm[x] \in Streams
          /\ last \in {"exact", "write", "fresh", "digest"}

\* The read head never passes the write head, nor that one the end of the buffer (the
\* comment at ByteStream.h:80 asks to reset the one with the other): otherwise the
\* number of bytes to send, their difference, wraps around.
HeadsInOrder == \A x \in Names :
    strm[x].mReadHead <= strm[x].mWriteHead /\ strm[x].mWriteHead <= strm[x].mxlen

Tape == INSTANCE Tapes WITH len  <- [x \in Names |-> strm[x].mWriteHead],
                            byte <- [x \in Names |-> Prefix(strm[x].mData, strm[x].mWriteHead)],
                            read <- [x \in Names |-> strm[x].mReadHead]

\* Through every reallocation the buffer and its heads are a tape.
IsTape == Tape!Spec

\* What store_bytes wrote is what get_bytes finds there.
StoredIsGot == \A x \in Names, l \in 0..MaxBytes : \A d \in Bytes(l) :
    l < Base^LenBytes =>
        LET s == [Stored(strm[x], d, l) EXCEPT !.mReadHead = strm[x].mWriteHead]
        IN  Got(s) = d /\ Past(s).mReadHead = s.mWriteHead

=============================================================================
