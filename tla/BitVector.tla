----------------------------- MODULE BitVector -----------------------------
(***************************************************************************)
(* BitVector (libBDX/Common/BitVector.cpp): a growing vector of bits in an *)
(* allocation that only grows, W bits to the byte (8 in the code).  The    *)
(* bits of the last byte beyond the length, and the bytes beyond those,    *)
(* are padding that resizing, copying and sending carry along.             *)
(***************************************************************************)
EXTENDS Arrays

CONSTANTS Names, MaxBits,
          W,         \* bits in a byte
          WordBytes  \* bytes in the word set_u64 writes

WAssumption == W \in Nat \ {0} /\ WordBytes \in Nat \ {0}

VARIABLES vec,     \* vec[x]: mAllocBytes, mNumBits and mData, bit by bit
          last     \* the kind of the last operation: what it leaves open

vars == <<vec, last>>

Vectors == UNION {[mAllocBytes : {a}, mNumBits : 0..a*W, mData : Array(a * W, {0, 1})]
                    : a \in 0..((MaxBits + W - 1) \div W)}

DIV_CEIL(n) == (n + W - 1) \div W
sizeBytes(v) == DIV_CEIL(v.mNumBits)
BitsOf(v)   == Prefix(v.mData, v.mNumBits)
EmptyVector == [mAllocBytes |-> 0, mNumBits |-> 0, mData |-> Constant(0, 0)]

\* new u8[n](): zeros, with the bytes in use copied over.
Reallocated(v, bytes) ==
    [v EXCEPT !.mAllocBytes = bytes,
              !.mData = Overwritten(Constant(bytes * W, 0), 0, v.mData, sizeBytes(v) * W)]

ResizedFloor(v, n) ==                                 \* fault: rounds down
    [IF v.mAllocBytes < n \div W THEN Reallocated(v, n \div W) ELSE v EXCEPT !.mNumBits = n]
Resized(v, n) ==
    [IF v.mAllocBytes < DIV_CEIL(n) THEN Reallocated(v, DIV_CEIL(n)) ELSE v EXCEPT !.mNumBits = n]

Reserved(v, n) == [Resized(v, n) EXCEPT !.mNumBits = v.mNumBits]

Zeroed(v, n) ==
    IF DIV_CEIL(n) > v.mAllocBytes
    THEN [mAllocBytes |-> DIV_CEIL(n), mNumBits |-> n, mData |-> Constant(DIV_CEIL(n) * W, 0)]
    ELSE [v EXCEPT !.mNumBits = n,
                   !.mData = Overwritten(@, 0, Constant(DIV_CEIL(n) * W, 0), DIV_CEIL(n) * W)]

\* append: bit by bit if either side starts inside a byte, else whole bytes, the
\* padding of the last one included.
AppendedBytes(v, data, length, offset) ==             \* fault: always whole bytes
    LET w == Resized(v, v.mNumBits + length) IN
    [w EXCEPT !.mData = Overwritten(@, (v.mNumBits \div W) * W,
                Piece(data, (offset \div W) * W, DIV_CEIL(length) * W), DIV_CEIL(length) * W)]
Appended(v, data, length, offset) ==
    LET w == Resized(v, v.mNumBits + length)
        aligned == offset % W = 0 /\ v.mNumBits % W = 0
        n == IF aligned THEN DIV_CEIL(length) * W ELSE length
    IN  [w EXCEPT !.mData = Overwritten(@, v.mNumBits, Piece(data, offset, n), n)]

Copied(v, data, length, idx) == Appended(Resized(v, 0), data, length, idx)

\* assign: reset to the length, then the bytes.
Assigned(v, n, data) ==
    [Zeroed(v, n) EXCEPT !.mData = Overwritten(@, 0, data, DIV_CEIL(n) * W)]

\* Bytes from position "at" on replaced.
WithBytes(v, at, data, n) == [v EXCEPT !.mData = Overwritten(@, at * W, data, n * W)]

Pointwise(v, k, op(_, _)) ==
    [v EXCEPT !.mData = [i \in DOMAIN @ |-> IF i < sizeBytes(v) * W THEN op(@[i], k.mData[i]) ELSE @[i]]]

\* equals: whole bytes up to the last, which is masked with 0xFF >> (8 - rem).
equalsPadded(v, k) ==                                 \* fault: the last byte unmasked
    \A i \in 0..sizeBytes(v)*W-1 : v.mData[i] = k.mData[i]
equals(v, k) ==
    LET rem == v.mNumBits % W
    IN  \A i \in 0..(sizeBytes(v)-1)*W+rem-1 : v.mData[i] = k.mData[i]

\* parity: the whole bytes, then the bits of the last one.
parityBytes(v) == Cardinality({i \in 0..sizeBytes(v)*W-1 : v.mData[i] = 1}) % 2   \* fault
parity(v) ==
    LET lastByte == v.mNumBits \div W
        whole == Cardinality({i \in 0..lastByte*W-1 : v.mData[i] = 1})
        rest  == Cardinality({i \in 0..(v.mNumBits-lastByte*W)-1 : v.mData[lastByte*W + i] = 1})
    IN  (whole + rest) % 2
-----------------------------------------------------------------------------
Init == vec = [x \in Names |-> EmptyVector] /\ last = "exact"

Set(x, v, kind) == vec' = [vec EXCEPT ![x] = v] /\ last' = kind
Become(x, v)    == Set(x, v, "exact")

Reset(x)   == \E n \in 0..MaxBits : Become(x, Zeroed(vec[x], n))
Resize(x)  == \E n \in 0..MaxBits : Set(x, Resized(vec[x], n), "resize")
Reserve(x) == \E n \in 0..MaxBits : Become(x, Reserved(vec[x], n))

\* The argument's data pointer is taken before the resize, so it is another vector.
Append(x, y) == x # y /\ \E offset, length \in 0..MaxBits :
    /\ offset + length <= vec[y].mNumBits
    /\ vec[x].mNumBits + length <= MaxBits
    /\ vec[y].mAllocBytes > 0                          \* assert(data)
    /\ Become(x, Appended(vec[x], vec[y].mData, length, offset))

Copy(x, y) == x # y /\ \E idx, length \in 0..MaxBits :
    /\ idx + length <= vec[y].mNumBits
    /\ vec[y].mAllocBytes > 0
    /\ Become(x, Copied(vec[x], vec[y].mData, length, idx))

\* operator=, which leaves an assignment to itself alone, and the copy constructor.
Assign(x, y) == x # y /\ Become(x, Assigned(vec[x], vec[y].mNumBits, vec[y].mData))

\* output and input, not for humans: the length, then the bytes that are in use.
output(v) == [len |-> v.mNumBits, bytes |-> Prefix(v.mData, sizeBytes(v) * W)]
input(v, file) == [Zeroed(v, file.len) EXCEPT
    !.mData = Overwritten(@, 0, file.bytes, DIV_CEIL(file.len) * W)]
Load(x, y) == Become(x, input(vec[x], output(vec[y])))

\* The move constructor: the new vector takes the allocation.
Move(x, y) == x # y /\ vec' = [vec EXCEPT ![x] = vec[y], ![y] = EmptyVector] /\ last' = "exact"

SetBit(x) == \E i \in 0..vec[x].mNumBits-1, b \in {0, 1} :
    Become(x, [vec[x] EXCEPT !.mData[i] = b])

\* One reference to a bit assigned to another.
CopyBit(x, y) == \E i \in 0..vec[x].mNumBits-1, j \in 0..vec[y].mNumBits-1 :
    Become(x, [vec[x] EXCEPT !.mData[i] = vec[y].mData[j]])

SetByte(x) == \E i \in 0..sizeBytes(vec[x])-1, b \in Array(W, {0, 1}) :
    Become(x, WithBytes(vec[x], i, b, 1))

SetWord(x) == \E i \in 0..MaxBits, w \in Array(W * WordBytes, {0, 1}) :
    /\ (i + 1) * W * WordBytes <= vec[x].mNumBits
    /\ Become(x, WithBytes(vec[x], i * WordBytes, w, WordBytes))

\* randomize fills every byte, the padding of the last one too.
Randomize(x) == \E b \in Array(sizeBytes(vec[x]) * W, {0, 1}) :
    Set(x, WithBytes(vec[x], 0, b, sizeBytes(vec[x])), "random")

RandomizeAt(x) == \E a \in 0..MaxBits, nb \in 1..MaxBits :
    /\ a + nb <= sizeBytes(vec[x])
    /\ \E b \in Array(nb * W, {0, 1}) : Set(x, WithBytes(vec[x], a, b, nb), "random")

XorWith(x, y) == /\ vec[x].mNumBits = vec[y].mNumBits
                 /\ Become(x, Pointwise(vec[x], vec[y], LAMBDA a, b : (a + b) % 2))
AndWith(x, y) == /\ vec[x].mNumBits = vec[y].mNumBits
                 /\ Become(x, Pointwise(vec[x], vec[y], LAMBDA a, b : a * b))

\* x receives y: through a ByteStream (pack, unpack) or as the buffer of a channel,
\* where ChannelBufferResize throws unless the numbers of bytes agree.
Receive(x, y) == /\ sizeBytes(vec[x]) = sizeBytes(vec[y])
                 /\ Become(x, WithBytes(vec[x], 0, vec[y].mData, sizeBytes(vec[y])))

Next ==
    \/ \E x \in Names : \/ Reset(x) \/ Resize(x) \/ Reserve(x) \/ SetBit(x) \/ SetByte(x)
                        \/ SetWord(x) \/ Randomize(x) \/ RandomizeAt(x)
    \/ \E x, y \in Names : \/ Append(x, y) \/ Copy(x, y) \/ Assign(x, y) \/ Load(x, y) \/ Move(x, y)
                           \/ CopyBit(x, y) \/ XorWith(x, y) \/ AndWith(x, y) \/ Receive(x, y)

Spec == Init /\ [][Next]_vars
-----------------------------------------------------------------------------
\* Every vector's bits lie inside its allocation.
TypeOK == (\A x \in Names : vec[x] \in Vectors) /\ last \in {"exact", "resize", "random"}

Promise == INSTANCE BitStrings WITH len <- [x \in Names |-> vec[x].mNumBits],
                                    bit <- [x \in Names |-> BitsOf(vec[x])]

\* Byte by byte, with stale padding all around, the class does what it promises.
IsBitStrings == Promise!Spec

\* Vectors with the same bits compare equal, whatever their padding is, and others do not
\* ("compare these", BitVector.cpp:366).  With whole bytes only, the mask is empty: two
\* vectors that differ in the last one compare equal too.
EqualsSame == \A x, y \in Names : vec[x].mNumBits = vec[y].mNumBits /\ vec[x].mNumBits > 0 =>
    /\ BitsOf(vec[x]) = BitsOf(vec[y]) => equals(vec[x], vec[y])
    /\ vec[x].mNumBits % W # 0 /\ equals(vec[x], vec[y]) => BitsOf(vec[x]) = BitsOf(vec[y])

\* parity counts the bits of the vector and no others.
ParityOfBits == \A x \in Names :
    parity(vec[x]) = Cardinality({i \in DOMAIN BitsOf(vec[x]) : BitsOf(vec[x])[i] = 1}) % 2

=============================================================================
