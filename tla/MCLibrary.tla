------------------------------ MODULE MCLibrary ------------------------------
(*****************************************************************************)
(* The libraries below the protocol on small instances: oblivious transfer   *)
(* and its arithmetic, AES, the generators, and the containers. Each         *)
(* behaviour is of one of the systems, which do not share state: system      *)
(* says of which. The variables of the others stay as they are.              *)
(*****************************************************************************)
EXTENDS Integers, Sequences, FiniteSets, TLC

CONSTANTS x, y   \* two containers, which no operation tells apart
Containers == {x, y}
Alike      == Permutations(Containers)

\* Streams of the generators: the bits of a mixed number.
Bits(n)     == {i \in {0, 1} : (n \div 2^i) % 2 = 1}
Stream(a)   == [i \in {0, 1} |-> [b \in {0, 1} |-> [n \in 0..2 |-> Bits((i + 1) * (b + a) * (n + 2) + a)]]]
SomeStreams == {Stream(5), Stream(7)}
SomeChi     == [seed \in SUBSET {0} |-> [n \in 0..5 |->
                   Bits((n + 1) * (3 + Cardinality(seed)) + Cardinality(seed))]]

\* AES with lanes of three bits and a substitution that is not linear.
Box == [v \in 0..7 |-> CASE v = 0 -> 6 [] v = 1 -> 0 [] v = 2 -> 5 [] v = 3 -> 1
                         [] v = 4 -> 3 [] v = 5 -> 7 [] v = 6 -> 2 [] v = 7 -> 4]
Line(a, b) == <<b, (a + b) % 8, (2*a + b) % 8, (3*a + b) % 8>>
SomeKeys == {Line(a, b) : a \in {0, 3, 5}, b \in {1, 6}}
SomeBlocks == {Line(a, 0) : a \in {1, 4}}

VARIABLE system   \* the system this behaviour is of; it never changes

\* The operators of OTExtension: a square of four by four bits, to transpose.  Its first two
\* rows are also the operands of mul128, which multiplies blocks of two halves, and of gfmul128.
VARIABLE input
trVars == <<input>>
\* OTExtension
VARIABLES gen, delta, ot_r, ot_s, toR, toS
otVars == <<gen, delta, ot_r, ot_s, toR, toS>>
\* BaseOT
VARIABLES basePc, precision2, chan, baseStrm, sk, choice, inputs, outputs, idx, run, misused
baseVars == <<basePc, precision2, chan, baseStrm, sk, choice, inputs, outputs, idx, run, misused>>
\* AES
VARIABLES userKey, key, decKey, plain, size, gap, mem, aesPc
aesVars == <<userKey, key, decKey, plain, size, gap, mem, aesPc>>
\* Modp
VARIABLES ZpD, modp_x, given
modpVars == <<ZpD, modp_x, given>>
\* BitVector
VARIABLES vec, bvLast
bvVars == <<vec, bvLast>>
\* ByteStream
VARIABLES bsStrm, bsLast
bsVars == <<bsStrm, bsLast>>
\* ArrayView
VARIABLES view, lent, made, deleted
viewVars == <<view, lent, made, deleted>>
\* PRNG
VARIABLES seed, state, random, cnt, got
prngVars == <<seed, state, random, cnt, got>>

\* Three OTs with blocks of two bits: a full block, a padded one and that of the check.
Extension == INSTANCE OTExtension WITH
    K <- 2, OTCount <- 3, SeedBits <- 1, Gens <- SomeStreams, Chi <- SomeChi, r <- ot_r,
    s <- ot_s
\* Two transfers over a group of three.
Transfers == INSTANCE BaseOT WITH
    Q <- 3, crsG <- (0 :> 1) @@ (1 :> 1), crsH <- (0 :> 1) @@ (1 :> 2), nOT <- 2,
    RoleOf <- <<"Sender", "Receiver">>, Scalars <- {1, 2}, Runs <- 1, pc <- basePc,
    strm <- baseStrm
\* Blocks are encrypted in place or to an array behind them.
Cipher == INSTANCE AES WITH
    SBox <- Box, Keys <- SomeKeys, Blocks <- SomeBlocks, Unroll <- 3,
    Sizes <- {0, 1, 2, 3, 4, 7}, Gaps <- {0, 8}, pc <- aesPc
\* Numbers of one and two limbs.
Field1 == INSTANCE Modp WITH
    B <- 8, Primes <- {5, 37}, Modes <- {TRUE, FALSE}, Reg <- {1, 2}, Ints <- {-3, -1, 2, 3},
    MaxExp <- 5, x <- modp_x
\* Of three limbs.
Field3 == INSTANCE Modp WITH
    B <- 3, Primes <- {11}, Modes <- {TRUE, FALSE}, Reg <- {1, 2}, Ints <- {-3, -1, 2, 3},
    MaxExp <- 3, x <- modp_x
\* Two vectors with bytes of two bits.
Vector == INSTANCE BitVector WITH
    Names <- Containers, MaxBits <- 3, W <- 2, WordBytes <- 2, last <- bvLast
\* Two streams; one, longer, with strings of bytes in it.
Buffer == INSTANCE ByteStream WITH
    Names <- Containers, Base <- 2, LenBytes <- 2, HashSize <- 1, MaxBytes <- 2,
    Rewound <- TRUE, strm <- bsStrm, last <- bsLast
Stored == INSTANCE ByteStream WITH
    Names <- {x}, Base <- 2, LenBytes <- 2, HashSize <- 2, MaxBytes <- 4, Rewound <- TRUE,
    strm <- bsStrm, last <- bsLast
View == INSTANCE ArrayView WITH
    Views <- {"v1", "v2", "v3"}, Arrays <- {"a1", "a2"}, MovesLent <- FALSE, AssignsOwners <- FALSE
\* Counters of four binary digits: the carries of all of them.
Generator == INSTANCE PRNG WITH
    Seeds <- {"s1", "s2"}, Base <- 2, Size <- 4, Word <- 2, MaxLen <- 9

ASSUME ExtensionParameters == Extension!OTExtensionAssumption
ASSUME TransfersParameters == Transfers!BaseOTAssumption
ASSUME CipherParameters == Cipher!AESAssumption
ASSUME Field1Parameters == Field1!ModpAssumption
ASSUME Field3Parameters == Field3!ModpAssumption
ASSUME VectorParameters == Vector!WAssumption
ASSUME BufferParameters == Buffer!StreamAssumption
ASSUME StoredParameters == Stored!StreamAssumption
ASSUME ViewParameters == View!ArrayViewAssumption
ASSUME GeneratorParameters == Generator!PRNGAssumption

Systems == {"transpose", "extension", "transfers", "cipher", "modp", "limbs", "vector", "buffer",
            "stored", "view", "generator"}
vars == <<system, trVars, otVars, baseVars, aesVars, modpVars, bvVars, bsVars, viewVars, prngVars>>

\* The variables of the systems this behaviour is not of.
Off == <<>>
trOff == input = Off
otOff == gen = Off /\ delta = Off /\ ot_r = Off /\ ot_s = Off /\ toR = Off /\ toS = Off
baseOff == basePc = Off /\ precision2 = Off /\ chan = Off /\ baseStrm = Off /\ sk = Off /\
           choice = Off /\ inputs = Off /\ outputs = Off /\ idx = Off /\ run = Off /\ misused = Off
aesOff == userKey = Off /\ key = Off /\ decKey = Off /\ plain = Off /\ size = Off /\ gap = Off /\
          mem = Off /\ aesPc = Off
modpOff == ZpD = Off /\ modp_x = Off /\ given = Off
bvOff == vec = Off /\ bvLast = Off
bsOff == bsStrm = Off /\ bsLast = Off
viewOff == view = Off /\ lent = Off /\ made = Off /\ deleted = Off
prngOff == seed = Off /\ state = Off /\ random = Off /\ cnt = Off /\ got = Off

Init ==
    /\ system \in Systems
    /\ IF system = "transpose" THEN input \in [0..3 -> Extension!Block(4)] ELSE trOff
    /\ IF system = "extension" THEN Extension!Init ELSE otOff
    /\ IF system = "transfers" THEN Transfers!Init ELSE baseOff
    /\ IF system = "cipher" THEN Cipher!Init ELSE aesOff
    /\ CASE system = "modp" -> Field1!Init
         [] system = "limbs" -> Field3!Init
         [] OTHER -> modpOff
    /\ IF system = "vector" THEN Vector!Init ELSE bvOff
    /\ CASE system = "buffer" -> Buffer!Init
         [] system = "stored" -> Stored!Init
         [] OTHER -> bsOff
    /\ IF system = "view" THEN View!Init ELSE viewOff
    /\ IF system = "generator" THEN Generator!Init ELSE prngOff
Next ==
    /\ UNCHANGED system
    /\ UNCHANGED trVars
    /\ IF system = "extension" THEN Extension!Next ELSE UNCHANGED otVars
    /\ IF system = "transfers" THEN Transfers!Next ELSE UNCHANGED baseVars
    /\ IF system = "cipher" THEN Cipher!Next ELSE UNCHANGED aesVars
    /\ CASE system = "modp" -> Field1!Next
         [] system = "limbs" -> Field3!Next
         [] OTHER -> UNCHANGED modpVars
    /\ IF system = "vector" THEN Vector!Next ELSE UNCHANGED bvVars
    /\ CASE system = "buffer" -> Buffer!Next
         [] system = "stored" -> Stored!Next
         [] OTHER -> UNCHANGED bsVars
    /\ IF system = "view" THEN View!Next ELSE UNCHANGED viewVars
    /\ IF system = "generator" THEN Generator!Next ELSE UNCHANGED prngVars
Spec == Init /\ [][Next]_vars

\* Bound: of the two base transfers, the first one's key is one and its first message zero.
TransfersBound == system = "transfers" => \A p \in Transfers!Party :
    /\ sk[p][1] \in {Transfers!None, 1}
    /\ inputs[p][1][1] \in {Transfers!NoBlock, Transfers!Hashed(0)}
-----------------------------------------------------------------------------

\* The types of all systems.
TypeOK ==
    /\ system = "extension" => Extension!TypeOK
    /\ system = "transfers" => Transfers!TypeOK
    /\ system = "modp" => Field1!TypeOK
    /\ system = "vector" => Vector!TypeOK
    /\ system = "buffer" => Buffer!TypeOK
    /\ system = "generator" => Generator!TypeOK

\* eklundh_transpose128 ends with the transposed square.
EndsTransposed == system = "transpose" => Extension!Transpose(input) = Extension!Transposed(input)

\* mul128 gives the two blocks of the product.
MulIsProduct == system = "transpose" =>
    LET p == Extension!Product(input[0], input[1])
    IN  Extension!Mul(input[0], input[1], 2) = <<Extension!Low(p, 4), Extension!High(p, 4)>>

\* gfmul128 multiplies in the field, with the bits of all blocks in reverse order ("it
\* bit-reflects the result as required for GCM mode", Tools.cpp:84): spread over 128 bits.
ReducesReflected == system = "transpose" /\ input[2] = {} /\ input[3] = {} =>
    LET Reflected(c) == {127 - i : i \in c}
        Bit128(i) == CASE i = 0 -> 0 [] i = 1 -> 31 [] i = 2 -> 95 [] i = 3 -> 127
        a == (40..50) \cup {Bit128(i) : i \in input[0]}
        b == {9, 11, 12, 70, 100} \cup {Bit128(i) : i \in input[1]}
    IN  Reflected(Extension!gfmul128(a, b, 32))
            = Extension!Remainder(Extension!Product(Reflected(a), Reflected(b)), 128)

\* The receiver has the message of its choice of every extended OT.
Correlated == system = "extension" => Extension!Correlated

\* Honest parties pass the check of the extension.
NeverThrows == system = "extension" => Extension!NeverThrows

\* What other threads may read below the done index does not change.
ReadStable == [][system = "extension" => Extension!StaysBelow]_otVars

\* The receiver of a base OT has the message it chose.
Transferred == system = "transfers" => Transfers!Transferred

\* Blocks encrypted in batches are those encrypted one by one.
OneByOne == system = "cipher" => Cipher!OneByOne

\* Decryption under the inverted keys gives back the plain text.
Decrypts == system = "cipher" => Cipher!Decrypts

\* The operations on elements are those of the field, in either representation.
Computes ==
    /\ system = "modp" => Field1!Computes
    /\ system = "limbs" => Field3!Computes

\* A converted number is the number modulo the prime.
ConvertsBack == system = "modp" => Field1!ConvertsBack

\* Vectors with the same bits compare equal; others do not, if a part of a byte is used.
EqualsSame == system = "vector" => Vector!EqualsSame

\* parity counts the bits of the vector only.
ParityOfBits == system = "vector" => Vector!ParityOfBits

\* BitVector is a set of strings of bits.
IsBitStrings ==
    /\ (system = "vector" => Vector!Promise!Init)
    /\ [][system = "vector" => Vector!Promise!Next \/ UNCHANGED Vector!Promise!vars]_bvVars

\* The read head stays behind the write head, and that one in the buffer.
HeadsInOrder ==
    /\ system = "buffer" => Buffer!HeadsInOrder
    /\ system = "stored" => Stored!HeadsInOrder

\* ByteStream is a tape with two heads.
IsTape ==
    /\ (system = "buffer" => Buffer!Tape!Init)
    /\ [][system = "buffer" => Buffer!Tape!Next \/ UNCHANGED Buffer!Tape!vars]_bsVars

\* get_bytes finds what store_bytes wrote.
StoredIsGot == system = "stored" => Stored!StoredIsGot

\* An array has one owner.
SingleOwner == system = "view" => View!SingleOwner

\* No view points to a deleted array.
NoDangling == system = "view" => View!NoDangling

\* An array that is not deleted has a view that will delete it.
NoneLost == system = "view" => View!NoneLost

\* All calls together read one stream of the seed, each byte once.
ReadsOneStream ==
    /\ (system = "generator" => Generator!Stream!Init)
    /\ [][system = "generator" => Generator!Stream!Next \/ UNCHANGED Generator!Stream!vars]_prngVars
-----------------------------------------------------------------------------


\* AES and the arithmetic modulo primes compute what they are used for, however the work
\* is cut.
ArithmeticRight ==
    /\ OneByOne
    /\ Decrypts
    /\ Computes
    /\ ConvertsBack

\* Two bit vectors compare equal when they hold the same bits, and only then if their last
\* byte is not full; parity counts the bits of the vector; a stream's heads stay in order and
\* it gives back what was stored; and, with views that are assigned to only while they own
\* nothing, an array has one owner, is not used once deleted, and is deleted by its last view.
ContainersRight ==
    /\ TypeOK
    /\ EqualsSame
    /\ ParityOfBits
    /\ HeadsInOrder
    /\ StoredIsGot
    /\ SingleOwner
    /\ NoDangling
    /\ NoneLost

\* Containers and generator do what their abstract specifications allow, and what others
\* read of the extension stays.
Promised ==
    /\ ReadStable
    /\ IsBitStrings
    /\ IsTape
    /\ ReadsOneStream

=============================================================================
