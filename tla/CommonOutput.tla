---------------------------- MODULE CommonOutput ----------------------------
(***************************************************************************)
(* The output labels of a bucket (libBDX/DualEx/Bucket.cpp and             *)
(* CircuitPackage.cpp).  Every circuit has output labels of its own; the   *)
(* garbler sends translations of their hashes to labels common to its      *)
(* bucket, having committed to the hashes.  Of each circuit the evaluator  *)
(* sums the common labels of both parties for the bits it got, and later   *)
(* checks the translations against the commitments.                        *)
(*                                                                         *)
(* A block is the set of the independent ones it is the sum of.            *)
(***************************************************************************)
EXTENDS Integers, FiniteSets, FiniteSetsExt

CONSTANTS bucketSize, OutputCount, WireCount
CommonOutputAssumption == /\ bucketSize \in Nat \ {0} /\ OutputCount \in Nat \ {0}
                          /\ WireCount \in Nat /\ OutputCount <= WireCount

Role == {0, 1}
Their(r) == 1 - r
Circuits == 1..bucketSize
Outputs == 0..OutputCount-1
Bit == {0, 1}
Sum(x, y) == (x \ y) \cup (y \ x)
SumOver(S, Block(_)) == FoldSet(LAMBDA e, sum : Sum(Block(e), sum), {}, S)
none == "none"
noBlock == {<<"none">>}
noOutput == <<>>

VARIABLES value,         \* value[r][b]: what circuit b of party r yields
          permute,       \* the bottom bits of the output labels of 0
          tampered,      \* translations that are sent as something else
          seeded,        \* parties that have sent their translations
          psiInput, mOutputs,      \* of the evaluator of each circuit
          opened,        \* parties that have sent mOutputLabelSeed
          checked        \* checked[r][b]: by the evaluator of circuit b of r
vars == <<value, permute, tampered, seeded, psiInput, mOutputs, opened, checked>>

\* mGlobalOffset has the bottom bit 1.
Offset(r, b, bit) == IF bit = 1 THEN {<<"delta", r, b, 0>>} ELSE {}
Wire(r, b, i, bit) == Sum({<<"out", r, b, i>>}, Offset(r, b, bit))
PermuteBit(i, bit) == (permute[i] + bit) % 2
mCommonOutput(r, i, bit) == {<<"common", r, i, bit>>}

Unhashed(label, tweak) == label                              \* fault
Hash(label, tweak) == {<<"hash", label, tweak, 0>>}
Tweak(i, bit) == (2 + bit) * WireCount + i

\* What the commitment to the outputs is made of
Committed(r, b) == [i \in Outputs |-> [bit \in Bit |-> Hash(Wire(r, b, i, bit), Tweak(i, bit))]]
Translation(r, b, i, bit) ==
    Sum(Sum(Hash(Wire(r, b, i, bit), Tweak(i, bit)), mCommonOutput(r, i, bit)),
        IF <<r, b, i, bit>> \in tampered THEN {<<"other", r, b, i>>} ELSE {})

Init == /\ value \in [Role -> [Circuits -> [Outputs -> Bit]]] /\ permute \in [Outputs -> Bit]
        /\ tampered \in {{}} \cup {{<<1, 1, i, bit>>} : <<i, bit>> \in Outputs \X Bit}
        /\ seeded = {} /\ opened = {}
        /\ psiInput = [r \in Role |-> [b \in Circuits |-> noBlock]]
        /\ mOutputs = [r \in Role |-> [b \in Circuits |-> noOutput]]
        /\ checked = [r \in Role |-> [b \in Circuits |-> none]]

\* commitToOutputs for every circuit, and initSend
initSend(r) == /\ r \notin seeded /\ seeded' = seeded \cup {r}
               /\ UNCHANGED <<value, permute, tampered, psiInput, mOutputs, opened, checked>>

\* evalCircuit, by the other party: the bit from the label and the translation table
OutputBitUntranslated(label, i) == PermuteBit(i, label)           \* fault
OutputBit(label, i) == (PermuteBit(i, label) + permute[i]) % 2
OwnOutputLeftOut(r, i, bit) == {}                            \* fault
OwnOutput(r, i, bit) == mCommonOutput(r, i, bit)
psiBlock(r, b) ==
    SumOver(Outputs, LAMBDA i :
        LET bit == OutputBit(value[r][b][i], i)
            theirCommonOutput == Sum(Hash(Wire(r, b, i, value[r][b][i]), Tweak(i, bit)), Translation(r, b, i, bit))
        IN  Sum(theirCommonOutput, OwnOutput(Their(r), i, bit)))
evalCircuit(r, b) ==
    /\ seeded = Role /\ psiInput[r][b] = noBlock
    /\ psiInput' = [psiInput EXCEPT ![r][b] = psiBlock(r, b)]
    /\ mOutputs' = [mOutputs EXCEPT ![r][b] = [i \in Outputs |-> OutputBit(value[r][b][i], i)]]
    /\ UNCHANGED <<value, permute, tampered, seeded, opened, checked>>

\* A party opens its seed when it has a commitment to the input to the PSI for each of its circuits.
openTranslation(r) == /\ r \in seeded \ opened /\ \A b \in Circuits : psiInput[r][b] # noBlock
                      /\ opened' = opened \cup {r}
                      /\ UNCHANGED <<value, permute, tampered, seeded, psiInput, mOutputs, checked>>

WiresOfValue(r, b) == \A i \in Outputs : LET bit == mOutputs[r][b][i] IN      \* fault: only the label it got
    Sum(mCommonOutput(r, i, bit), Translation(r, b, i, bit)) = Committed(r, b)[i][bit]
WiresAsCommitted(r, b) == \A i \in Outputs, bit \in Bit :
    Sum(mCommonOutput(r, i, bit), Translation(r, b, i, bit)) = Committed(r, b)[i][bit]
checkTranslation(r, b) ==
    /\ r \in opened /\ checked[r][b] = none
    /\ checked' = [checked EXCEPT ![r][b] = IF WiresAsCommitted(r, b) THEN "passed" ELSE "invalid_commitment"]
    /\ UNCHANGED <<value, permute, tampered, seeded, psiInput, mOutputs, opened>>

Next == \E r \in Role : \/ initSend(r) \/ openTranslation(r)
                        \/ \E b \in Circuits : evalCircuit(r, b) \/ checkTranslation(r, b)
Spec == Init /\ [][Next]_vars
-----------------------------------------------------------------------------
\* A circuit of either party gives its evaluator the same input to the PSI as one of the other
\* party exactly when they yield the same outputs.
EqualWhenOutputsAgree == tampered = {} =>
    \A b, c \in Circuits : (psiInput[0][b] # noBlock /\ psiInput[1][c] # noBlock) =>
        ((psiInput[0][b] = psiInput[1][c]) <=> (value[0][b] = value[1][c]))

\* The evaluator has the outputs of the circuit.
OutputsOfCircuit == \A r \in Role, b \in Circuits : mOutputs[r][b] # noOutput => mOutputs[r][b] = value[r][b]

\* A translation to another label is refused, whether the evaluator has met it or not, so that
\* whether the check passes tells nothing of the outputs.
RefusedWhenTampered == \A r \in Role, b \in Circuits : checked[r][b] # none =>
    checked[r][b] = IF \E t \in tampered : t[1] = r /\ t[2] = b THEN "invalid_commitment" ELSE "passed"

\* With all common labels open, the evaluator cannot sum what it knows to the circuit's offset.
Known(r, b) == {Wire(r, b, i, value[r][b][i]) : i \in Outputs}
               \cup {Translation(r, b, i, bit) : i \in Outputs, bit \in Bit}
               \cup {mCommonOutput(r, i, bit) : i \in Outputs, bit \in Bit}
OffsetStaysHidden == \A r \in Role, b \in Circuits : checked[r][b] # none =>
    \A K \in SUBSET Known(r, b) : SumOver(K, LAMBDA x : x) # Offset(r, b, 1)

=============================================================================
