---------------------------- MODULE ClassicGates ----------------------------
(***************************************************************************)
(* ClassicGarbledCircuit (libBDX/Circuit/ClassicGarbledCircuit.cpp): each  *)
(* gate has a table of four rows, encryptions under both inputs' labels,   *)
(* in the order of the labels' bottom bits.  A label is a wire and whether *)
(* the global offset is added; of the random label without it only the     *)
(* bottom bit is known, and the offset's is 1.  What is decrypted with     *)
(* another key than it was encrypted with is Junk.                         *)
(***************************************************************************)
EXTENDS Circuits

CONSTANTS NumInputs, NumGates, Types
ClassicGatesAssumption == NumInputs \in Nat \ {0} /\ NumGates \in Nat \ {0} /\ Types \subseteq 0..15

VARIABLES cir, x,              \* the circuit and the values of its input wires
          pc, k,               \* the function that runs and its gate
          bottom,              \* bottom[w]: the bottom bit of the label mWires[w]
          mGates, mTranslationTable,
          labels, output       \* of the evaluator
vars == <<cir, x, pc, k, bottom, mGates, mTranslationTable, labels, output>>

Wires == 0..NumInputs+NumGates-1
Junk  == [wire |-> -1, offset |-> 0]
Label(w, offset) == [wire |-> w, offset |-> offset]
Enc(key, text) == [key |-> key, text |-> text]
Dec(key, cipher) == IF cipher.key = key THEN cipher.text ELSE Junk
PermuteBit(l) == IF l = Junk THEN 0 ELSE (bottom[l.wire] + l.offset) % 2

GateAt(w) == [in0 : 0..w-1, in1 : 0..w-1, out : {w}, type : Types]
AllCircuits ==
    {[inputs |-> <<NumInputs, 0>>, mWireCount |-> NumInputs + NumGates, gates |-> gs, outputs |-> <<NumInputs, NumInputs + NumGates - 1>>] :
        gs \in {gs \in [1..NumGates -> UNION {GateAt(NumInputs + n - 1) : n \in 1..NumGates}] :
                   \A n \in 1..NumGates : gs[n].out = NumInputs + n - 1}}

Init == /\ cir \in AllCircuits /\ x \in [0..NumInputs-1 -> {0, 1}]
        /\ pc = "garble" /\ k = 1 /\ bottom \in [0..NumInputs-1 -> {0, 1}]
        /\ mGates = <<>> /\ mTranslationTable = <<>> /\ labels = <<>> /\ output = <<>>

\* permute: the places of the rows, the halves exchanged for one input, the pairs for the other
PlaceCrossed(i, a, b) == (i + 2 * a + b) % 4                  \* fault: added, with the inputs exchanged
Place(i, a, b) == (((i % 2) + a) % 2) + 2 * (((i \div 2) + b) % 2)
KeysInOrder(i) == <<i \div 2, i % 2>>                         \* fault
Keys(i) == <<i % 2, i \div 2>>
Row(g, i) == Enc(Label(g.in1, Keys(i)[2]), Enc(Label(g.in0, Keys(i)[1]), Label(g.out, Bit(g.type, i))))
Table(g) == [place \in 0..3 |->
    Row(g, CHOOSE i \in 0..3 : Place(i, PermuteBit(Label(g.in0, 0)), PermuteBit(Label(g.in1, 0))) = place)]

\* Garble: a gate, then the translation table.
GarbleGate == /\ pc = "garble" /\ k <= NumGates
              /\ \E bit \in {0, 1} : bottom' = [w \in 0..cir.gates[k].out |-> IF w \in DOMAIN bottom THEN bottom[w] ELSE bit]
              /\ mGates' = Append(mGates, Table(cir.gates[k])) /\ k' = k + 1
              /\ UNCHANGED <<cir, x, pc, mTranslationTable, labels, output>>
Garbled == /\ pc = "garble" /\ k > NumGates
           /\ mTranslationTable' = [i \in DOMAIN cir.outputs |-> PermuteBit(Label(cir.outputs[i], 0))]
           /\ labels' = [w \in 0..NumInputs-1 |-> Label(w, x[w])]
           /\ pc' = "evaluate" /\ k' = 1 /\ UNCHANGED <<cir, x, bottom, mGates, output>>

\* evaluate: the row that the labels' bottom bits name
EvaluateGate ==
    /\ pc = "evaluate" /\ k <= NumGates
    /\ LET g == cir.gates[k]  a == labels[g.in0]  b == labels[g.in1]
           row == mGates[k][PermuteBit(a) + 2 * PermuteBit(b)]
           inner == Dec(b, row)
       IN  labels' = [w \in 0..g.out |-> IF w = g.out THEN IF inner = Junk THEN Junk ELSE Dec(a, inner) ELSE labels[w]]
    /\ k' = k + 1 /\ UNCHANGED <<cir, x, pc, bottom, mGates, mTranslationTable, output>>
NotTranslated(i) == PermuteBit(labels[cir.outputs[i]])        \* fault
Translated(i) == (mTranslationTable[i] + PermuteBit(labels[cir.outputs[i]])) % 2
translate == /\ pc = "evaluate" /\ k > NumGates
             /\ output' = [i \in DOMAIN cir.outputs |-> Translated(i)] /\ pc' = "done"
             /\ UNCHANGED <<cir, x, k, bottom, mGates, mTranslationTable, labels>>

Next == GarbleGate \/ Garbled \/ EvaluateGate \/ translate
Spec == Init /\ [][Next]_vars
-----------------------------------------------------------------------------
\* The evaluator has the label of each wire's value, as mWires would show.
LabelsStandForValues == pc \in {"evaluate", "done"} =>
    \A w \in DOMAIN labels : labels[w] = Label(w, Values(cir, x)[w])

\* What is translated is the function's value.
ComputesOutputs == pc = "done" => output = Outputs(cir, x)

\* Of every table the evaluator can decrypt one row and no other.
OpensOneRow == pc = "done" => \A n \in 1..NumGates : LET g == cir.gates[n] IN
    {place \in 0..3 : LET inner == Dec(labels[g.in1], mGates[n][place])
                      IN  inner # Junk /\ Dec(labels[g.in0], inner) # Junk}
      = {PermuteBit(labels[g.in0]) + 2 * PermuteBit(labels[g.in1])}

=============================================================================
