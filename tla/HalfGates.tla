----------------------------- MODULE HalfGates -----------------------------
(***************************************************************************)
(* Garbling, checking and evaluating a circuit with half gates             *)
(* (libBDX/Circuit/HalfGtGarbledCircuit.cpp).                              *)
(*                                                                         *)
(* A block is a sum of independent ones, the set of its summands: the      *)
(* global offset, the label of each input wire and each answer of the hash *)
(* function are independent.  All that else is known of them is the bottom *)
(* bit (permute), which is 1 for the global offset and anything for the    *)
(* others.  The hash function is a random oracle: an answer is drawn when  *)
(* something is asked for the first time.                                  *)
(*                                                                         *)
(* The garbler garbles the circuit mine; the evaluator checks the seed     *)
(* against the circuit both agreed on and evaluates on the input x.        *)
(***************************************************************************)
EXTENDS Circuits, FiniteSetsExt, SequencesExt, TLC

CONSTANTS NumInputs, NumGates,
          Types,      \* types of gates
          Twice,      \* whether a gate may read one wire twice
          Cheats      \* whether mine may be another circuit than agreed

HalfGatesAssumption == /\ NumInputs \in Nat \ {0} /\ NumGates \in Nat \ {0}
                       /\ Types \subseteq {1, 2, 4, 6, 7, 8, 9, 11, 13, 14}
                       /\ Twice \in BOOLEAN /\ Cheats \in BOOLEAN

\* The state:
\*   pc, k: the function that runs and its gate
\*   permute, asked: bottom bits; the questions to the oracle, in order
\*   wires: mInputWires of the garbler: the label of 0
\*   mGates, mTranslationTable: as sent
\*   check, valid: mInputWires of Validate, and whether it has thrown
\*   labels: of the evaluator
VARIABLES mine, agreed, x, pc, k, permute, asked, wires, mGates, mTranslationTable, check,
          valid, labels

vars == <<mine, agreed, x, pc, k, permute, asked, wires, mGates, mTranslationTable, check, valid, labels>>
circuits == <<mine, agreed, x>>
oracle == <<permute, asked>>

Sum(a, b) == (a \ b) \cup (b \ a)
mGlobalOffset == {<<"delta", 0>>}
Offset(bit) == IF bit = 1 THEN mGlobalOffset ELSE {}
InputLabel(w) == {<<"input", w>>}
Answer(q) == {<<"hash", CHOOSE j \in DOMAIN asked' : asked'[j] = q>>}
Mask(n, i) == {<<"mask", 2 * n + i>>}     \* tableMasks: the pair of table n

PermuteBit(l) == Cardinality({a \in l : permute[a] = 1}) % 2
FreeXor(g) == g.type \in {Xor, Nxor}
Tables(c, n) == Cardinality({j \in 1..n : ~FreeXor(c.gates[j])})
NonXorGateCount(c) == Tables(c, NumGates)

\* Ask for what was not asked before; the bottom bit of an answer may be any.
Ask(qs) ==
    LET new == SelectSeq(qs, LAMBDA q : ~Contains(asked, q))
        n == Len(asked)
    IN  /\ asked' = asked \o new
        /\ \E bits \in [n+1..n+Len(new) -> {0, 1}] :
              permute' = permute @@ [a \in {<<"hash", j>> : j \in n+1..n+Len(new)} |-> bits[a[2]]]

\* The tweaks: a counter of the tables for one input, and it runs on for the other.
SameTweaks(c, n) == <<Tables(c, n), Tables(c, n)>>    \* fault: both from zero
Tweaks(c, n) == <<Tables(c, n), NumGates + Tables(c, n)>>

GarblerAsks(a, b, t) == <<<<a, t[1]>>, <<Sum(a, mGlobalOffset), t[1]>>, <<b, t[2]>>, <<Sum(b, mGlobalOffset), t[2]>>>>
Hash(qs, j) == Answer(qs[j])

\* The table of a gate and the label of 0 of its output.
HalfGateUnpermuted(g, a, b, qs) ==                    \* fault: bPermuteBit left out of the table
    LET pa == PermuteBit(a)  pb == PermuteBit(b)
        h(j) == Hash(qs, j)
        both == IF (pa + AAlpha(g.type)) % 2 = 1 /\ (pb + BAlpha(g.type)) % 2 = 1 THEN 1 ELSE 0
    IN  [table |-> <<Sum(Sum(h(1), h(2)), Offset(BAlpha(g.type))),
                     Sum(Sum(Sum(h(3), h(4)), a), Offset(AAlpha(g.type)))>>,
         c |-> Sum(Sum(h(1 + pa), h(3 + pb)), Offset((both + CAlpha(g.type)) % 2))]
HalfGate(g, a, b, qs) ==
    LET pa == PermuteBit(a)  pb == PermuteBit(b)
        h(j) == Hash(qs, j)
        both == IF (pa + AAlpha(g.type)) % 2 = 1 /\ (pb + BAlpha(g.type)) % 2 = 1 THEN 1 ELSE 0
    IN  [table |-> <<Sum(Sum(h(1), h(2)), Offset((BAlpha(g.type) + pb) % 2)),
                     Sum(Sum(Sum(h(3), h(4)), a), Offset(AAlpha(g.type)))>>,
         c |-> Sum(Sum(h(1 + pa), h(3 + pb)), Offset((both + CAlpha(g.type)) % 2))]

Masked(table, n) == <<Sum(table[1], Mask(n, 0)), Sum(table[2], Mask(n, 1))>>
-----------------------------------------------------------------------------
\* The circuits of NumGates gates; the last wire is the output.
GateAt(w) == {[in0 |-> p[1], in1 |-> p[2], out |-> w, type |-> t] :
                 p \in {p \in (0..w-1) \X (0..w-1) : Twice \/ p[1] # p[2]}, t \in Types}
AllCircuits ==
    {[inputs |-> <<NumInputs, 0>>, mWireCount |-> NumInputs + NumGates, gates |-> gs,
      outputs |-> <<NumInputs + NumGates - 1>>] :
        gs \in {gs \in [1..NumGates -> UNION {GateAt(NumInputs + n - 1) : n \in 1..NumGates}] :
                   \A n \in 1..NumGates : gs[n].out = NumInputs + n - 1}}

DeltaBitFree == {0, 1}                                \* fault: the bottom bit is not set
DeltaBit == {1}

\* What GarbleSend and Validate begin with: the labels of 0 of the inputs, drawn from the seed.
GarbleInputs   == [w \in 0..NumInputs-1 |-> InputLabel(w)]
ValidateInputs == [w \in 0..NumInputs-1 |-> InputLabel(w)]

Init ==
    /\ agreed \in AllCircuits
    /\ mine \in IF Cheats THEN AllCircuits ELSE {agreed}
    /\ x \in [0..NumInputs-1 -> {0, 1}]
    /\ pc = "garble" /\ k = 1
    /\ \E d \in DeltaBit, bits \in [0..NumInputs-1 -> {0, 1}] :
          permute = [a \in {<<"delta", 0>>} |-> d] @@ [a \in {<<"input", w>> : w \in 0..NumInputs-1} |-> bits[a[2]]]
    /\ asked = <<>>
    /\ wires = GarbleInputs
    /\ mGates = <<>> /\ mTranslationTable = <<>>
    /\ check = ValidateInputs /\ valid = TRUE
    /\ labels = <<>>

\* Garble, GarbleSend: the next gate.
GarbleGate ==
    /\ pc = "garble" /\ k <= NumGates
    /\ LET g == mine.gates[k]
           a == wires[g.in0]  b == wires[g.in1]
           qs == GarblerAsks(a, b, Tweaks(mine, k - 1))
       IN  IF FreeXor(g)
           THEN /\ wires' = wires @@ (g.out :> Sum(Sum(a, b), Offset(g.type % 2)))
                /\ UNCHANGED <<mGates, oracle>>
           ELSE /\ Ask(qs)
                /\ wires' = wires @@ (g.out :> HalfGate(g, a, b, qs).c)
                /\ mGates' = Append(mGates, Masked(HalfGate(g, a, b, qs).table, Len(mGates)))
    /\ k' = k + 1
    /\ UNCHANGED <<circuits, pc, mTranslationTable, check, valid, labels>>

\* The bottom bits of the output wires.
Translation(c, ws) == [i \in DOMAIN c.outputs |-> PermuteBit(ws[c.outputs[i]])]

\* GarbleSend: the tables are sent, then the translation table.
GarbleDone ==
    /\ pc = "garble" /\ k > NumGates
    /\ mTranslationTable' = Translation(mine, wires)
    /\ pc' = "receive" /\ k' = 1
    /\ UNCHANGED <<circuits, oracle, wires, mGates, check, valid, labels>>

\* ReceiveFromGarbler: messages of other sizes than those of the agreed circuit are refused.
Fit == Len(mGates) = NonXorGateCount(agreed) /\ Len(mTranslationTable) = Len(agreed.outputs)
ReceiveFromGarbler ==
    /\ pc = "receive" /\ pc' = IF Fit THEN "validate" ELSE "refused"
    /\ UNCHANGED <<circuits, k, oracle, wires, mGates, mTranslationTable, check, valid, labels>>

\* The labels of the input: what the evaluator is given of each wire.
Chosen == [w \in 0..NumInputs-1 |-> Sum(InputLabel(w), Offset(x[w]))]

\* Validate: each gate of the agreed circuit is garbled again with the seed.
ValidateGate ==
    /\ pc = "validate" /\ k <= NumGates
    /\ LET g == agreed.gates[k]
           a == check[g.in0]  b == check[g.in1]
           n == Tables(agreed, k - 1)
           qs == GarblerAsks(a, b, Tweaks(agreed, k - 1))
       IN  IF FreeXor(g)
           THEN /\ check' = check @@ (g.out :> Sum(Sum(a, b), Offset(g.type % 2)))
                /\ k' = k + 1 /\ UNCHANGED <<valid, pc, oracle, labels>>
           ELSE /\ Ask(qs)
                /\ check' = check @@ (g.out :> HalfGate(g, a, b, qs).c)
                /\ IF Masked(HalfGate(g, a, b, qs).table, n) = mGates[n + 1]
                   THEN k' = k + 1 /\ UNCHANGED <<valid, pc, labels>>
                   ELSE valid' = FALSE /\ pc' = "evaluate" /\ k' = 1 /\ labels' = Chosen
    /\ UNCHANGED <<circuits, wires, mGates, mTranslationTable>>

TablesOnly(bits) == TRUE                              \* fault: the translation table is not checked
Translates(bits) == bits = mTranslationTable

ValidateDone ==
    /\ pc = "validate" /\ k > NumGates
    /\ valid' = Translates(Translation(agreed, check))
    /\ pc' = "evaluate" /\ k' = 1 /\ labels' = Chosen
    /\ UNCHANGED <<circuits, oracle, wires, mGates, mTranslationTable, check>>

\* evaluate: with the labels it has, the table row that the bottom bits choose.
EvaluateGate ==
    /\ pc = "evaluate" /\ k <= NumGates
    /\ LET g == agreed.gates[k]
           a == labels[g.in0]  b == labels[g.in1]
           n == Tables(agreed, k - 1)
           t == Tweaks(agreed, k - 1)
           qs == <<<<a, t[1]>>, <<b, t[2]>>>>
           table == Masked(mGates[n + 1], n)
           row1 == IF PermuteBit(a) = 1 THEN table[1] ELSE {}
           row2 == IF PermuteBit(b) = 1 THEN Sum(table[2], a) ELSE {}
       IN  IF FreeXor(g)
           THEN labels' = labels @@ (g.out :> Sum(a, b)) /\ UNCHANGED oracle
           ELSE /\ Ask(qs)
                /\ labels' = labels @@ (g.out :> Sum(Sum(Hash(qs, 1), Hash(qs, 2)), Sum(row1, row2)))
    /\ k' = k + 1
    /\ UNCHANGED <<circuits, pc, wires, mGates, mTranslationTable, check, valid>>

EvaluateDone ==
    /\ pc = "evaluate" /\ k > NumGates
    /\ pc' = "done"
    /\ UNCHANGED <<circuits, k, oracle, wires, mGates, mTranslationTable, check, valid, labels>>

Next == GarbleGate \/ GarbleDone \/ ReceiveFromGarbler \/ ValidateGate \/ ValidateDone \/ EvaluateGate \/ EvaluateDone

Spec == Init /\ [][Next]_vars

translate == [i \in DOMAIN agreed.outputs |-> (mTranslationTable[i] + PermuteBit(labels[agreed.outputs[i]])) % 2]
-----------------------------------------------------------------------------
Atoms == ({"delta"} \X {0}) \cup ({"input"} \X (0..NumInputs-1)) \cup ({"hash"} \X (1..Len(asked)))
TypeOK ==
    /\ pc \in {"garble", "receive", "refused", "validate", "evaluate", "done"} /\ k \in 1..NumGates+1
    /\ permute \in [Atoms -> {0, 1}] /\ permute[<<"delta", 0>>] = 1
    /\ \A w \in DOMAIN wires : wires[w] \subseteq Atoms
    /\ \A w \in DOMAIN check : check[w] \subseteq Atoms
    /\ Len(mGates) <= NonXorGateCount(mine) /\ mTranslationTable \in Seq({0, 1}) /\ valid \in BOOLEAN

\* What STRONGEVAL checks while it evaluates (HalfGtGarbledCircuit.cpp:348): in a circuit
\* that is what it should be, the label of a wire is its label of 0 or the one global
\* offset away, and which of the two says the value of the wire.
LabelsStandForValues == pc \in {"evaluate", "done"} /\ mine = agreed =>
    \A w \in DOMAIN labels : labels[w] = Sum(wires[w], Offset(Values(agreed, x)[w]))

\* The circuit is checked against its seed alone: one that passes, whatever was garbled,
\* gives the agreed function's value on every input, and an honest one passes.
ValidatedComputes == /\ pc = "done" /\ valid => translate = Outputs(agreed, x)
                     /\ mine = agreed => valid /\ pc # "refused"

\* The evaluator of an honest circuit knows one label of each wire: no sum of what it was
\* sent and has computed is the global offset.
Sums(S) == {FoldSet(Sum, {}, T) : T \in SUBSET S}
Known == {labels[w] : w \in DOMAIN labels}
           \cup UNION {{Masked(mGates[n], n - 1)[1], Masked(mGates[n], n - 1)[2]} : n \in DOMAIN mGates}
           \cup {{<<"hash", j>>} : j \in {j \in DOMAIN asked : \E w \in DOMAIN labels : asked[j][1] = labels[w]}}
OffsetHidden == pc = "done" /\ mine = agreed => mGlobalOffset \notin Sums(Known)

=============================================================================
