----------------------------- MODULE DagCircuit -----------------------------
(***************************************************************************)
(* How a circuit comes out of a file (libBDX/Circuit/DagCircuit.cpp and    *)
(* Circuit::readBris): the gates are read into a doubly linked graph, the  *)
(* inverters are absorbed into the truth tables around them, and a depth   *)
(* first search numbers what is left.                                      *)
(*                                                                         *)
(* An inverter is a node with one parent and type na.  What is wrong with  *)
(* the graph throws: pc is "thrown".  Erasing a child that is not there    *)
(* writes past the end of the list: pc is "undefined" and nothing follows. *)
(***************************************************************************)
EXTENDS Circuits, FiniteSets, SequencesExt

CONSTANTS NumInputs,   \* input wires, of both parties
          MaxGates,    \* bound: gates in a file
          Reduce,      \* whether inverters are removed
          AnyFile      \* whether files outside Supported are read too

DagAssumption == /\ NumInputs \in Nat \ {0} /\ MaxGates \in Nat \ {0}
                 /\ Reduce \in BOOLEAN /\ AnyFile \in BOOLEAN

VARIABLES file, numGates, outputCount,   \* the lines read so far, and the header
          pc, i,      \* where the functions are, and the index of their loop
          node,       \* mNodes: type, mParents and mChildren of every wire
          out,        \* mOutputs: the wire each output is taken from
          added, newWireIdx, addStack,  \* the depth first search
          frames,     \* the calls of depthFirstAdd that have not returned
          cir         \* the circuit

header == <<file, numGates, outputCount>>
search == <<added, newWireIdx, addStack, frames>>
vars == <<header, pc, i, node, out, search, cir>>

mWireCount == NumInputs + numGates
Wires == 0..mWireCount-1
outputStartIdx == mWireCount - outputCount
Unset == NumInputs + MaxGates + 1    \* (u64)-1: above every wire

\* The lines that can follow when wires below n are defined.
Lines(n) == [kind : {"XOR", "AND"}, in : (0..n-1) \X (0..n-1)]
              \cup [kind : {"INV"}, in : {<<a>> : a \in 0..n-1}]

Readers(f, w) == {k \in DOMAIN f : \E j \in DOMAIN f[k].in : f[k].in[j] = w}

\* The files the reduction can do: nothing inverts an inverter, no gate reads a wire
\* twice, and an inverter that is an output has no reader and inverts a gate that is not
\* itself an output and has no other inverter.
Supported(f) ==
    \A k \in DOMAIN f :
        /\ Len(f[k].in) = 2 => f[k].in[1] # f[k].in[2]
        /\ f[k].kind = "INV" =>
             LET w == f[k].in[1]
                 isOutput(g) == NumInputs + g - 1 >= outputStartIdx
             IN  /\ w >= NumInputs => f[w - NumInputs + 1].kind # "INV"
                 /\ isOutput(k) => /\ Readers(f, NumInputs + k - 1) = {}
                                   /\ w >= NumInputs /\ ~isOutput(w - NumInputs + 1)
                                   /\ \A r \in Readers(f, w) \ {k} : f[r].kind # "INV"

InputNode == [type |-> -1, mParents |-> <<>>, mChildren |-> <<>>]
isInvert(nd, w) == nd[w].type = NA /\ Len(nd[w].mParents) = 1
IsInput(w) == w < NumInputs

\* invert: the type of a gate whose input number i is the other one from now on.
invertSame(k, t) == Bit(t, 1) + 2 * Bit(t, 0) + 4 * Bit(t, 3) + 8 * Bit(t, 2)   \* fault: always input 0
invert(k, t) == IF k = 0 THEN Bit(t, 1) + 2 * Bit(t, 0) + 4 * Bit(t, 3) + 8 * Bit(t, 2)
                ELSE Bit(t, 2) + 2 * Bit(t, 3) + 4 * Bit(t, 0) + 8 * Bit(t, 1)

\* invertInput, once for each time w is a child: all inputs that are w are inverted.
InvertedInputs(nd, c, w) ==
    LET p == nd[c].mParents
        t == IF p[1] = w THEN invert(0, nd[c].type) ELSE nd[c].type
        both == IF Len(p) = 2 /\ p[2] = w THEN invert(1, t) ELSE t
        times == Cardinality({k \in DOMAIN nd[w].mChildren : nd[w].mChildren[k] = c})
    IN  IF times % 2 = 1 THEN both ELSE nd[c].type

OutputInvertedUnmasked(nd, w) ==                      \* fault: ~type without & 15
    [c \in DOMAIN nd |->
        IF c = w THEN [nd[c] EXCEPT !.type = 255 - @]
        ELSE IF \E k \in DOMAIN nd[w].mChildren : nd[w].mChildren[k] = c
             THEN [nd[c] EXCEPT !.type = InvertedInputs(nd, c, w)] ELSE nd[c]]

\* invertOutput: the gate gives the other value and its children take it inverted.
OutputInverted(nd, w) ==
    [c \in DOMAIN nd |->
        IF c = w THEN [nd[c] EXCEPT !.type = 15 - @]
        ELSE IF \E k \in DOMAIN nd[w].mChildren : nd[w].mChildren[k] = c
             THEN [nd[c] EXCEPT !.type = InvertedInputs(nd, c, w)] ELSE nd[c]]

Holds(s, x) == \E k \in DOMAIN s : s[k] = x

\* The first x makes place for the last element.
Erased(s, x) ==
    LET k == CHOOSE k \in DOMAIN s : s[k] = x /\ \A l \in 1..k-1 : s[l] # x
    IN  Front([s EXCEPT ![k] = Last(s)])
-----------------------------------------------------------------------------
Init ==
    /\ file = <<>> /\ numGates \in 1..MaxGates /\ outputCount \in 1..numGates
    /\ pc = "read" /\ i = 0
    /\ node = [w \in Wires |-> InputNode]
    /\ out = [k \in 1..outputCount |-> Unset]
    /\ added = {} /\ newWireIdx = [w \in Wires |-> Unset] /\ addStack = <<>> /\ frames = <<>>
    /\ cir = EmptyCircuit(NumInputs, 0)

Goto(label) == pc' = label /\ i' = 0
Throw == Goto("thrown") /\ UNCHANGED <<header, node, out, search, cir>>

TypeOf(kind) == CASE kind = "XOR" -> Xor [] kind = "AND" -> And [] kind = "INV" -> NA

ReadGate ==
    /\ pc = "read" /\ Len(file) < numGates
    /\ \E line \in Lines(NumInputs + Len(file)) :
        LET w == NumInputs + Len(file)
            times(p) == Len(SelectSeq(line.in, LAMBDA x : x = p))
        IN  /\ Len(file) + 1 = numGates => AnyFile \/ Supported(Append(file, line))
            /\ file' = Append(file, line)
            /\ node' = [p \in Wires |->
                  IF p = w THEN [node[p] EXCEPT !.type = TypeOf(line.kind), !.mParents = line.in]
                  ELSE [node[p] EXCEPT !.mChildren = @ \o [k \in 1..times(p) |-> w]]]
            /\ out' = IF w < outputStartIdx THEN out ELSE [out EXCEPT ![w - outputStartIdx + 1] = w]
    /\ UNCHANGED <<numGates, outputCount, pc, i, search, cir>>

ReadDone ==
    /\ pc = "read" /\ Len(file) = numGates
    /\ Goto(IF Reduce THEN "outputs" ELSE "add")
    /\ UNCHANGED <<header, node, out, search, cir>>

\* writeBris: the line of every gate.  There is none for another truth table, and that throws.
writeBris(nd) ==
    LET Kind(g) == CASE g.type = Xor -> "XOR" [] g.type = And -> "AND" [] OTHER -> "INV"
    IN  [k \in 1..numGates |-> LET g == nd[NumInputs + k - 1] IN [kind |-> Kind(g), in |-> g.mParents]]
WriteThrows(nd) == \E w \in Wires : ~IsInput(w) /\ nd[w].type \notin {Xor, And} /\ ~isInvert(nd, w)

\* removeInvertGates, first loop: an inverter that is an output is pushed into the gate
\* before it.
RemoveOutputInvert ==
    /\ pc = "outputs" /\ i < outputCount
    /\ LET w == out[i + 1]  newParent == node[w].mParents[1]
           nd == OutputInverted(node, newParent)
       IN  IF ~isInvert(node, w) THEN i' = i + 1 /\ UNCHANGED <<pc, node, out>>
           ELSE IF IsInput(newParent) \/ nd[w].type # A
           THEN Goto("thrown") /\ UNCHANGED <<node, out>>
           ELSE IF ~Holds(nd[newParent].mChildren, w) THEN Goto("undefined") /\ UNCHANGED <<node, out>>
           ELSE /\ node' = [nd EXCEPT ![newParent].mChildren = Erased(@, w)]
                /\ out' = [out EXCEPT ![i + 1] = newParent]
                /\ i' = i + 1 /\ UNCHANGED pc
    /\ UNCHANGED <<header, search, cir>>

OutputsDone == pc = "outputs" /\ i = outputCount /\ Goto("absorb")
               /\ UNCHANGED <<header, node, out, search, cir>>

\* reduceInvert of one gate: an inverter leaves the graph, another gate takes the wire
\* before the inverter.
AbsorbedParent(nd, w, k) ==
    IF k > Len(nd[w].mParents) \/ ~isInvert(nd, nd[w].mParents[k]) THEN nd
    ELSE LET p == nd[nd[w].mParents[k]].mParents[1]
         IN  [nd EXCEPT ![w].type = invert(k - 1, @), ![w].mParents[k] = p, ![p].mChildren = Append(@, w)]

DoubleInvert(w) == \E k \in DOMAIN node[w].mParents :
    LET p == node[w].mParents[k]
    IN  isInvert(node, p) /\ isInvert(node, node[p].mParents[1])

ReduceInvert ==
    /\ pc = "absorb" /\ i < numGates
    /\ LET w == NumInputs + i IN
       IF isInvert(node, w) /\ ~Holds(node[node[w].mParents[1]].mChildren, w)
       THEN Goto("undefined") /\ UNCHANGED node
       ELSE IF isInvert(node, w)
       THEN /\ node' = [node EXCEPT ![node[w].mParents[1]].mChildren = Erased(@, w)]
            /\ i' = i + 1 /\ UNCHANGED pc
       ELSE IF DoubleInvert(w) THEN Goto("thrown") /\ UNCHANGED node
       ELSE /\ node' = AbsorbedParent(AbsorbedParent(node, w, 1), w, 2)
            /\ i' = i + 1 /\ UNCHANGED pc
    /\ UNCHANGED <<header, out, search, cir>>

AbsorbDone == pc = "absorb" /\ i = numGates /\ Goto("add")
              /\ UNCHANGED <<header, node, out, search, cir>>
-----------------------------------------------------------------------------
\* toCircuit: the search starts from the inputs, the last one first.
StartSearch ==
    /\ pc = "add"
    /\ added' = 0..NumInputs-1
    /\ newWireIdx' = [w \in Wires |-> IF IsInput(w) THEN w ELSE Unset]
    /\ addStack' = [k \in 1..NumInputs |-> k - 1]
    /\ Goto("search")
    /\ UNCHANGED <<header, node, out, frames, cir>>

Frame(w, explore) == [node |-> w, explore |-> explore, stage |-> "enter", k |-> 1]
Top == Last(frames)
Return(fs) == frames' = fs
Continue(stage, k) == frames' = Front(frames) \o <<[Top EXCEPT !.stage = stage, !.k = k]>>
CallFrom(k, w, explore) ==
    frames' = Front(frames) \o <<[Top EXCEPT !.k = k], Frame(w, explore)>>

NextRoot ==
    /\ pc = "search" /\ frames = <<>> /\ addStack # <<>>
    /\ frames' = <<Frame(Last(addStack), TRUE)>>
    /\ addStack' = Front(addStack)
    /\ UNCHANGED <<header, pc, i, node, out, added, newWireIdx, cir>>

EnterUnmarked ==                                      \* fault: added is not set
    /\ pc = "search" /\ frames # <<>> /\ Top.stage = "enter"
    /\ IF Top.node \in added THEN Continue("children", 1)
       ELSE Continue("parents", 1)
    /\ UNCHANGED <<header, pc, i, node, out, added, newWireIdx, addStack, cir>>
EnterChildrenFirst ==                                 \* fault: the parents are not visited
    /\ pc = "search" /\ frames # <<>> /\ Top.stage = "enter"
    /\ IF Top.node \in added THEN Continue("children", 1) /\ UNCHANGED added
       ELSE Continue("parents", 3) /\ added' = added \cup {Top.node}
    /\ UNCHANGED <<header, pc, i, node, out, newWireIdx, addStack, cir>>

Enter ==
    /\ pc = "search" /\ frames # <<>> /\ Top.stage = "enter"
    /\ IF Top.node \in added THEN Continue("children", 1) /\ UNCHANGED added
       ELSE Continue("parents", 1) /\ added' = added \cup {Top.node}
    /\ UNCHANGED <<header, pc, i, node, out, newWireIdx, addStack, cir>>

\* A parent that was not added is, before the gate itself.
VisitParent ==
    /\ pc = "search" /\ frames # <<>> /\ Top.stage = "parents"
    /\ Top.k <= Len(node[Top.node].mParents)
    /\ LET input == node[Top.node].mParents[Top.k] IN
       IF input \in added THEN Continue("parents", Top.k + 1)
       ELSE CallFrom(Top.k + 1, input, FALSE)
    /\ UNCHANGED <<header, pc, i, node, out, added, newWireIdx, addStack, cir>>

AddNode ==
    /\ pc = "search" /\ frames # <<>> /\ Top.stage = "parents"
    /\ Top.k > Len(node[Top.node].mParents)
    /\ LET p == node[Top.node].mParents
           in0 == newWireIdx[p[1]]
           in1 == IF Len(p) = 1 THEN 0 ELSE newWireIdx[p[2]]
       IN  IF AddGateThrows(cir, in0, in1, node[Top.node].type)
           THEN Throw
           ELSE /\ cir' = AddGate(cir, in0, in1, node[Top.node].type)
                /\ newWireIdx' = [newWireIdx EXCEPT ![Top.node] = cir.mWireCount]
                /\ Continue("children", 1)
                /\ UNCHANGED <<header, pc, i, node, out, added, addStack>>

\* The children are searched at once, or left on the stack by a call that only adds.
VisitChild ==
    /\ pc = "search" /\ frames # <<>> /\ Top.stage = "children"
    /\ IF Top.k > Len(node[Top.node].mChildren)
       THEN Return(Front(frames)) /\ UNCHANGED addStack
       ELSE LET child == node[Top.node].mChildren[Top.k] IN
            IF child \in added THEN Continue("children", Top.k + 1) /\ UNCHANGED addStack
            ELSE IF Top.explore THEN CallFrom(Top.k + 1, child, TRUE) /\ UNCHANGED addStack
            ELSE Continue("children", Top.k + 1) /\ addStack' = Append(addStack, child)
    /\ UNCHANGED <<header, pc, i, node, out, added, newWireIdx, cir>>

\* The outputs, and the count of gates that readBris checks.
NonInverts == Cardinality({k \in DOMAIN file : file[k].kind # "INV"})
OldOutputs == out                                     \* fault: the wires of the file
NewOutputs == [k \in 1..outputCount |-> newWireIdx[out[k]]]

Finish ==
    /\ pc = "search" /\ frames = <<>> /\ addStack = <<>>
    /\ IF \/ \E k \in 1..outputCount : NewOutputs[k] >= cir.mWireCount
          \/ Len(cir.gates) # (IF Reduce THEN NonInverts ELSE numGates)
       THEN Goto("thrown") /\ UNCHANGED cir
       ELSE Goto("done") /\ cir' = [cir EXCEPT !.outputs = NewOutputs]
    /\ UNCHANGED <<header, node, out, search>>

Next == \/ ReadGate \/ ReadDone \/ RemoveOutputInvert \/ OutputsDone \/ ReduceInvert \/ AbsorbDone
        \/ StartSearch \/ NextRoot \/ Enter \/ VisitParent \/ AddNode \/ VisitChild \/ Finish

Spec == Init /\ [][Next]_vars
-----------------------------------------------------------------------------
Frames == [node : Wires, explore : BOOLEAN, stage : {"enter", "parents", "children"}, k : 1..2*MaxGates+2]
TypeOK ==
    /\ pc \in {"read", "outputs", "absorb", "add", "search", "done", "thrown", "undefined"}
    /\ i \in 0..MaxGates /\ added \subseteq Wires
    /\ \A w \in Wires : node[w].type \in GateType \cup {-1} /\ newWireIdx[w] \in 0..Unset
    /\ frames \in Seq(Frames) /\ addStack \in Seq(Wires)
    /\ cir.gates \in Seq(Gates(cir.mWireCount))

\* What the file says: the value of every wire on input x.
FileValue(x) ==
    LET v[w \in Wires] == IF IsInput(w) THEN x[w] ELSE
            LET g == file[w - NumInputs + 1] IN
            CASE g.kind = "XOR" -> (v[g.in[1]] + v[g.in[2]]) % 2
              [] g.kind = "AND" -> v[g.in[1]] * v[g.in[2]]
              [] g.kind = "INV" -> 1 - v[g.in[1]]
    IN  v

\* The circuit computes what the file says, on every input ("effectively not changing
\* the circuit", DagCircuit.cpp:91): inverters are absorbed and gates renumbered.
ComputesFile == pc = "done" =>
    \A x \in [0..NumInputs-1 -> {0, 1}] :
        Outputs(cir, x) = [k \in 1..outputCount |-> FileValue(x)[outputStartIdx + k - 1]]

\* The graph keeps the file: until inverters are removed it is written as it was read.
WrittenAsRead == pc \in {"done", "search"} /\ ~Reduce => ~WriteThrows(node) /\ writeBris(node) = file

\* Sharing the inputs of a circuit changes it to one of the sums of the shares.
SharesSum == pc = "done" =>
    \A x, y \in [0..NumInputs-1 -> {0, 1}] :
        Outputs(XorShared(cir), [w \in 0..2*NumInputs-1 |-> IF w < NumInputs THEN x[w] ELSE y[w - NumInputs]])
            = Outputs(cir, [w \in 0..NumInputs-1 |-> (x[w] + y[w]) % 2])

\* Every gate reads wires that have their value, and stands in the circuit once.
InOrder == /\ \A k \in DOMAIN cir.gates : /\ cir.gates[k].in0 < cir.gates[k].out
                                          /\ cir.gates[k].in1 < cir.gates[k].out
                                          /\ cir.gates[k].out = NumInputs + k - 1
           /\ \A w, u \in Wires : w # u /\ newWireIdx[w] # Unset => newWireIdx[w] # newWireIdx[u]

\* A file the reduction supports is never rejected.
NeverThrows == pc \notin {"thrown", "undefined"}

=============================================================================
