------------------------------ MODULE Circuits ------------------------------
(***************************************************************************)
(* Boolean circuits as libBDX/Circuit keeps them: gates with two inputs,   *)
(* each with the next free wire for its output.  A gate's type is the      *)
(* number whose bit a + 2b is its value on the inputs a and b (Gate.h).    *)
(***************************************************************************)
EXTENDS Integers, Sequences

Xor == 6
Nxor == 9
And == 8
NA == 5
A == 10

GateType == 0..15
\* The types AddGate takes: not the constants, and of the unary ones only na.
Gates(wires) == [in0 : 0..wires-1, in1 : 0..wires-1, out : Nat, type : GateType]

Bit(n, i) == (n \div 2^i) % 2
eval(type, i) == Bit(type, i)

\* The modifiers that make an AND out of each of the other types.
AAlpha(t) == IF t \in {1, 4, 11, 14} THEN 1 ELSE 0     \* Nor, na_And, nb_Or, Or
BAlpha(t) == IF t \in {1, 2, 13, 14} THEN 1 ELSE 0     \* Nor, nb_And, na_Or, Or
CAlpha(t) == IF t \in {7, 11, 13, 14} THEN 1 ELSE 0    \* Nand, nb_Or, na_Or, Or

EmptyCircuit(n0, n1) == [inputs |-> <<n0, n1>>, mWireCount |-> n0 + n1, gates |-> <<>>, outputs |-> <<>>]

Rejected == {10, 12, 3, 15, 0}   \* a, b, nb, One, Zero

\* The second input of an na gate may also be (u64)-1, which no caller passes.
AddGateThrows(c, in0, in1, t) == in0 > c.mWireCount \/ in1 > c.mWireCount \/ t \in Rejected

AddGateCountFirst(c, in0, in1, t) ==                  \* fault: ++mWireCount for mWireCount++
    [c EXCEPT !.gates = Append(@, [in0 |-> in0, in1 |-> in1, out |-> c.mWireCount + 1, type |-> t]),
              !.mWireCount = @ + 1]
AddGate(c, in0, in1, t) ==
    [c EXCEPT !.gates = Append(@, [in0 |-> in0, in1 |-> in1, out |-> c.mWireCount, type |-> t]),
              !.mWireCount = @ + 1]

\* evaluate: the value of every wire, gate by gate, each reading what stands there.
Values(c, x) ==
    LET n == Len(c.gates)
        v[k \in 0..n] == IF k = 0 THEN [w \in 0..c.mWireCount-1 |-> IF w \in DOMAIN x THEN x[w] ELSE 0]
                         ELSE LET g == c.gates[k]  u == v[k-1]
                              IN  [u EXCEPT ![g.out] = eval(g.type, u[g.in0] + 2 * u[g.in1])]
    IN  v[n]

\* evaluate and translate.
Outputs(c, x) == LET v == Values(c, x) IN [i \in DOMAIN c.outputs |-> v[c.outputs[i]]]

\* xorShareInputs: each input wire becomes the sum of two, one of each party.
XorSharedShort(c) ==                                  \* fault: gates move by the inputs, once
    LET n == c.inputs[1] + c.inputs[2]
        share == [i \in 1..n |-> [in0 |-> i - 1, in1 |-> n + i - 1, out |-> 2 * n + i - 1, type |-> Xor]]
        moved == [k \in DOMAIN c.gates |-> [c.gates[k] EXCEPT !.in0 = @ + n, !.in1 = @ + n, !.out = @ + 2 * n]]
    IN  [inputs |-> <<n, n>>, mWireCount |-> c.mWireCount + 2 * n, gates |-> share \o moved,
         outputs |-> [i \in DOMAIN c.outputs |-> c.outputs[i] + 2 * n]]
XorShared(c) ==
    LET n == c.inputs[1] + c.inputs[2]
        share == [i \in 1..n |-> [in0 |-> i - 1, in1 |-> n + i - 1, out |-> 2 * n + i - 1, type |-> Xor]]
        moved == [k \in DOMAIN c.gates |-> [c.gates[k] EXCEPT !.in0 = @ + 2 * n, !.in1 = @ + 2 * n, !.out = @ + 2 * n]]
    IN  [inputs |-> <<n, n>>, mWireCount |-> c.mWireCount + 2 * n, gates |-> share \o moved,
         outputs |-> [i \in DOMAIN c.outputs |-> c.outputs[i] + 2 * n]]

=============================================================================
