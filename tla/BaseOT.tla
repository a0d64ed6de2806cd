------------------------------- MODULE BaseOT -------------------------------
(***************************************************************************)
(* The base oblivious transfers (libBDX/OT/BaseOT.cpp): exec_base and      *)
(* check of two parties over a channel, nOT transfers at a time, and the   *)
(* Miracl instance of each party's thread that they compute with.          *)
(*                                                                         *)
(* The streams hold the points that are packed into them.                  *)
(***************************************************************************)
EXTENDS Integers, Sequences

CONSTANTS Q,          \* the order of the group of points
          crsG, crsH, \* the reference string: two points for each branch
          nOT,        \* transfers of a run (128 in the code)
          RoleOf,     \* <<role, role>>: "Receiver", "Sender" or "Both"
          Scalars,    \* what strong_rand can give
          Runs        \* bound: calls of exec_base on the same thread

BaseOTAssumption ==
    /\ Q \in Nat \ {0, 1}
    /\ crsG \in [0..1 -> 1..Q-1] /\ crsH \in [0..1 -> 1..Q-1]
    /\ (crsG[0] * crsH[1]) % Q # (crsG[1] * crsH[0]) % Q   \* four unrelated points
    /\ nOT \in Nat \ {0} /\ Runs \in Nat \ {0} /\ Scalars \subseteq 1..Q-1
    /\ RoleOf \in {<<"Receiver", "Sender">>, <<"Sender", "Receiver">>, <<"Both", "Both">>}

(* The dual mode cryptosystem of libBDX/OT/Math/DMC.cpp.  Points of the    *)
(* curve are a group of prime order Q, each written as its logarithm:      *)
(* adding points adds logarithms, and multiplying by a scalar multiplies.  *)
Points == 0..Q-1

Add(a, b)      == (a + b) % Q
Times(k, a)    == (k * a) % Q
MinusRaw(a, b) == a - b                               \* fault: not reduced
Minus(a, b)    == (a - b + Q) % Q
Mul2(s, a, t, b) == (s * a + t * b) % Q

\* A key pair on branch sigma.
KeyGen(sk, sigma) == <<Times(sk, crsG[sigma]), Times(sk, crsH[sigma])>>

Randomize(g, h, gd, hd, s, t) == <<Mul2(s, g, t, h), Mul2(s, gd, t, hd)>>

EncryptUnmixed(pk, m, branch, s, t) ==                \* fault: t is not used
    LET c == Randomize(crsG[branch], crsH[branch], pk[1], pk[2], s, 0) IN <<c[1], Add(c[2], m)>>
Encrypt(pk, m, branch, s, t) ==
    LET c == Randomize(crsG[branch], crsH[branch], pk[1], pk[2], s, t)
    IN  <<c[1], Add(c[2], m)>>

Decrypt(sk, c) == Minus(c[2], Times(sk, c[1]))
-----------------------------------------------------------------------------
VARIABLES pc,          \* where each party is
          precision2,  \* the Miracl instance of its thread: "null", "live" or "freed"
          chan,        \* chan[p]: what was sent to p, each message some pairs
          strm,        \* the two streams of Exec_OT
          sk, choice,  \* secret keys and receiver_inputs
          inputs,      \* sender_inputs
          outputs,     \* receiver_outputs
          idx,         \* the transfer check is at
          run,         \* calls of exec_base that have begun
          misused      \* parties that used a freed instance

vars == <<pc, precision2, chan, strm, sk, choice, inputs, outputs, idx, run, misused>>

Party == {1, 2}
Peer(p) == 3 - p
OTs == 1..nOT
IsReceiverOnly(p) == RoleOf[p] = "Receiver"           \* fault: the role is compared, not tested
IsReceiver(p) == RoleOf[p] \in {"Receiver", "Both"}
IsSender(p)   == RoleOf[p] \in {"Sender", "Both"}

None    == -1                  \* not computed yet
NoBlock == [digest |-> None]

Init ==
    /\ pc = [p \in Party |-> "exec"]
    /\ precision2 = [p \in Party |-> "null"]
    /\ chan = [p \in Party |-> <<>>]
    /\ strm = [p \in Party |-> <<<<>>, <<>>>>]
    /\ sk = [p \in Party |-> [i \in OTs |-> None]]
    /\ choice = [p \in Party |-> [i \in OTs |-> 0]]      \* reset(nOT)
    /\ inputs = [p \in Party |-> [i \in OTs |-> <<NoBlock, NoBlock>>]]
    /\ outputs = [p \in Party |-> [i \in OTs |-> NoBlock]]
    /\ idx = [p \in Party |-> 1]
    /\ run = [p \in Party |-> 0]
    /\ misused = {}

Goto(p, label) == pc' = [pc EXCEPT ![p] = label]
Send(p, msg)   == chan' = [chan EXCEPT ![Peer(p)] = Append(@, msg)]
Stream(p, k, s) == strm' = [strm EXCEPT ![p][k] = s]

\* send_if_ot_receiver and send_if_ot_sender, their sending half: the party that is not
\* addressed sends nothing, whatever its stream holds.
SendIfReceiver(p, msg) == IF IsReceiver(p) THEN Send(p, msg) ELSE UNCHANGED chan
SendIfSender(p, msg)   == IF IsSender(p) THEN Send(p, msg) ELSE UNCHANGED chan

\* The SHA1 of a packed point: one digest for one point.
Hashed(point) == [digest |-> point]

\* GetPrecision makes an instance for a thread that has none; one that was deleted is
\* still pointed to and taken for one.
GetPrecision(p) ==
    /\ precision2' = [precision2 EXCEPT ![p] = IF @ = "null" THEN "live" ELSE @]
    /\ misused' = IF precision2[p] = "freed" THEN misused \cup {p} ELSE misused

\* exec_base begins; the receiver's keys, each on the branch of its choice bit, are
\* packed into the first stream and sent.
BranchFlipped(bit) == 1 - bit                         \* fault: keys on the other branch
Branch(bit) == bit

Keys(p) ==
    /\ pc[p] = "exec" /\ run[p] < Runs
    /\ GetPrecision(p)
    /\ run' = [run EXCEPT ![p] = @ + 1]
    /\ IF IsReceiver(p)
       THEN \E bits \in [OTs -> {0, 1}], keys \in [OTs -> Scalars] :
              LET packed == [i \in OTs |-> KeyGen(keys[i], Branch(bits[i]))] IN
              /\ choice' = [choice EXCEPT ![p] = bits]
              /\ sk' = [sk EXCEPT ![p] = keys]
              /\ Stream(p, 1, packed)
              /\ SendIfReceiver(p, packed)
       ELSE SendIfReceiver(p, strm[p][1]) /\ UNCHANGED <<choice, sk, strm>>
    /\ Goto(p, "keys")
    /\ UNCHANGED <<inputs, outputs, idx>>

\* send_if_ot_receiver: a sender waits for the keys.
RecvKeys(p) ==
    /\ pc[p] = "keys"
    /\ IF IsSender(p)
       THEN /\ chan[p] # <<>>
            /\ Stream(p, 2, Head(chan[p]))
            /\ chan' = [chan EXCEPT ![p] = Tail(@)]
       ELSE UNCHANGED <<chan, strm>>
    /\ Goto(p, "encrypt")
    /\ UNCHANGED <<precision2, sk, choice, inputs, outputs, idx, run, misused>>

\* The sender draws its two messages and the randomness of the two encryptions, one
\* for each branch; all go into one message.  send_if_ot_sender: a party that is only a
\* receiver sends nothing.
CiphertextsSwapped(s, m, r) ==                        \* fault: the messages change places
    [i \in 1..2*nOT |-> LET k == (i + 1) \div 2  b == (i + 1) % 2
                        IN  Encrypt(s[k], m[k][2-b], b, r[k][b+1][1], r[k][b+1][2])]
Ciphertexts(s, m, r) ==
    [i \in 1..2*nOT |-> LET k == (i + 1) \div 2  b == (i + 1) % 2
                        IN  Encrypt(s[k], m[k][b+1], b, r[k][b+1][1], r[k][b+1][2])]

EncryptAll(p) ==
    /\ pc[p] = "encrypt"
    /\ IF IsSender(p)
       THEN \E m \in [OTs -> {v \in Scalars \X Scalars : v[1] # v[2]}],
               r \in [OTs -> (Scalars \X Scalars) \X (Scalars \X Scalars)] :
              /\ inputs' = [inputs EXCEPT ![p] = [i \in OTs |-> <<Hashed(m[i][1]), Hashed(m[i][2])>>]]
              /\ Stream(p, 1, Ciphertexts(strm[p][2], m, r))
              /\ SendIfSender(p, Ciphertexts(strm[p][2], m, r))
       ELSE SendIfSender(p, strm[p][1]) /\ UNCHANGED <<inputs, strm>>
    /\ Goto(p, "ciphertexts")
    /\ UNCHANGED <<precision2, sk, choice, outputs, idx, run, misused>>

\* The receiver unpacks both ciphertexts of a transfer and decrypts the chosen one; the
\* results are hashed and the thread's instance is deleted.
RecvAll(p) ==
    /\ pc[p] = "ciphertexts"
    /\ IF IsReceiver(p)
       THEN /\ chan[p] # <<>>
            /\ Stream(p, 2, Head(chan[p]))
            /\ chan' = [chan EXCEPT ![p] = Tail(@)]
            /\ outputs' = [outputs EXCEPT ![p] =
                 [i \in OTs |-> Hashed(Decrypt(sk[p][i], Head(chan[p])[2 * i - 1 + choice[p][i]]))]]
       ELSE UNCHANGED <<outputs, chan, strm>>
    /\ precision2' = [precision2 EXCEPT ![p] = "freed"]
    /\ Goto(p, "check")
    /\ UNCHANGED <<sk, choice, inputs, idx, run, misused>>

\* check: for each transfer the sender sends both inputs, unless they are equal, and the
\* receiver compares the one it chose; either may throw.
CheckSend(p) ==
    /\ pc[p] = "check" /\ idx[p] <= nOT
    /\ CASE ~IsSender(p) -> Goto(p, "compare") /\ UNCHANGED chan
         [] IsSender(p) /\ inputs[p][idx[p]][1] = inputs[p][idx[p]][2] -> Goto(p, "thrown") /\ UNCHANGED chan
         [] OTHER -> Goto(p, "compare") /\ Send(p, <<inputs[p][idx[p]]>>)
    /\ UNCHANGED <<precision2, strm, sk, choice, inputs, outputs, idx, run, misused>>

CheckCompare(p) ==
    /\ pc[p] = "compare"
    /\ IF IsReceiver(p)
       THEN /\ chan[p] # <<>>
            /\ chan' = [chan EXCEPT ![p] = Tail(@)]
            /\ Goto(p, IF Head(chan[p])[1][choice[p][idx[p]] + 1] # outputs[p][idx[p]]
                         THEN "thrown" ELSE "check")
       ELSE Goto(p, "check") /\ UNCHANGED chan
    /\ idx' = [idx EXCEPT ![p] = @ + 1]
    /\ UNCHANGED <<precision2, strm, sk, choice, inputs, outputs, run, misused>>

\* The thread goes on to its next base OTs, with a new object.
Again(p) ==
    /\ pc[p] = "check" /\ idx[p] > nOT
    /\ IF run[p] < Runs
       THEN /\ Goto(p, "exec")
            /\ idx' = [idx EXCEPT ![p] = 1]
            /\ sk' = [sk EXCEPT ![p] = [i \in OTs |-> None]]
            /\ choice' = [choice EXCEPT ![p] = [i \in OTs |-> 0]]
            /\ inputs' = [inputs EXCEPT ![p] = [i \in OTs |-> <<NoBlock, NoBlock>>]]
            /\ outputs' = [outputs EXCEPT ![p] = [i \in OTs |-> NoBlock]]
            /\ strm' = [strm EXCEPT ![p] = <<<<>>, <<>>>>]
       ELSE Goto(p, "done") /\ UNCHANGED <<idx, sk, choice, inputs, outputs, strm>>
    /\ UNCHANGED <<precision2, chan, run, misused>>

Step(p) == \/ Keys(p) \/ RecvKeys(p) \/ EncryptAll(p) \/ RecvAll(p)
           \/ CheckSend(p) \/ CheckCompare(p) \/ Again(p)

Next == \E p \in Party : Step(p)

Fairness == \A p \in Party : WF_vars(Step(p))
Spec == Init /\ [][Next]_vars /\ Fairness
-----------------------------------------------------------------------------
Ciphers == Points \X Points
Blocks == [digest : Points \cup {None}]
TypeOK ==
    /\ pc \in [Party -> {"exec", "keys", "encrypt", "ciphertexts", "check", "compare", "done", "thrown"}]
    /\ precision2 \in [Party -> {"null", "live", "freed"}]
    /\ sk \in [Party -> [OTs -> Scalars \cup {None}]]
    /\ choice \in [Party -> [OTs -> {0, 1}]]
    /\ inputs \in [Party -> [OTs -> Blocks \X Blocks]] /\ outputs \in [Party -> [OTs -> Blocks]]
    /\ idx \in [Party -> 1..nOT+1] /\ run \in [Party -> 0..Runs] /\ misused \subseteq Party

\* A transfer hands over the sender's message of the chosen branch, and nobody's check
\* throws: both parties pack and unpack in the same order in every role.
Transferred == \A p \in Party :
    /\ \A i \in OTs : outputs[p][i] # NoBlock /\ inputs[Peer(p)][i] # <<NoBlock, NoBlock>> /\ run[1] = run[2]
                        => outputs[p][i] = inputs[Peer(p)][i][choice[p][i] + 1]
    /\ pc[p] # "thrown"

\* Of the other message the ciphertext says nothing: every randomness that encrypts one
\* message has exactly one that gives the same ciphertext for another message.
OtherHidden == \A p \in Party, i \in OTs : sk[p][i] # None =>
    LET pk == KeyGen(sk[p][i], Branch(choice[p][i]))
        other == 1 - choice[p][i]
        Randomness == Points \X Points
    IN  \A m \in Points : {Encrypt(pk, m, other, r[1], r[2]) : r \in Randomness} = Ciphers

\* exec_base never computes with an instance that was deleted.
MiraclLive == misused = {}

\* Both parties come to the end.
Done == \A p \in Party : pc[p] = "done"
BothDone == <>Done

=============================================================================
