------------------------------ MODULE AsyncPsi ------------------------------
(***************************************************************************)
(* The asynchronous set intersection (AsyncPsiSender.cpp,                  *)
(* AsyncPsiReceiver.cpp): each party runs a thread for each of its         *)
(* elements, on a channel of that element.  A thread commits to its        *)
(* element, receives a commitment of the other party, and opens; nothing   *)
(* is opened before all commitments are there.                             *)
(*                                                                         *)
(* The share of the receiver's element i, the sender's element j and bit b *)
(* is PRF(message, j), where message is one of the two messages of OT      *)
(* <<i, b>>: <<i, b, c, j>> stands for it.  The blinds are zero in the     *)
(* code.  init has run.                                                    *)
(***************************************************************************)
EXTENDS Integers, Sequences, FiniteSetTheorems, TLAPS

CONSTANTS Size,        \* inputSize
          WordSize,    \* mWordSize
          Masks        \* the random words: OT choices of the receiver, permutations of the sender

Bits == [1..WordSize -> {0, 1}]
Idx == 1..Size
AsyncPsiAssumption == Size \in Nat \ {0} /\ WordSize \in Nat \ {0} /\ Masks \subseteq Bits

Party == {"sender", "receiver"}

VARIABLES input,                     \* the elements of both parties
          choice, permuted,          \* mChoiceBits; the sender's mMyPermute of init
          pc,                        \* where each thread is
          rem,                       \* what its decrement returned
          mMyPermute, mTheirPermute, \* of both parties
          mRemainingInputCommits,
          mCommited,                 \* how often the promise was set
          mOpenBuff,                 \* of the sender
          chl,                       \* what is under way to each thread
          j, ret                     \* of the receiver's open

vars == <<input, choice, permuted, pc, rem, mMyPermute, mTheirPermute, mRemainingInputCommits,
          mCommited, mOpenBuff, chl, j, ret>>
constants == <<input, choice, permuted>>

Other(p) == IF p = "sender" THEN "receiver" ELSE "sender"
Plus(a, b) == [k \in 1..WordSize |-> (a[k] + b[k]) % 2]
Zero == [k \in 1..WordSize |-> 0]

CommitsOnce == Size                                   \* fault: the received ones are not counted
Commits == 2 * Size

Init ==
    /\ input \in [Party -> [Idx -> Bits]]
    /\ choice \in [Idx -> Masks] /\ permuted \in [Idx -> Masks]
    /\ pc = [p \in Party |-> [i \in Idx |-> "commitSend"]]
    /\ rem = [p \in Party |-> [i \in Idx |-> Commits]]
    /\ mMyPermute = [p \in Party |-> IF p = "sender" THEN permuted ELSE choice]
    /\ mTheirPermute = [p \in Party |-> [i \in Idx |-> Zero]]
    /\ mRemainingInputCommits = [p \in Party |-> Commits]
    /\ mCommited = [p \in Party |-> 0]
    /\ mOpenBuff = [i \in Idx |-> <<>>]
    /\ chl = [p \in Party |-> [i \in Idx |-> <<>>]]
    /\ j = [i \in Idx |-> 1] /\ ret = [i \in Idx |-> FALSE]

At(p, i, label) == pc[p][i] = label
Goto(p, i, label) == pc' = [pc EXCEPT ![p][i] = label]

\* CommitSend: the permutation, or the choice, is corrected by the input and sent.
CommitSend(p, i) ==
    /\ At(p, i, "commitSend")
    /\ mMyPermute' = [mMyPermute EXCEPT ![p][i] = Plus(@, input[p][i])]
    /\ chl' = [chl EXCEPT ![Other(p)][i] = Append(@, mMyPermute'[p][i])]
    /\ Goto(p, i, "sent")
    /\ UNCHANGED <<constants, rem, mTheirPermute, mRemainingInputCommits, mCommited, mOpenBuff, j, ret>>

Decremented(p, i, label) ==
    /\ mRemainingInputCommits' = [mRemainingInputCommits EXCEPT ![p] = @ - 1]
    /\ rem' = [rem EXCEPT ![p][i] = mRemainingInputCommits'[p]]
    /\ Goto(p, i, label)

LastOrBefore(r) == r <= 1                             \* fault
Last0(r) == r = 0

SetBySend(p, i, label) ==                             \* fault: a receive never does
    /\ mCommited' = [mCommited EXCEPT ![p] = IF Last0(rem[p][i]) /\ label = "commitRecv" THEN @ + 1 ELSE @]
    /\ Goto(p, i, label)
\* The thread that counts down to zero sets the promise.
SetIfLast(p, i, label) ==
    /\ mCommited' = [mCommited EXCEPT ![p] = IF Last0(rem[p][i]) THEN @ + 1 ELSE @]
    /\ Goto(p, i, label)

CountSent(p, i) ==
    /\ At(p, i, "sent") /\ Decremented(p, i, "sentCounted")
    /\ UNCHANGED <<constants, mMyPermute, mTheirPermute, mCommited, mOpenBuff, chl, j, ret>>
SetSent(p, i) ==
    /\ At(p, i, "sentCounted") /\ SetIfLast(p, i, "commitRecv")
    /\ UNCHANGED <<constants, rem, mMyPermute, mTheirPermute, mRemainingInputCommits, mOpenBuff, chl, j, ret>>

CommitRecv(p, i) ==
    /\ At(p, i, "commitRecv") /\ chl[p][i] # <<>>
    /\ mTheirPermute' = [mTheirPermute EXCEPT ![p][i] = Head(chl[p][i])]
    /\ chl' = [chl EXCEPT ![p][i] = Tail(@)]
    /\ Goto(p, i, "received")
    /\ UNCHANGED <<constants, rem, mMyPermute, mRemainingInputCommits, mCommited, mOpenBuff, j, ret>>
CountReceived(p, i) ==
    /\ At(p, i, "received") /\ Decremented(p, i, "receivedCounted")
    /\ UNCHANGED <<constants, mMyPermute, mTheirPermute, mCommited, mOpenBuff, chl, j, ret>>
SetReceived(p, i) ==
    /\ At(p, i, "receivedCounted") /\ SetIfLast(p, i, "wait")
    /\ UNCHANGED <<constants, rem, mMyPermute, mTheirPermute, mRemainingInputCommits, mOpenBuff, chl, j, ret>>

\* The sender waits unless it was the last, the receiver unless the counter is zero.
NoWait(p, i) == TRUE                                  \* fault
Waited(p, i) ==
    \/ mCommited[p] > 0
    \/ p = "sender" /\ rem[p][i] = 0
    \/ p = "receiver" /\ mRemainingInputCommits[p] = 0

Share(i, k, b, bit) == <<i, b, (permuted[k][b] + bit) % 2, k>>    \* mShares

\* AsyncCommitRecv ends with the shares that the commitments choose, and open sends them.
SharesOfOwn(i, k) == [b \in 1..WordSize |->           \* fault: mMyPermute[i]
    Share(i, k, b, (mTheirPermute["sender"][i][b] + mMyPermute["sender"][i][b]) % 2)]
SharesOfTheirs(i, k) == [b \in 1..WordSize |->        \* fault: the own permutation is left out
    Share(i, k, b, mTheirPermute["sender"][i][b])]
OpenShares(i, k) == [b \in 1..WordSize |->
    Share(i, k, b, (mTheirPermute["sender"][i][b] + mMyPermute["sender"][k][b]) % 2)]

Prepare(i) ==
    /\ At("sender", i, "wait") /\ Waited("sender", i)
    /\ mOpenBuff' = [mOpenBuff EXCEPT ![i] = [k \in Idx |-> OpenShares(i, k)]]
    /\ Goto("sender", i, "open")
    /\ UNCHANGED <<constants, rem, mMyPermute, mTheirPermute, mRemainingInputCommits, mCommited, chl, j, ret>>

OpenSend(i) ==
    /\ At("sender", i, "open")
    /\ chl' = [chl EXCEPT !["receiver"][i] = @ \o mOpenBuff[i]]
    /\ mOpenBuff' = [mOpenBuff EXCEPT ![i] = <<>>]
    /\ Goto("sender", i, "done")
    /\ UNCHANGED <<constants, rem, mMyPermute, mTheirPermute, mRemainingInputCommits, mCommited, j, ret>>

OpenWait(i) ==
    /\ At("receiver", i, "wait") /\ Waited("receiver", i)
    /\ Goto("receiver", i, "open")
    /\ UNCHANGED <<constants, rem, mMyPermute, mTheirPermute, mRemainingInputCommits, mCommited, mOpenBuff, chl, j, ret>>

\* The share must be the one committed to at the bit that both permutations give.
Opens(i, shares) == \A b \in 1..WordSize :
    shares[b] = Share(i, j[i], b, (mMyPermute["receiver"][i][b] + mTheirPermute["receiver"][j[i]][b]) % 2)
Mine(i) == [b \in 1..WordSize |-> <<i, b, choice[i][b], j[i]>>]

OpenRecv(i) ==
    /\ At("receiver", i, "open") /\ chl["receiver"][i] # <<>>
    /\ LET shares == Head(chl["receiver"][i]) IN
       IF ~Opens(i, shares)
       THEN Goto("receiver", i, "thrown") /\ UNCHANGED <<ret, j>>
       ELSE /\ ret' = [ret EXCEPT ![i] = @ \/ shares = Mine(i)]
            /\ j' = [j EXCEPT ![i] = @ + 1]
            /\ Goto("receiver", i, IF j[i] = Size THEN "done" ELSE "open")
    /\ chl' = [chl EXCEPT !["receiver"][i] = Tail(@)]
    /\ UNCHANGED <<constants, rem, mMyPermute, mTheirPermute, mRemainingInputCommits, mCommited, mOpenBuff>>

Step(p, i) == \/ CommitSend(p, i) \/ CountSent(p, i) \/ SetSent(p, i)
              \/ CommitRecv(p, i) \/ CountReceived(p, i) \/ SetReceived(p, i)
              \/ (p = "sender" /\ (Prepare(i) \/ OpenSend(i)))
              \/ (p = "receiver" /\ (OpenWait(i) \/ OpenRecv(i)))
Next == \E p \in Party, i \in Idx : Step(p, i)

\* Every thread runs when it can.
Spec == Init /\ [][Next]_vars /\ \A p \in Party, i \in Idx : WF_vars(Step(p, i))
-----------------------------------------------------------------------------
TypeOK ==
    /\ \A p \in Party, i \in Idx :
        /\ pc[p][i] \in {"commitSend", "sent", "sentCounted", "commitRecv", "received", "receivedCounted",
                         "wait", "open", "done", "thrown"}
        /\ rem[p][i] \in 0..2*Size
        /\ mMyPermute[p][i] \in Bits /\ mTheirPermute[p][i] \in Bits
    /\ mRemainingInputCommits \in [Party -> 0..2*Size]
    /\ \A i \in Idx : j[i] \in 1..Size+1 /\ ret[i] \in BOOLEAN

\* The receiver finds an element if, and only if, the sender has it, whichever thread was
\* first; no commitment is opened wrongly.
FindsExactly == \A i \in Idx :
    /\ pc["receiver"][i] # "thrown"
    /\ pc["receiver"][i] = "done" => ret[i] = (\E k \in Idx : input["sender"][k] = input["receiver"][i])

\* A share is sent only when every element of both parties is committed to.
CommittedFirst ==
    (\E i \in Idx : mOpenBuff[i] # <<>> \/ pc["sender"][i] = "done") =>
        \A p \in Party, i \in Idx : pc[p][i] # "commitSend"

\* Setting a promise twice throws.
SetOnce == \A p \in Party : mCommited[p] <= 1

\* Nobody waits for a commitment for ever.
Done == \A p \in Party, i \in Idx : pc[p][i] = "done"
AllDone == <>Done

-----------------------------------------------------------------------------
(* Theorems. IInv is the inductive invariant: types, the countdowns, who sets *)
(* the promises, the commitments, the channels, and what was found so far.    *)

Labels == {"commitSend", "sent", "sentCounted", "commitRecv", "received", "receivedCounted",
           "wait", "open", "done", "thrown"}
\* The other's commitment is not received yet.
Early  == {"commitSend", "sent", "sentCounted", "commitRecv"}

\* Shares, and all that is sent.
Tags == Idx \X (1..WordSize) \X {0, 1} \X Idx
Messages == Bits \cup [1..WordSize -> Tags]

TypeInv ==
    /\ input \in [Party -> [Idx -> Bits]]
    /\ choice \in [Idx -> Bits] /\ permuted \in [Idx -> Bits]
    /\ pc \in [Party -> [Idx -> Labels]]
    /\ rem \in [Party -> [Idx -> 0..2*Size]]
    /\ mMyPermute \in [Party -> [Idx -> Bits]]
    /\ mTheirPermute \in [Party -> [Idx -> Bits]]
    /\ mRemainingInputCommits \in [Party -> 0..2*Size]
    /\ mCommited \in [Party -> Nat]
    /\ mOpenBuff \in [Idx -> Seq(Messages)]
    /\ chl \in [Party -> [Idx -> Seq(Messages)]]
    /\ j \in [Idx -> 1..Size+1]
    /\ ret \in [Idx -> BOOLEAN]

\* The countdown counts the commitments that are neither sent nor received yet.
ToSend(p) == {i \in Idx : pc[p][i] \in {"commitSend", "sent"}}
ToReceive(p) == {i \in Idx : pc[p][i] \in Early \cup {"received"}}
CountInv == \A p \in Party :
    mRemainingInputCommits[p] = Cardinality(ToSend(p)) + Cardinality(ToReceive(p))

\* One thread at most has brought it to zero; the promise is set by that thread, after that.
Once(p) ==
    /\ mCommited[p] <= 1 /\ (mCommited[p] > 0 => mRemainingInputCommits[p] = 0)
    /\ \A i \in Idx : rem[p][i] >= mRemainingInputCommits[p]
    /\ \A i \in Idx : rem[p][i] = 0 /\ pc[p][i] \in {"sentCounted", "receivedCounted"} => mCommited[p] = 0
    /\ \A i \in Idx : pc[p][i] \in {"open", "done"} => mRemainingInputCommits[p] = 0
    /\ \A i, k \in Idx : rem[p][i] = 0 /\ rem[p][k] = 0 => i = k
OnceInv == \A p \in Party : Once(p)

\* What a thread commits to, and the shares that the commitments choose.
Blind(p, i) == IF p = "sender" THEN permuted[i] ELSE choice[i]
Commitment(p, i) == Plus(Blind(p, i), input[p][i])
Chosen(i, k) == [b \in 1..WordSize |->
    <<i, b, (choice[i][b] + input["receiver"][i][b] + input["sender"][k][b]) % 2, k>>]

\* Where the commitments are.
Committed(p, i) ==
    /\ mMyPermute[p][i] = IF pc[p][i] = "commitSend" THEN Blind(p, i) ELSE Commitment(p, i)
    /\ pc[p][i] \notin Early => /\ pc[Other(p)][i] # "commitSend"
                                /\ mTheirPermute[p][i] = Commitment(Other(p), i)
CommitInv == \A p \in Party, i \in Idx : Committed(p, i)

\* What is under way: a commitment that is not received, then the shares not read yet.
Under(p, i) == IF pc[Other(p)][i] # "commitSend" /\ pc[p][i] \in Early THEN 1 ELSE 0
Unread(p, i) == IF p = "receiver" /\ pc["sender"][i] = "done" THEN Size - j[i] + 1 ELSE 0
Channel(p, i) ==
    /\ Len(chl[p][i]) = Under(p, i) + Unread(p, i)
    /\ Under(p, i) = 1 => chl[p][i][1] = Commitment(Other(p), i)
    /\ \A n \in 1..Unread(p, i) : chl[p][i][Under(p, i) + n] = Chosen(i, j[i] + n - 1)
Opened(i) == [k \in Idx |-> Chosen(i, k)]
Buffer(i) == mOpenBuff[i] = IF pc["sender"][i] = "open" THEN Opened(i) ELSE <<>>
ChannelInv == (\A p \in Party, i \in Idx : Channel(p, i)) /\ (\A i \in Idx : Buffer(i))

\* What the receiver has found so far.
Found(i) ==
    /\ pc["receiver"][i] # "thrown"
    /\ j[i] = Size + 1 <=> pc["receiver"][i] = "done"
    /\ pc["receiver"][i] \notin {"open", "done"} \/ pc["sender"][i] # "done" => j[i] = 1
    /\ ret[i] <=> \E k \in 1..j[i]-1 : input["sender"][k] = input["receiver"][i]
FoundInv == \A i \in Idx : Found(i)

IInv == TypeInv /\ CountInv /\ OnceInv /\ CommitInv /\ ChannelInv /\ FoundInv

\* Sums of words, and a message in a queue.
LEMMA Words ==
    ASSUME AsyncPsiAssumption
    PROVE  /\ \A a, b \in Bits : Plus(a, b) \in Bits
           /\ Zero \in Bits /\ Masks \subseteq Bits /\ WordSize \in Nat \ {0} /\ Size \in Nat \ {0}
  BY DEF AsyncPsiAssumption, Plus, Zero, Bits

\* One thread moves.
LEMMA Moved ==
    ASSUME TypeInv, NEW p \in Party, NEW i \in Idx, NEW l \in Labels, Goto(p, i, l)
    PROVE  /\ pc' \in [Party -> [Idx -> Labels]] /\ pc'[p][i] = l
           /\ \A q \in Party, k \in Idx : q # p \/ k # i => pc'[q][k] = pc[q][k]
  BY DEF TypeInv, Goto

-----------------------------------------------------------------------------
(* The countdown. *)

\* There is something to count down while a thread has not done so.
LEMMA Counted ==
    ASSUME AsyncPsiAssumption, TypeInv, CountInv, NEW p \in Party
    PROVE  /\ IsFiniteSet(ToSend(p)) /\ IsFiniteSet(ToReceive(p))
           /\ Cardinality(ToSend(p)) \in Nat /\ Cardinality(ToReceive(p)) \in Nat
           /\ mRemainingInputCommits[p] = Cardinality(ToSend(p)) + Cardinality(ToReceive(p))
           /\ \A i \in ToSend(p) : Cardinality(ToSend(p)) > 0
           /\ \A i \in ToReceive(p) : Cardinality(ToReceive(p)) > 0
  <1>1. IsFiniteSet(Idx)
    BY FS_Interval DEF Idx, AsyncPsiAssumption
  <1>2. IsFiniteSet(ToSend(p)) /\ IsFiniteSet(ToReceive(p))
    BY <1>1, FS_Subset DEF ToSend, ToReceive
  <1>3. Cardinality(ToSend(p)) \in Nat /\ Cardinality(ToReceive(p)) \in Nat
    BY <1>2, FS_CardinalityType
  <1>4. \A S : IsFiniteSet(S) /\ Cardinality(S) = 0 => S = {}
    BY FS_EmptySet
  <1> QED BY <1>2, <1>3, <1>4 DEF CountInv

\* A decrement is of one commitment.
LEMMA CountsDown ==
    ASSUME AsyncPsiAssumption, TypeInv, CountInv, NEW p \in Party, NEW i \in Idx,
           CountSent(p, i) \/ CountReceived(p, i)
    PROVE  /\ CountInv'
           /\ mRemainingInputCommits[p] > 0
           /\ mRemainingInputCommits' \in [Party -> 0..2*Size]
           /\ mRemainingInputCommits'[p] = mRemainingInputCommits[p] - 1
           /\ rem' \in [Party -> [Idx -> 0..2*Size]]
  <1> DEFINE l == IF CountSent(p, i) THEN "sentCounted" ELSE "receivedCounted"
  <1>1. Decremented(p, i, l) /\ Goto(p, i, l) /\ l \in Labels
    BY DEF CountSent, CountReceived, Decremented, Labels, At
  <1>2. /\ pc'[p][i] = l
        /\ \A q \in Party, k \in Idx : q # p \/ k # i => pc'[q][k] = pc[q][k]
    BY <1>1, Moved
  <1>3. IF CountSent(p, i) THEN pc[p][i] = "sent" ELSE pc[p][i] = "received"
    BY DEF CountSent, CountReceived, At
  <1>4. CASE CountSent(p, i)
    <2>1. i \in ToSend(p) /\ ToSend(p)' = ToSend(p) \ {i} /\ ToReceive(p)' = ToReceive(p)
      BY <1>2, <1>3, <1>4 DEF ToSend, ToReceive, Early
    <2>2. Cardinality(ToSend(p)') = Cardinality(ToSend(p)) - 1
      BY <2>1, Counted, FS_RemoveElement
    <2> QED
      <3>1. mRemainingInputCommits[p] > 0
        BY <2>1, Counted
      <3>2. mRemainingInputCommits' = [mRemainingInputCommits EXCEPT ![p] = @ - 1]
            /\ rem' = [rem EXCEPT ![p][i] = mRemainingInputCommits'[p]]
        BY <1>1 DEF Decremented
      <3>3. /\ mRemainingInputCommits'[p] = mRemainingInputCommits[p] - 1
            /\ mRemainingInputCommits'[p] \in 0..2*Size
            /\ mRemainingInputCommits' \in [Party -> 0..2*Size]
        BY <3>1, <3>2, Words DEF TypeInv
      <3>4. rem' \in [Party -> [Idx -> 0..2*Size]]
        BY <3>2, <3>3 DEF TypeInv
      <3>5. \A q \in Party \ {p} : ToSend(q)' = ToSend(q) /\ ToReceive(q)' = ToReceive(q)
                                   /\ mRemainingInputCommits'[q] = mRemainingInputCommits[q]
        BY <1>2, <3>2 DEF ToSend, ToReceive, TypeInv
      <3>6. ASSUME NEW q \in Party
            PROVE  mRemainingInputCommits'[q] = Cardinality(ToSend(q)') + Cardinality(ToReceive(q)')
        <4>1. CASE q = p
          <5>1. mRemainingInputCommits[p] = Cardinality(ToSend(p)) + Cardinality(ToReceive(p))
            BY DEF CountInv
          <5>2. Cardinality(ToSend(p)) \in Nat /\ Cardinality(ToReceive(p)) \in Nat
            BY Counted
          <5> QED BY <4>1, <5>1, <5>2, <2>1, <2>2, <3>3
        <4>2. CASE q # p
          BY <4>2, <3>5 DEF CountInv
        <4> QED BY <4>1, <4>2
      <3>7. CountInv'
        BY <3>6 DEF CountInv
      <3> QED BY <3>1, <3>3, <3>4, <3>7
  <1>5. CASE ~CountSent(p, i)
    <2>1. i \in ToReceive(p) /\ ToReceive(p)' = ToReceive(p) \ {i} /\ ToSend(p)' = ToSend(p)
      BY <1>2, <1>3, <1>5 DEF ToSend, ToReceive, Early
    <2>2. Cardinality(ToReceive(p)') = Cardinality(ToReceive(p)) - 1
      BY <2>1, Counted, FS_RemoveElement
    <2> QED
      <3>1. mRemainingInputCommits[p] > 0
        BY <2>1, Counted
      <3>2. mRemainingInputCommits' = [mRemainingInputCommits EXCEPT ![p] = @ - 1]
            /\ rem' = [rem EXCEPT ![p][i] = mRemainingInputCommits'[p]]
        BY <1>1 DEF Decremented
      <3>3. /\ mRemainingInputCommits'[p] = mRemainingInputCommits[p] - 1
            /\ mRemainingInputCommits'[p] \in 0..2*Size
            /\ mRemainingInputCommits' \in [Party -> 0..2*Size]
        BY <3>1, <3>2, Words DEF TypeInv
      <3>4. rem' \in [Party -> [Idx -> 0..2*Size]]
        BY <3>2, <3>3 DEF TypeInv
      <3>5. \A q \in Party \ {p} : ToSend(q)' = ToSend(q) /\ ToReceive(q)' = ToReceive(q)
                                   /\ mRemainingInputCommits'[q] = mRemainingInputCommits[q]
        BY <1>2, <3>2 DEF ToSend, ToReceive, TypeInv
      <3>6. ASSUME NEW q \in Party
            PROVE  mRemainingInputCommits'[q] = Cardinality(ToSend(q)') + Cardinality(ToReceive(q)')
        <4>1. CASE q = p
          <5>1. mRemainingInputCommits[p] = Cardinality(ToSend(p)) + Cardinality(ToReceive(p))
            BY DEF CountInv
          <5>2. Cardinality(ToSend(p)) \in Nat /\ Cardinality(ToReceive(p)) \in Nat
            BY Counted
          <5> QED BY <4>1, <5>1, <5>2, <2>1, <2>2, <3>3
        <4>2. CASE q # p
          BY <4>2, <3>5 DEF CountInv
        <4> QED BY <4>1, <4>2
      <3>7. CountInv'
        BY <3>6 DEF CountInv
      <3> QED BY <3>1, <3>3, <3>4, <3>7
  <1> QED BY <1>4, <1>5

\* When the countdown is at zero, all commitments are sent and received.
LEMMA AllThere ==
    ASSUME AsyncPsiAssumption, TypeInv, CountInv, NEW p \in Party, mRemainingInputCommits[p] = 0
    PROVE  \A k \in Idx : pc[p][k] \notin Early \cup {"received"}
  <1>1. ToReceive(p) = {}
    BY Counted
  <1> QED BY <1>1 DEF ToReceive

\* Who waits no longer knows that it is.
LEMMA Waiting ==
    ASSUME AsyncPsiAssumption, TypeInv, OnceInv, NEW p \in Party, NEW i \in Idx, Waited(p, i)
    PROVE  mRemainingInputCommits[p] = 0
  <1>1. /\ mCommited[p] > 0 => mRemainingInputCommits[p] = 0
        /\ rem[p][i] >= mRemainingInputCommits[p]
    BY DEF OnceInv, Once
  <1>2. mRemainingInputCommits[p] \in Nat /\ rem[p][i] \in Nat
    BY Words DEF TypeInv
  <1> QED BY <1>1, <1>2 DEF Waited

\* The thread that moves does not count.
LEMMA NotCounted ==
    ASSUME TypeInv, CountInv, NEW p \in Party, NEW i \in Idx, NEW l \in Labels,
           Goto(p, i, l), UNCHANGED mRemainingInputCommits,
           pc[p][i] \in {"commitSend", "sent"} <=> l \in {"commitSend", "sent"},
           pc[p][i] \in Early \cup {"received"} <=> l \in Early \cup {"received"}
    PROVE  CountInv'
  <1>1. /\ pc'[p][i] = l
        /\ \A q \in Party, k \in Idx : q # p \/ k # i => pc'[q][k] = pc[q][k]
    BY Moved
  <1>2. \A q \in Party : ToSend(q)' = ToSend(q) /\ ToReceive(q)' = ToReceive(q)
    BY <1>1 DEF ToSend, ToReceive, Early
  <1> QED BY <1>2 DEF CountInv

\* Nor does it set the promise.
LEMMA NotSet ==
    ASSUME TypeInv, OnceInv, NEW p \in Party, NEW i \in Idx, NEW l \in Labels,
           Goto(p, i, l), UNCHANGED <<rem, mRemainingInputCommits, mCommited>>,
           l \notin {"sentCounted", "receivedCounted"},
           l \in {"open", "done"} => mRemainingInputCommits[p] = 0
    PROVE  OnceInv'
  <1>1. /\ pc'[p][i] = l
        /\ \A q \in Party, k \in Idx : q # p \/ k # i => pc'[q][k] = pc[q][k]
    BY Moved
  <1> QED BY <1>1 DEF OnceInv, Once

-----------------------------------------------------------------------------
(* Commitments and shares. *)

\* Parity of sums: a commitment added to a commitment leaves the choice and both elements.
LEMMA Parity ==
    /\ \A a, b \in {0, 1} : (a + b) % 2 = IF a = b THEN 0 ELSE 1
    /\ \A a, b, c, d \in {0, 1} :
           /\ (a + ((((b + c) % 2) + ((a + d) % 2)) % 2)) % 2 = (b + c + d) % 2
           /\ (b + c + d) % 2 \in {0, 1}
           /\ (b + c + d) % 2 = b <=> c = d
  OBVIOUS

\* The shares the commitments choose are those of the choice alone if, and only if, the elements are equal.
LEMMA ChosenShares ==
    ASSUME AsyncPsiAssumption, TypeInv, NEW i \in Idx, NEW k \in Idx
    PROVE  /\ Chosen(i, k) \in [1..WordSize -> Tags]
           /\ \A b \in 1..WordSize :
                  Share(i, k, b, (Commitment("receiver", i)[b] + Commitment("sender", k)[b]) % 2)
                      = Chosen(i, k)[b]
           /\ Chosen(i, k) = [b \in 1..WordSize |-> <<i, b, choice[i][b], k>>]
                  <=> input["sender"][k] = input["receiver"][i]
  <1> DEFINE c == choice[i]  r == input["receiver"][i]  s == input["sender"][k]  w == permuted[k]
  <1>1. c \in Bits /\ r \in Bits /\ s \in Bits /\ w \in Bits
    BY DEF TypeInv, Party
  <1> HIDE DEF c, r, s, w
  <1>2. /\ \A b \in 1..WordSize : c[b] \in {0, 1} /\ r[b] \in {0, 1} /\ s[b] \in {0, 1} /\ w[b] \in {0, 1}
        /\ c = [b \in 1..WordSize |-> c[b]] /\ r = [b \in 1..WordSize |-> r[b]]
        /\ s = [b \in 1..WordSize |-> s[b]]
    BY <1>1 DEF Bits
  <1>3. Chosen(i, k) = [b \in 1..WordSize |-> <<i, b, (c[b] + r[b] + s[b]) % 2, k>>]
    BY DEF Chosen, c, r, s
  <1>4. Chosen(i, k) \in [1..WordSize -> Tags]
    <2>1. \A b \in 1..WordSize : (c[b] + r[b] + s[b]) % 2 \in {0, 1}
      BY <1>2, Parity
    <2> QED BY <1>3, <2>1 DEF Tags
  <1>5. ASSUME NEW b \in 1..WordSize
        PROVE  Share(i, k, b, (Commitment("receiver", i)[b] + Commitment("sender", k)[b]) % 2)
                   = Chosen(i, k)[b]
    <2>1. Commitment("receiver", i)[b] = (c[b] + r[b]) % 2 /\ Commitment("sender", k)[b] = (w[b] + s[b]) % 2
      BY DEF Commitment, Blind, Plus, c, r, s, w
    <2>2. (w[b] + ((((c[b] + r[b]) % 2) + ((w[b] + s[b]) % 2)) % 2)) % 2 = (c[b] + r[b] + s[b]) % 2
      BY <1>2, Parity
    <2> QED BY <1>3, <2>1, <2>2 DEF Share, w
  <1>6. Chosen(i, k) = [b \in 1..WordSize |-> <<i, b, c[b], k>>] <=> s = r
    <2>1. \A b \in 1..WordSize : (c[b] + r[b] + s[b]) % 2 = c[b] <=> r[b] = s[b]
      BY <1>2, Parity
    <2>2. Chosen(i, k) = [b \in 1..WordSize |-> <<i, b, c[b], k>>]
              <=> \A b \in 1..WordSize : (c[b] + r[b] + s[b]) % 2 = c[b]
      BY <1>3
    <2>3. s = r <=> \A b \in 1..WordSize : r[b] = s[b]
      BY <1>2
    <2> QED BY <2>1, <2>2, <2>3
  <1> QED BY <1>4, <1>5, <1>6 DEF c, r, s

\* What a thread of the sender opens: a row of shares for each element of the sender.
LEMMA OpenedShares ==
    ASSUME AsyncPsiAssumption, TypeInv, NEW i \in Idx
    PROVE  /\ Opened(i) \in Seq(Messages) /\ Len(Opened(i)) = Size
           /\ \A k \in Idx : Opened(i)[k] = Chosen(i, k)
  <1>1. \A k \in Idx : Chosen(i, k) \in Messages
    BY ChosenShares DEF Messages
  <1>2. /\ Opened(i) \in [1..Size -> Messages] /\ Size \in Nat
        /\ \A k \in Idx : Opened(i)[k] = Chosen(i, k)
    BY <1>1, Words DEF Opened, Idx
  <1> QED BY <1>2

\* A step between labels that no channel and no share depends on.
LEMMA Counting ==
    ASSUME TypeInv, CommitInv, ChannelInv, FoundInv, NEW p \in Party, NEW i \in Idx, NEW l,
           pc[p][i] \in {"sent", "sentCounted", "commitRecv", "received", "receivedCounted"},
           l \in {"sent", "sentCounted", "commitRecv", "received", "receivedCounted", "wait"},
           pc[p][i] \in Early <=> l \in Early, Goto(p, i, l),
           UNCHANGED <<constants, mMyPermute, mTheirPermute, mOpenBuff, chl, j, ret>>
    PROVE  CommitInv' /\ ChannelInv' /\ FoundInv'
  <1>1. /\ pc'[p][i] = l
        /\ \A q \in Party, k \in Idx : q # p \/ k # i => pc'[q][k] = pc[q][k]
    BY Moved DEF Labels
  <1>2. \A q \in Party, k \in Idx :
            /\ pc'[q][k] \in Early <=> pc[q][k] \in Early
            /\ \A a \in {"commitSend", "open", "done", "thrown"} : pc'[q][k] = a <=> pc[q][k] = a
    BY <1>1 DEF Early
  <1>3. \A q \in Party : Other(q) \in Party
    BY DEF Party, Other
  <1>4. \A q \in Party, k \in Idx : Blind(q, k)' = Blind(q, k) /\ Commitment(q, k)' = Commitment(q, k)
    BY DEF constants, Blind, Commitment, Plus
  <1>5. \A n, k : Chosen(n, k)' = Chosen(n, k) /\ Opened(n)' = Opened(n)
    BY DEF constants, Chosen, Opened
  <1>6. CommitInv'
    BY <1>2, <1>3, <1>4 DEF CommitInv, Committed
  <1>7. \A q \in Party, k \in Idx : Under(q, k)' = Under(q, k) /\ Unread(q, k)' = Unread(q, k)
    BY <1>2, <1>3 DEF Under, Unread, Party
  <1>8. ChannelInv'
    <2>1. \A q \in Party, k \in Idx : Channel(q, k)'
      BY <1>3, <1>4, <1>5, <1>7 DEF ChannelInv, Channel
    <2>2. \A k \in Idx : Buffer(k)'
      BY <1>2, <1>5 DEF ChannelInv, Party, Buffer
    <2> QED BY <2>1, <2>2 DEF ChannelInv
  <1>9. FoundInv'
    BY <1>2 DEF FoundInv, Found, Party, constants
  <1> QED BY <1>6, <1>8, <1>9

-----------------------------------------------------------------------------
(* The invariant, action by action. *)

\* The countdown: no thread is past its wait, and nothing is set, while it goes on.
LEMMA CountStep ==
    ASSUME AsyncPsiAssumption, IInv, NEW p \in Party, NEW i \in Idx,
           CountSent(p, i) \/ CountReceived(p, i)
    PROVE  IInv'
  <1> USE DEF IInv
  <1>1. PICK l \in {"sentCounted", "receivedCounted"} :
            /\ Decremented(p, i, l) /\ Goto(p, i, l)
            /\ pc[p][i] = IF l = "sentCounted" THEN "sent" ELSE "received"
            /\ UNCHANGED <<constants, mMyPermute, mTheirPermute, mCommited, mOpenBuff, chl, j, ret>>
    BY DEF CountSent, CountReceived, Decremented, At
  <1>2. l \in Labels
    BY DEF Labels
  <1>3. /\ CountInv'
        /\ mRemainingInputCommits[p] > 0
        /\ mRemainingInputCommits' \in [Party -> 0..2*Size]
        /\ mRemainingInputCommits'[p] = mRemainingInputCommits[p] - 1
        /\ rem' \in [Party -> [Idx -> 0..2*Size]]
    BY CountsDown
  <1>4. /\ pc' \in [Party -> [Idx -> Labels]] /\ pc'[p][i] = l
        /\ \A q \in Party, k \in Idx : q # p \/ k # i => pc'[q][k] = pc[q][k]
    BY <1>1, <1>2, Moved
  <1>5. TypeInv'
    BY <1>1, <1>3, <1>4 DEF TypeInv, constants
  <1>6. CommitInv' /\ ChannelInv' /\ FoundInv'
    BY <1>1, Counting DEF Early
  <1>7. OnceInv'
    <2>1. /\ rem'[p][i] = mRemainingInputCommits'[p]
          /\ \A q \in Party, k \in Idx : q # p \/ k # i => rem'[q][k] = rem[q][k]
          /\ \A q \in Party \ {p} : mRemainingInputCommits'[q] = mRemainingInputCommits[q]
          /\ mCommited' = mCommited
      BY <1>1 DEF Decremented, TypeInv
    <2>2. /\ mCommited[p] = 0
          /\ \A k \in Idx : /\ rem[p][k] >= mRemainingInputCommits[p]
                            /\ pc[p][k] \notin {"open", "done"}
      <3>1. mCommited[p] \in Nat /\ mRemainingInputCommits[p] # 0 /\ Once(p)
        BY <1>3 DEF TypeInv, OnceInv
      <3> QED BY <3>1 DEF Once
    <2>3. mRemainingInputCommits[p] \in Nat /\ \A k \in Idx : rem[p][k] \in Nat
      BY Words DEF TypeInv
    <2>4. \A k \in Idx \ {i} : rem'[p][k] > mRemainingInputCommits'[p] /\ rem'[p][k] > 0
      BY <1>3, <2>1, <2>2, <2>3
    <2>5. ASSUME NEW q \in Party \ {p}
          PROVE  Once(q)'
      BY <1>4, <2>1 DEF OnceInv, Once
    <2>6. Once(p)'
      <3>1. mCommited'[p] = 0
        BY <2>1, <2>2
      <3>2. \A k \in Idx : rem'[p][k] >= mRemainingInputCommits'[p]
        BY <1>3, <2>1, <2>3, <2>4
      <3>3. \A k \in Idx : pc'[p][k] \notin {"open", "done"}
        BY <1>4, <2>2
      <3>4. \A k \in Idx : rem'[p][k] = 0 => k = i
        BY <2>4
      <3> QED BY <3>1, <3>2, <3>3, <3>4 DEF Once
    <2> QED BY <2>5, <2>6 DEF OnceInv
  <1> QED BY <1>3, <1>5, <1>6, <1>7

\* The thread that brought the countdown to zero is the only one that sets the promise.
LEMMA SetStep ==
    ASSUME AsyncPsiAssumption, IInv, NEW p \in Party, NEW i \in Idx,
           SetSent(p, i) \/ SetReceived(p, i)
    PROVE  IInv'
  <1> USE DEF IInv
  <1>1. PICK l \in {"commitRecv", "wait"} :
            /\ SetIfLast(p, i, l) /\ Goto(p, i, l)
            /\ pc[p][i] = IF l = "commitRecv" THEN "sentCounted" ELSE "receivedCounted"
            /\ UNCHANGED <<constants, rem, mMyPermute, mTheirPermute, mRemainingInputCommits, mOpenBuff,
                           chl, j, ret>>
    BY DEF SetSent, SetReceived, SetIfLast, At
  <1>2. l \in Labels
    BY DEF Labels
  <1>3. /\ pc' \in [Party -> [Idx -> Labels]] /\ pc'[p][i] = l
        /\ \A q \in Party, k \in Idx : q # p \/ k # i => pc'[q][k] = pc[q][k]
    BY <1>1, <1>2, Moved
  <1>4. /\ mCommited' \in [Party -> Nat]
        /\ mCommited'[p] = IF rem[p][i] = 0 THEN mCommited[p] + 1 ELSE mCommited[p]
        /\ \A q \in Party \ {p} : mCommited'[q] = mCommited[q]
    BY <1>1 DEF SetIfLast, Last0, TypeInv
  <1>5. TypeInv'
    BY <1>1, <1>3, <1>4 DEF TypeInv, constants
  <1>6. CommitInv' /\ ChannelInv' /\ FoundInv'
    BY <1>1, Counting DEF Early
  <1>7. CountInv'
    BY <1>1, <1>2, NotCounted DEF Early
  <1>8. OnceInv'
    <2>1. mRemainingInputCommits[p] \in Nat /\ \A k \in Idx : rem[p][k] \in Nat
      BY Words DEF TypeInv
    <2>2. rem[p][i] = 0 =>
              /\ mCommited[p] = 0 /\ mRemainingInputCommits[p] = 0
              /\ \A k \in Idx : rem[p][k] = 0 => k = i
      BY <1>1, <2>1 DEF OnceInv, Once
    <2>3. ASSUME NEW q \in Party \ {p}
          PROVE  Once(q)'
      BY <1>1, <1>3, <1>4 DEF OnceInv, Once
    <2>4. Once(p)'
      <3>1. Once(p) /\ mCommited[p] \in Nat
        BY DEF OnceInv, TypeInv
      <3>2. mCommited'[p] <= 1 /\ (mCommited'[p] > 0 => mRemainingInputCommits'[p] = 0)
        BY <1>1, <1>4, <2>2, <3>1 DEF Once
      <3>3. \A k \in Idx : rem'[p][k] = 0 /\ pc'[p][k] \in {"sentCounted", "receivedCounted"}
                               => mCommited'[p] = 0
        BY <1>1, <1>3, <1>4, <2>2, <3>1 DEF Once
      <3>4. \A k \in Idx : pc'[p][k] \in {"open", "done"} => mRemainingInputCommits'[p] = 0
        BY <1>1, <1>3, <3>1 DEF Once
      <3> QED BY <1>1, <3>1, <3>2, <3>3, <3>4 DEF Once
    <2> QED BY <2>3, <2>4 DEF OnceInv
  <1> QED BY <1>5, <1>6, <1>7, <1>8

\* Queues of messages.
LEMMA Queues ==
    ASSUME NEW M, NEW s \in Seq(M)
    PROVE  /\ Len(s) \in Nat
           /\ Len(s) = 0 => s = <<>>
           /\ s # <<>> => /\ Len(s) > 0 /\ Head(s) = s[1] /\ s[1] \in M
                          /\ Tail(s) \in Seq(M) /\ Len(Tail(s)) = Len(s) - 1
                          /\ \A n \in 1..Len(s)-1 : Tail(s)[n] = s[n + 1]
  OBVIOUS

\* Two queues, one behind the other.
LEMMA Joined ==
    ASSUME NEW M, NEW s \in Seq(M), NEW t \in Seq(M)
    PROVE  /\ s \o t \in Seq(M) /\ Len(s \o t) = Len(s) + Len(t)
           /\ \A n \in 1..Len(s) : (s \o t)[n] = s[n]
           /\ \A n \in 1..Len(t) : (s \o t)[Len(s) + n] = t[n]
  OBVIOUS

\* What no action changes.
LEMMA Fixed ==
    ASSUME UNCHANGED constants
    PROVE  /\ \A q, k : Blind(q, k)' = Blind(q, k) /\ Commitment(q, k)' = Commitment(q, k)
           /\ \A n, k : Chosen(n, k)' = Chosen(n, k) /\ Opened(n)' = Opened(n)
           /\ \A q \in Party : Other(q) \in Party \ {q} /\ Other(Other(q)) = q
           /\ Party = {"sender", "receiver"}
  BY DEF constants, Blind, Commitment, Plus, Chosen, Opened, Party, Other

\* AsyncCommitSend.
LEMMA CommitSendStep ==
    ASSUME AsyncPsiAssumption, IInv, NEW p \in Party, NEW i \in Idx, CommitSend(p, i)
    PROVE  IInv'
  <1> USE DEF IInv
  <1> DEFINE o == Other(p)
  <1>1. /\ pc' \in [Party -> [Idx -> Labels]] /\ pc'[p][i] = "sent" /\ pc[p][i] = "commitSend"
        /\ \A q \in Party, k \in Idx : q # p \/ k # i => pc'[q][k] = pc[q][k]
    BY Moved DEF CommitSend, Labels, At
  <1>2. /\ o \in Party \ {p} /\ Other(o) = p /\ UNCHANGED constants
        /\ \A q \in Party : Other(q) \in Party \ {q} /\ Other(Other(q)) = q
    BY Fixed DEF CommitSend
  <1>3. pc[o][i] \in Early /\ pc'[o][i] = pc[o][i]
    BY <1>1, <1>2 DEF CommitInv, Committed
  <1>4. Commitment(p, i) \in Bits /\ mMyPermute[p][i] = Blind(p, i)
    <2>1. Blind(p, i) \in Bits /\ input[p][i] \in Bits
      BY DEF Blind, TypeInv
    <2>2. mMyPermute[p][i] = Blind(p, i)
      BY <1>1 DEF CommitInv, Committed
    <2> QED BY <2>1, <2>2, Words DEF Commitment
  <1>5. /\ mMyPermute' \in [Party -> [Idx -> Bits]]
        /\ mMyPermute'[p][i] = Commitment(p, i)
        /\ \A q \in Party, k \in Idx : q # p \/ k # i => mMyPermute'[q][k] = mMyPermute[q][k]
    <2>1. mMyPermute' = [mMyPermute EXCEPT ![p][i] = Commitment(p, i)]
      BY <1>4 DEF CommitSend, Commitment, TypeInv
    <2> QED BY <2>1, <1>4 DEF TypeInv
  <1>6. /\ chl' \in [Party -> [Idx -> Seq(Messages)]]
        /\ chl'[o][i] = Append(chl[o][i], Commitment(p, i))
        /\ \A q \in Party, k \in Idx : q # o \/ k # i => chl'[q][k] = chl[q][k]
    <2>1. chl' = [chl EXCEPT ![o][i] = Append(@, Commitment(p, i))]
      BY <1>5 DEF CommitSend
    <2>2. chl[o][i] \in Seq(Messages) /\ Commitment(p, i) \in Messages
      BY <1>2, <1>4 DEF TypeInv, Messages
    <2>3. Append(chl[o][i], Commitment(p, i)) \in Seq(Messages)
      BY <2>2
    <2> QED BY <1>2, <2>1, <2>3 DEF TypeInv
  <1>7. TypeInv'
    BY <1>1, <1>5, <1>6 DEF TypeInv, CommitSend, constants
  <1>8. CountInv'
    BY <1>1, NotCounted DEF CommitSend, Early, Labels
  <1>9. OnceInv'
    BY <1>1, NotSet DEF CommitSend, Labels
  <1>10. CommitInv'
    <2>1. \A q \in Party, k \in Idx : Committed(q, k)
      BY DEF CommitInv
    <2>2. Committed(p, i)'
      BY <1>1, <1>2, <1>5, Fixed DEF Committed, Early
    <2>3. ASSUME NEW q \in Party, NEW k \in Idx, q # p \/ k # i
          PROVE  Committed(q, k)'
      <3>1. pc'[q][k] = pc[q][k] /\ mMyPermute'[q][k] = mMyPermute[q][k] /\ mTheirPermute' = mTheirPermute
        BY <1>1, <1>5, <2>3 DEF CommitSend
      <3>2. pc[Other(q)][k] # "commitSend" => pc'[Other(q)][k] # "commitSend"
        BY <1>1, <1>2
      <3> QED BY <1>2, <2>1, <3>1, <3>2, Fixed DEF Committed
    <2> QED BY <2>2, <2>3 DEF CommitInv
  <1>11. ChannelInv'
    <2>1. \A k \in Idx : pc'["sender"][k] = "open" <=> pc["sender"][k] = "open"
      BY <1>1 DEF Party
    <2>2. \A k \in Idx : pc'["sender"][k] = "done" <=> pc["sender"][k] = "done"
      BY <1>1 DEF Party
    <2>3. \A k \in Idx : Buffer(k)'
      BY <1>2, <2>1, Fixed DEF ChannelInv, Buffer, CommitSend
    <2>4. \A q \in Party, k \in Idx : Unread(q, k)' = Unread(q, k)
      BY <2>2 DEF Unread, CommitSend
    <2>5. Channel(o, i)'
      <3>1. Under(o, i) = 0 /\ Under(o, i)' = 1 /\ Unread(o, i) = 0
        BY <1>1, <1>2, <1>3 DEF Under, Unread, Party, Other
      <3>2. Len(chl[o][i]) = 0 /\ chl[o][i] \in Seq(Messages)
        BY <1>2, <3>1 DEF ChannelInv, Channel, TypeInv
      <3>3. chl'[o][i] = <<Commitment(p, i)>>
        <4>1. chl[o][i] = <<>>
          BY <3>2, Queues
        <4> QED BY <1>6, <4>1
      <3> QED BY <1>2, <2>4, <3>1, <3>3, Fixed DEF Channel
    <2>6. ASSUME NEW q \in Party, NEW k \in Idx, q # o \/ k # i
          PROVE  Channel(q, k)'
      <3>1. Under(q, k)' = Under(q, k)
        <4>1. pc'[q][k] \in Early <=> pc[q][k] \in Early
          BY <1>1 DEF Early
        <4>2. pc'[Other(q)][k] = pc[Other(q)][k]
          BY <1>1, <1>2, <2>6
        <4> QED BY <4>1, <4>2 DEF Under
      <3>2. Channel(q, k) /\ chl'[q][k] = chl[q][k] /\ j' = j
        BY <1>6, <2>6 DEF ChannelInv, CommitSend
      <3> QED BY <1>2, <2>4, <3>1, <3>2, Fixed DEF Channel
    <2> QED BY <2>3, <2>5, <2>6 DEF ChannelInv
  <1>12. FoundInv'
    <2>1. \A k \in Idx : /\ pc'["sender"][k] = "done" <=> pc["sender"][k] = "done"
                         /\ \A a \in {"open", "done", "thrown"} :
                                pc'["receiver"][k] = a <=> pc["receiver"][k] = a
      BY <1>1 DEF Party
    <2> QED BY <2>1 DEF FoundInv, Found, CommitSend, constants
  <1> QED BY <1>7, <1>8, <1>9, <1>10, <1>11, <1>12

\* AsyncCommitRecv, up to the decrement.
LEMMA CommitRecvStep ==
    ASSUME AsyncPsiAssumption, IInv, NEW p \in Party, NEW i \in Idx, CommitRecv(p, i)
    PROVE  IInv'
  <1> USE DEF IInv
  <1> DEFINE o == Other(p)  s == chl[p][i]
  <1>1. /\ pc' \in [Party -> [Idx -> Labels]] /\ pc'[p][i] = "received" /\ pc[p][i] = "commitRecv"
        /\ \A q \in Party, k \in Idx : q # p \/ k # i => pc'[q][k] = pc[q][k]
    BY Moved DEF CommitRecv, Labels, At
  <1>2. /\ o \in Party \ {p} /\ Other(o) = p /\ UNCHANGED constants
        /\ \A q \in Party : Other(q) \in Party \ {q} /\ Other(Other(q)) = q
    BY Fixed DEF CommitRecv
  <1>3. /\ s \in Seq(Messages) /\ s # <<>> /\ Len(s) > 0 /\ Head(s) = s[1] /\ Tail(s) \in Seq(Messages)
        /\ Len(Tail(s)) = Len(s) - 1 /\ \A n \in 1..Len(s)-1 : Tail(s)[n] = s[n + 1]
    <2>1. s \in Seq(Messages) /\ s # <<>>
      BY DEF TypeInv, CommitRecv
    <2> HIDE DEF s
    <2> QED BY <2>1, Queues
  <1>4. Channel(p, i) /\ Unread(p, i) \in Nat /\ Unread(p, i)' = Unread(p, i)
    <2>1. j[i] \in 1..Size+1 /\ Size \in Nat
      BY Words DEF TypeInv
    <2>2. pc'["sender"][i] = "done" <=> pc["sender"][i] = "done"
      BY <1>1 DEF Party
    <2> QED BY <2>1, <2>2 DEF ChannelInv, Unread, CommitRecv
  <1>5. /\ Under(p, i) = 1 /\ Under(p, i)' = 0 /\ pc[o][i] # "commitSend" /\ pc'[o][i] = pc[o][i]
    <2>1. pc[o][i] = "commitSend" => Unread(p, i) = 0
      BY <1>2 DEF Unread, Other
    <2>2. pc[o][i] # "commitSend"
      BY <1>3, <1>4, <2>1 DEF Channel, Under
    <2> QED BY <1>1, <1>2, <2>2 DEF Under, Early
  <1>6. Head(s) = Commitment(o, i) /\ Commitment(o, i) \in Bits
    <2>1. Blind(o, i) \in Bits /\ input[o][i] \in Bits
      BY <1>2 DEF Blind, TypeInv
    <2> QED BY <1>3, <1>4, <1>5, <2>1, Words DEF Channel, Commitment
  <1>7. /\ mTheirPermute' \in [Party -> [Idx -> Bits]] /\ mTheirPermute'[p][i] = Commitment(o, i)
        /\ \A q \in Party, k \in Idx : q # p \/ k # i => mTheirPermute'[q][k] = mTheirPermute[q][k]
    BY <1>6 DEF CommitRecv, TypeInv
  <1>8. /\ chl' \in [Party -> [Idx -> Seq(Messages)]] /\ chl'[p][i] = Tail(s)
        /\ \A q \in Party, k \in Idx : q # p \/ k # i => chl'[q][k] = chl[q][k]
    BY <1>3 DEF CommitRecv, TypeInv
  <1>9. TypeInv'
    BY <1>1, <1>7, <1>8 DEF TypeInv, CommitRecv, constants
  <1>10. CountInv'
    BY <1>1, NotCounted DEF CommitRecv, Early, Labels
  <1>11. OnceInv'
    BY <1>1, NotSet DEF CommitRecv, Labels
  <1>12. CommitInv'
    <2>1. \A q \in Party, k \in Idx : Committed(q, k)
      BY DEF CommitInv
    <2>2. Committed(p, i)'
      <3>1. mMyPermute'[p][i] = Commitment(p, i)
        BY <1>1, <2>1 DEF Committed, CommitRecv
      <3> QED BY <1>1, <1>2, <1>5, <1>7, <3>1, Fixed DEF Committed
    <2>3. ASSUME NEW q \in Party, NEW k \in Idx, q # p \/ k # i
          PROVE  Committed(q, k)'
      <3>1. pc'[q][k] = pc[q][k] /\ mMyPermute' = mMyPermute /\ mTheirPermute'[q][k] = mTheirPermute[q][k]
        BY <1>1, <1>7, <2>3 DEF CommitRecv
      <3>2. pc[Other(q)][k] # "commitSend" => pc'[Other(q)][k] # "commitSend"
        BY <1>1, <1>2
      <3> QED BY <1>2, <2>1, <3>1, <3>2, Fixed DEF Committed
    <2> QED BY <2>2, <2>3 DEF CommitInv
  <1>13. ChannelInv'
    <2>1. \A k \in Idx : /\ pc'["sender"][k] = "open" <=> pc["sender"][k] = "open"
                         /\ pc'["sender"][k] = "done" <=> pc["sender"][k] = "done"
      BY <1>1 DEF Party
    <2>2. \A k \in Idx : Buffer(k)'
      BY <1>2, <2>1, Fixed DEF ChannelInv, Buffer, CommitRecv
    <2>3. Channel(p, i)'
      <3>1. Len(chl'[p][i]) = Unread(p, i)
        BY <1>3, <1>4, <1>5, <1>8 DEF Channel
      <3>2. ASSUME NEW n \in 1..Unread(p, i)
            PROVE  chl'[p][i][n] = Chosen(i, j[i] + n - 1)
        <4>1. n \in 1..Len(s)-1
          BY <1>3, <1>4, <1>5, <3>1, <1>8
        <4>2. chl'[p][i][n] = s[n + 1]
          BY <1>3, <1>8, <4>1
        <4>3. s[Under(p, i) + n] = Chosen(i, j[i] + n - 1)
          BY <1>4 DEF Channel
        <4>4. Under(p, i) + n = n + 1
          BY <1>4, <1>5
        <4> QED BY <4>2, <4>3, <4>4
      <3>3. ASSUME NEW n \in 1..Unread(p, i)
            PROVE  chl'[p][i][Under(p, i)' + n] = Chosen(i, j[i] + n - 1)'
        <4>1. Under(p, i)' + n = n
          BY <1>4, <1>5
        <4>2. Chosen(i, j[i] + n - 1)' = Chosen(i, j[i] + n - 1)
          BY <1>2 DEF Chosen, constants, CommitRecv
        <4> QED BY <3>2, <4>1, <4>2
      <3> QED BY <1>4, <1>5, <3>1, <3>3 DEF Channel
    <2>4. ASSUME NEW q \in Party, NEW k \in Idx, q # p \/ k # i
          PROVE  Channel(q, k)'
      <3>1. Under(q, k)' = Under(q, k)
        <4>1. pc'[q][k] = pc[q][k]
          BY <1>1, <2>4
        <4>2. pc'[Other(q)][k] # "commitSend" <=> pc[Other(q)][k] # "commitSend"
          BY <1>1, <1>2
        <4> QED BY <4>1, <4>2 DEF Under
      <3>2. Unread(q, k)' = Unread(q, k)
        BY <2>1 DEF Unread, CommitRecv
      <3>3. Channel(q, k) /\ chl'[q][k] = chl[q][k] /\ j' = j
        BY <1>8, <2>4 DEF ChannelInv, CommitRecv
      <3> QED BY <1>2, <3>1, <3>2, <3>3, Fixed DEF Channel
    <2> QED BY <2>2, <2>3, <2>4 DEF ChannelInv
  <1>14. FoundInv'
    <2>1. \A k \in Idx : /\ pc'["sender"][k] = "done" <=> pc["sender"][k] = "done"
                         /\ \A a \in {"open", "done", "thrown"} :
                                pc'["receiver"][k] = a <=> pc["receiver"][k] = a
      BY <1>1 DEF Party
    <2> QED BY <2>1 DEF FoundInv, Found, CommitRecv, constants
  <1> QED BY <1>9, <1>10, <1>11, <1>12, <1>13, <1>14

\* Nothing but the label of a thread that has received changes, and it does not end.
LEMMA Passing ==
    ASSUME CommitInv, NEW p \in Party, NEW i \in Idx, UNCHANGED constants,
           pc'[p][i] \notin Early, pc[p][i] \notin Early,
           \A q \in Party, k \in Idx : q # p \/ k # i => pc'[q][k] = pc[q][k],
           UNCHANGED <<mMyPermute, mTheirPermute>>
    PROVE  /\ CommitInv'
           /\ \A q \in Party, k \in Idx : Under(q, k)' = Under(q, k)
  <1>1. \A q \in Party, k \in Idx : /\ pc'[q][k] \in Early <=> pc[q][k] \in Early
                                    /\ pc'[q][k] = "commitSend" <=> pc[q][k] = "commitSend"
    BY DEF Early
  <1>2. \A q \in Party : Other(q) \in Party
    BY Fixed
  <1> QED BY <1>1, <1>2, Fixed DEF CommitInv, Committed, Under

\* The sender's thread has waited and computes what it opens.
LEMMA PrepareStep ==
    ASSUME AsyncPsiAssumption, IInv, NEW i \in Idx, Prepare(i)
    PROVE  IInv'
  <1> USE DEF IInv
  <1>1. /\ pc' \in [Party -> [Idx -> Labels]] /\ pc'["sender"][i] = "open" /\ pc["sender"][i] = "wait"
        /\ \A q \in Party, k \in Idx : q # "sender" \/ k # i => pc'[q][k] = pc[q][k]
        /\ Goto("sender", i, "open") /\ "sender" \in Party /\ "receiver" \in Party /\ "open" \in Labels
    BY Moved DEF Prepare, Labels, At, Party
  <1>2. UNCHANGED constants /\ Other("sender") = "receiver"
    BY DEF Prepare, Other
  <1>3. mRemainingInputCommits["sender"] = 0
    BY <1>1, Waiting DEF Prepare
  <1>4. \A k \in Idx : OpenShares(i, k) = Chosen(i, k)
    <2>1. /\ mTheirPermute["sender"][i] = Commitment("receiver", i)
          /\ \A k \in Idx : mMyPermute["sender"][k] = Commitment("sender", k)
      <3>1. \A k \in Idx : pc["sender"][k] \notin Early \cup {"received"}
        BY <1>1, <1>3, AllThere
      <3>2. \A k \in Idx : Committed("sender", k)
        BY <1>1 DEF CommitInv
      <3>3. \A k \in Idx : pc["sender"][k] \notin Early /\ pc["sender"][k] # "commitSend"
        BY <3>1 DEF Early
      <3> QED BY <1>2, <3>2, <3>3 DEF Committed
    <2>2. \A k \in Idx : OpenShares(i, k) = [b \in 1..WordSize |-> Chosen(i, k)[b]]
      BY <2>1, ChosenShares DEF OpenShares
    <2>3. \A k \in Idx : Chosen(i, k) \in [1..WordSize -> Tags]
      BY ChosenShares
    <2> QED BY <2>2, <2>3
  <1>5. Opened(i) \in Seq(Messages)
    BY OpenedShares
  <1>6. /\ mOpenBuff' \in [Idx -> Seq(Messages)] /\ mOpenBuff'[i] = Opened(i)
        /\ \A k \in Idx \ {i} : mOpenBuff'[k] = mOpenBuff[k]
    <2>1. mOpenBuff' = [mOpenBuff EXCEPT ![i] = Opened(i)]
      BY <1>4 DEF Prepare, Opened
    <2> QED BY <1>5, <2>1 DEF TypeInv
  <1>7. TypeInv'
    BY <1>1, <1>6 DEF TypeInv, Prepare, constants
  <1>8. CountInv'
    BY <1>1, NotCounted DEF Prepare, Early
  <1>9. OnceInv'
    BY <1>1, <1>3, NotSet DEF Prepare
  <1>10. CommitInv' /\ \A q \in Party, k \in Idx : Under(q, k)' = Under(q, k)
    BY <1>1, <1>2, Passing DEF Early, Prepare
  <1>11. \A k \in Idx : pc'["sender"][k] = "done" <=> pc["sender"][k] = "done"
    BY <1>1
  <1>12. ChannelInv'
    <2>1. \A q \in Party, k \in Idx : Unread(q, k)' = Unread(q, k)
      BY <1>11 DEF Unread, Prepare
    <2>2. UNCHANGED <<chl, j>>
      BY DEF Prepare
    <2>3. \A q \in Party, k \in Idx : Channel(q, k)'
      BY <1>2, <1>10, <2>1, <2>2, Fixed DEF ChannelInv, Channel
    <2>4. \A k \in Idx : Buffer(k)'
      BY <1>1, <1>2, <1>6, Fixed DEF ChannelInv, Buffer
    <2> QED BY <2>3, <2>4 DEF ChannelInv
  <1>13. FoundInv'
    BY <1>1, <1>11 DEF FoundInv, Found, Prepare, constants
  <1> QED BY <1>7, <1>8, <1>9, <1>10, <1>12, <1>13

\* The receiver's thread has waited.
LEMMA OpenWaitStep ==
    ASSUME AsyncPsiAssumption, IInv, NEW i \in Idx, OpenWait(i)
    PROVE  IInv'
  <1> USE DEF IInv
  <1>1. /\ pc' \in [Party -> [Idx -> Labels]] /\ pc'["receiver"][i] = "open" /\ pc["receiver"][i] = "wait"
        /\ \A q \in Party, k \in Idx : q # "receiver" \/ k # i => pc'[q][k] = pc[q][k]
        /\ Goto("receiver", i, "open") /\ "sender" \in Party /\ "receiver" \in Party /\ "open" \in Labels
    BY Moved DEF OpenWait, Labels, At, Party
  <1>2. mRemainingInputCommits["receiver"] = 0
    BY <1>1, Waiting DEF OpenWait
  <1>3. TypeInv'
    BY <1>1 DEF TypeInv, OpenWait, constants
  <1>4. CountInv'
    BY <1>1, NotCounted DEF OpenWait, Early
  <1>5. OnceInv'
    BY <1>1, <1>2, NotSet DEF OpenWait
  <1>6. CommitInv' /\ \A q \in Party, k \in Idx : Under(q, k)' = Under(q, k)
    BY <1>1, Passing DEF Early, OpenWait
  <1>7. ChannelInv'
    <2>1. \A q \in Party, k \in Idx : Unread(q, k)' = Unread(q, k)
      BY <1>1 DEF Unread, OpenWait
    <2>2. UNCHANGED constants
      BY DEF OpenWait
    <2>3. \A q \in Party, k \in Idx : Channel(q, k)'
      BY <1>6, <2>1, <2>2, Fixed DEF ChannelInv, Channel, OpenWait
    <2>4. \A k \in Idx : Buffer(k)'
      BY <1>1, <2>2, Fixed DEF ChannelInv, Buffer, OpenWait
    <2> QED BY <2>3, <2>4 DEF ChannelInv
  <1>8. FoundInv'
    BY <1>1, Words DEF FoundInv, Found, OpenWait, constants
  <1> QED BY <1>3, <1>4, <1>5, <1>6, <1>7, <1>8

\* The sender's thread opens its element.
LEMMA OpenSendStep ==
    ASSUME AsyncPsiAssumption, IInv, NEW i \in Idx, OpenSend(i)
    PROVE  IInv'
  <1> USE DEF IInv
  <1> DEFINE s == chl["receiver"][i]
  <1>1. /\ pc' \in [Party -> [Idx -> Labels]] /\ pc'["sender"][i] = "done" /\ pc["sender"][i] = "open"
        /\ \A q \in Party, k \in Idx : q # "sender" \/ k # i => pc'[q][k] = pc[q][k]
        /\ Goto("sender", i, "done") /\ "sender" \in Party /\ "receiver" \in Party /\ "done" \in Labels
    BY Moved DEF OpenSend, Labels, At, Party
  <1>2. UNCHANGED constants /\ j' = j /\ Size \in Nat \ {0}
    BY Words DEF OpenSend
  <1>3. mRemainingInputCommits["sender"] = 0
    BY <1>1 DEF OnceInv, Once
  <1>4. /\ mOpenBuff[i] = Opened(i) /\ Opened(i) \in Seq(Messages) /\ Len(Opened(i)) = Size
        /\ \A n \in Idx : Opened(i)[n] = Chosen(i, n)
    BY <1>1, OpenedShares DEF ChannelInv, Buffer
  <1>5. /\ s \in Seq(Messages) /\ Channel("receiver", i) /\ j[i] = 1
        /\ Unread("receiver", i) = 0 /\ Unread("receiver", i)' = Size
    <2>1. s \in Seq(Messages) /\ Channel("receiver", i)
      BY <1>1 DEF TypeInv, ChannelInv
    <2>2. j[i] = 1
      BY <1>1 DEF FoundInv, Found
    <2> QED BY <1>1, <1>2, <2>1, <2>2 DEF Unread
  <1>6. /\ chl' \in [Party -> [Idx -> Seq(Messages)]] /\ chl'["receiver"][i] = s \o Opened(i)
        /\ \A q \in Party, k \in Idx : q # "receiver" \/ k # i => chl'[q][k] = chl[q][k]
    <2>1. chl' = [chl EXCEPT !["receiver"][i] = s \o Opened(i)]
      BY <1>1, <1>4 DEF OpenSend, TypeInv
    <2>2. s \o Opened(i) \in Seq(Messages)
      BY <1>4, <1>5, Joined
    <2> HIDE DEF s
    <2> QED BY <1>1, <2>1, <2>2 DEF TypeInv
  <1>7. mOpenBuff' \in [Idx -> Seq(Messages)] /\ mOpenBuff' = [mOpenBuff EXCEPT ![i] = <<>>]
    BY DEF OpenSend, TypeInv
  <1>8. TypeInv'
    BY <1>1, <1>6, <1>7 DEF TypeInv, OpenSend, constants
  <1>9. CountInv'
    BY <1>1, NotCounted DEF OpenSend, Early
  <1>10. OnceInv'
    BY <1>1, <1>3, NotSet DEF OpenSend
  <1>11. CommitInv' /\ \A q \in Party, k \in Idx : Under(q, k)' = Under(q, k)
    BY <1>1, Passing DEF Early, OpenSend
  <1>12. ChannelInv'
    <2>1. Channel("receiver", i)'
      <3> DEFINE u == Under("receiver", i)
      <3>1. u \in {0, 1} /\ Len(s) = u /\ u' = u
        <4>1. u \in {0, 1}
          BY DEF Under
        <4>2. u' = u
          BY <1>1, <1>11
        <4> QED BY <1>5, <4>1, <4>2 DEF Channel
      <3>2. u = 1 => s[1] = Commitment("sender", i)
        BY <1>5 DEF Channel, Other
      <3> HIDE DEF u, s
      <3>3. Len(s \o Opened(i)) = u + Size
        BY <1>4, <1>5, <3>1, Joined
      <3>4. u = 1 => (s \o Opened(i))[1] = s[1]
        BY <1>4, <1>5, <3>1, Joined
      <3>5. ASSUME NEW n \in 1..Size
            PROVE  (s \o Opened(i))[u + n] = Chosen(i, n)
        <4>1. (s \o Opened(i))[u + n] = Opened(i)[n]
          BY <1>2, <1>4, <1>5, <3>1, Joined
        <4> QED BY <1>4, <4>1 DEF Idx
      <3>6. ASSUME NEW n \in 1..Size
            PROVE  chl'["receiver"][i][Under("receiver", i)' + n] = Chosen(i, j[i] + n - 1)'
        <4>1. Chosen(i, j[i] + n - 1)' = Chosen(i, n)
          <5>1. j'[i] + n - 1 = n
            BY <1>2, <1>5
          <5> QED BY <1>2, <5>1 DEF Chosen, constants
        <4> QED BY <1>6, <3>1, <3>5, <4>1 DEF u
      <3>7. Commitment(Other("receiver"), i)' = Commitment("sender", i)
        BY <1>2, Fixed DEF Other
      <3>8. Len(chl'["receiver"][i]) = Under("receiver", i)' + Unread("receiver", i)'
        BY <1>5, <1>6, <3>1, <3>3 DEF u
      <3>9. Under("receiver", i)' = 1 => chl'["receiver"][i][1] = Commitment(Other("receiver"), i)'
        BY <1>6, <3>1, <3>2, <3>4, <3>7 DEF u
      <3> QED BY <1>5, <3>6, <3>8, <3>9 DEF Channel
    <2>2. ASSUME NEW q \in Party, NEW k \in Idx, q # "receiver" \/ k # i
          PROVE  Channel(q, k)'
      <3>1. Unread(q, k)' = Unread(q, k)
        BY <1>1, <1>2, <2>2 DEF Unread
      <3>2. chl'[q][k] = chl[q][k]
        BY <1>6, <2>2
      <3> QED BY <1>2, <1>11, <3>1, <3>2, Fixed DEF ChannelInv, Channel
    <2>3. ASSUME NEW k \in Idx
          PROVE  Buffer(k)'
      <3>1. mOpenBuff'[k] = IF k = i THEN <<>> ELSE mOpenBuff[k]
        BY <1>7 DEF TypeInv
      <3>2. pc'["sender"][k] = IF k = i THEN "done" ELSE pc["sender"][k]
        BY <1>1
      <3> QED BY <1>2, <3>1, <3>2, Fixed DEF ChannelInv, Buffer
    <2> QED BY <2>1, <2>2, <2>3 DEF ChannelInv
  <1>13. FoundInv'
    <2>1. /\ \A k \in Idx : pc'["receiver"][k] = pc["receiver"][k]
          /\ \A k \in Idx : pc'["sender"][k] # "done" => pc["sender"][k] # "done"
          /\ UNCHANGED <<ret, input>>
      BY <1>1 DEF OpenSend, constants
    <2> QED BY <1>2, <2>1 DEF FoundInv, Found
  <1> QED BY <1>8, <1>9, <1>10, <1>11, <1>12, <1>13

\* The receiver's thread looks at one row.
LEMMA OpenRecvStep ==
    ASSUME AsyncPsiAssumption, IInv, NEW i \in Idx, OpenRecv(i)
    PROVE  IInv'
  <1> USE DEF IInv
  <1> DEFINE s == chl["receiver"][i]
             same == input["sender"][j[i]] = input["receiver"][i]
             l == IF j[i] = Size THEN "done" ELSE "open"
  <1>1. /\ pc["receiver"][i] = "open" /\ s # <<>> /\ s \in Seq(Messages)
        /\ "sender" \in Party /\ "receiver" \in Party /\ l \in Labels /\ UNCHANGED constants
        /\ Size \in Nat \ {0}
    BY Words DEF OpenRecv, At, TypeInv, Party, Labels
  <1>2. mRemainingInputCommits["receiver"] = 0
    BY <1>1 DEF OnceInv, Once
  \* The first message in the queue opens the element that is next.
  <1>3. /\ pc["sender"][i] = "done" /\ j[i] \in Idx /\ Channel("receiver", i)
        /\ Under("receiver", i) = 0 /\ Unread("receiver", i) = Size - j[i] + 1
        /\ s[1] = Chosen(i, j[i])
    <2>1. Channel("receiver", i) /\ Under("receiver", i) = 0
      BY <1>1 DEF ChannelInv, Under, Early
    <2>2. Len(s) > 0
      BY <1>1, Queues
    <2>3. pc["sender"][i] = "done" /\ Unread("receiver", i) = Size - j[i] + 1
      BY <2>1, <2>2 DEF Channel, Unread
    <2>4. j[i] \in 1..Size+1 /\ j[i] # Size + 1
      BY <1>1 DEF TypeInv, FoundInv, Found
    <2>5. j[i] \in Idx /\ 1 \in 1..Unread("receiver", i) /\ j[i] + 1 - 1 = j[i] /\ 0 + 1 = 1
      BY <1>1, <2>3, <2>4 DEF Idx
    <2>6. s[Under("receiver", i) + 1] = Chosen(i, j[i] + 1 - 1)
      BY <2>1, <2>5 DEF Channel
    <2> QED BY <2>1, <2>3, <2>5, <2>6
  <1>4. Opens(i, s[1]) /\ (s[1] = Mine(i) <=> same)
    <2>1. /\ mMyPermute["receiver"][i] = Commitment("receiver", i)
          /\ mTheirPermute["receiver"][j[i]] = Commitment("sender", j[i])
      <3>1. \A k \in Idx : pc["receiver"][k] \notin Early \cup {"received"}
        BY <1>1, <1>2, AllThere
      <3>2. Committed("receiver", i) /\ Committed("receiver", j[i])
        BY <1>1, <1>3 DEF CommitInv
      <3>3. pc["receiver"][j[i]] \notin Early /\ Other("receiver") = "sender"
        BY <1>3, <3>1 DEF Other
      <3> QED BY <1>1, <3>2, <3>3 DEF Committed
    <2>2. \A b \in 1..WordSize :
              Chosen(i, j[i])[b] = Share(i, j[i], b, (Commitment("receiver", i)[b] + Commitment("sender", j[i])[b]) % 2)
      BY <1>3, ChosenShares
    <2>3. Opens(i, s[1])
      BY <1>3, <2>1, <2>2 DEF Opens
    <2>4. Chosen(i, j[i]) = [b \in 1..WordSize |-> <<i, b, choice[i][b], j[i]>>] <=> same
      BY <1>3, ChosenShares
    <2> QED BY <1>3, <2>3, <2>4 DEF Mine
  <1> HIDE DEF same
  <1>5. /\ Goto("receiver", i, l)
        /\ ret' = [ret EXCEPT ![i] = @ \/ s[1] = Mine(i)]
        /\ j' = [j EXCEPT ![i] = @ + 1]
        /\ chl' = [chl EXCEPT !["receiver"][i] = Tail(s)]
        /\ UNCHANGED <<constants, rem, mMyPermute, mTheirPermute, mRemainingInputCommits, mCommited, mOpenBuff>>
    <2>1. Head(s) = s[1]
      BY <1>1, Queues
    <2>2. chl' = [chl EXCEPT !["receiver"][i] = Tail(s)]
      BY <1>1 DEF OpenRecv, TypeInv
    <2> HIDE DEF s
    <2>3. chl["receiver"][i] = s
      BY DEF s
    <2> QED BY <1>4, <2>1, <2>2, <2>3 DEF OpenRecv
  <1>6. /\ pc' \in [Party -> [Idx -> Labels]] /\ pc'["receiver"][i] = l
        /\ \A q \in Party, k \in Idx : q # "receiver" \/ k # i => pc'[q][k] = pc[q][k]
    BY <1>1, <1>5, Moved
  <1>7. /\ j' \in [Idx -> 1..Size+1] /\ j'[i] = j[i] + 1 /\ \A k \in Idx \ {i} : j'[k] = j[k]
        /\ ret' \in [Idx -> BOOLEAN] /\ \A k \in Idx \ {i} : ret'[k] = ret[k]
    <2>1. j' \in [Idx -> 1..Size+1] /\ j'[i] = j[i] + 1 /\ \A k \in Idx \ {i} : j'[k] = j[k]
      <3>1. j \in [Idx -> 1..Size+1] /\ j[i] + 1 \in 1..Size+1
        <4>1. j \in [Idx -> 1..Size+1]
          BY DEF TypeInv
        <4>2. j[i] \in 1..Size /\ Size \in Nat
          BY <1>1, <1>3 DEF Idx
        <4>3. j[i] + 1 \in 1..Size+1
          BY <4>2
        <4> QED BY <4>1, <4>3
      <3>2. j' = [j EXCEPT ![i] = @ + 1]
        BY <1>5
      <3> QED BY <3>1, <3>2
    <2>2. PICK v \in BOOLEAN : ret' = [ret EXCEPT ![i] = v]
      BY <1>5
    <2>3. ret' \in [Idx -> BOOLEAN] /\ \A k \in Idx \ {i} : ret'[k] = ret[k]
      BY <2>2 DEF TypeInv
    <2> QED BY <2>1, <2>3
  <1>8. ret'[i] <=> ret[i] \/ same
    <2>1. ret'[i] = (ret[i] \/ s[1] = Mine(i))
      BY <1>5 DEF TypeInv
    <2> QED BY <1>4, <2>1
  <1>9. /\ Tail(s) \in Seq(Messages) /\ Len(Tail(s)) = Len(s) - 1
        /\ \A n \in 1..Len(s)-1 : Tail(s)[n] = s[n + 1]
    BY <1>1, Queues
  <1>10. /\ chl' \in [Party -> [Idx -> Seq(Messages)]] /\ chl'["receiver"][i] = Tail(s)
         /\ \A q \in Party, k \in Idx : q # "receiver" \/ k # i => chl'[q][k] = chl[q][k]
    BY <1>1, <1>5, <1>9 DEF TypeInv
  <1>11. TypeInv'
    BY <1>5, <1>6, <1>7, <1>10 DEF TypeInv, constants
  <1>12. CountInv'
    BY <1>1, <1>5, NotCounted DEF Early
  <1>13. OnceInv'
    BY <1>1, <1>2, <1>5, NotSet
  <1>14. CommitInv' /\ \A q \in Party, k \in Idx : Under(q, k)' = Under(q, k)
    BY <1>1, <1>5, <1>6, Passing DEF Early
  <1>15. ChannelInv'
    <2>1. \A k \in Idx : pc'["sender"][k] = pc["sender"][k]
      BY <1>1, <1>6
    <2>2. Channel("receiver", i)'
      <3>1. /\ Under("receiver", i)' = 0 /\ Unread("receiver", i)' = Size - j[i]
            /\ Len(s) = Size - j[i] + 1 /\ j[i] \in 1..Size /\ Size \in Nat /\ j'[i] = j[i] + 1
            /\ Under("receiver", i) = 0 /\ Unread("receiver", i) = Size - j[i] + 1
        <4>1. j[i] \in 1..Size /\ Size \in Nat /\ j'[i] = j[i] + 1
          BY <1>1, <1>3, <1>7 DEF Idx
        <4>2. Under("receiver", i) = 0 /\ Unread("receiver", i) = Size - j[i] + 1
          BY <1>3
        <4>3. Under("receiver", i)' = 0
          BY <1>1, <1>14, <4>2
        <4>4. pc'["sender"][i] = "done"
          BY <1>3, <2>1
        <4>5. Unread("receiver", i)' = Size - j[i]
          BY <4>1, <4>4 DEF Unread
        <4>6. Len(s) = Size - j[i] + 1
          BY <1>3, <4>1, <4>2 DEF Channel
        <4> QED BY <4>1, <4>2, <4>3, <4>5, <4>6
      <3>2. ASSUME NEW n \in 1..Size - j[i]
            PROVE  chl'["receiver"][i][Under("receiver", i)' + n] = Chosen(i, j[i] + n - 1)'
        <4>1. /\ n \in 1..Len(s)-1 /\ n + 1 \in 1..Unread("receiver", i)
              /\ Under("receiver", i)' + n = n /\ Under("receiver", i) + (n + 1) = n + 1
              /\ j[i] + (n + 1) - 1 = j[i] + n /\ j'[i] + n - 1 = j[i] + n
          <5> HIDE DEF s
          <5>1. n \in Nat /\ j[i] \in Nat /\ 1 <= n /\ n <= Size - j[i]
            BY <3>1
          <5>2. n \in 1..Len(s)-1 /\ n + 1 \in 1..Unread("receiver", i)
            <6>1. Len(s) - 1 = Size - j[i]
              BY <3>1
            <6>2. n + 1 \in 1..Size - j[i] + 1
              BY <3>1, <5>1
            <6> QED BY <3>1, <6>1, <6>2
          <5>3. Under("receiver", i)' + n = n /\ Under("receiver", i) + (n + 1) = n + 1
            BY <3>1, <5>1
          <5>4. j[i] + (n + 1) - 1 = j[i] + n /\ j'[i] + n - 1 = j[i] + n
            BY <3>1, <5>1
          <5> QED BY <5>2, <5>3, <5>4
        <4>2. chl'["receiver"][i][n] = s[n + 1]
          BY <1>9, <1>10, <4>1
        <4>3. s[Under("receiver", i) + (n + 1)] = Chosen(i, j[i] + (n + 1) - 1)
          BY <1>3, <4>1 DEF Channel
        <4>4. Chosen(i, j[i] + n - 1)' = Chosen(i, j[i] + n)
          BY <1>1, <4>1 DEF Chosen, constants
        <4> QED BY <4>1, <4>2, <4>3, <4>4
      <3> HIDE DEF s
      <3>3. Len(chl'["receiver"][i]) = Under("receiver", i)' + Unread("receiver", i)'
        BY <1>1, <1>9, <1>10, <3>1
      <3> QED BY <3>1, <3>2, <3>3 DEF Channel
    <2>3. ASSUME NEW q \in Party, NEW k \in Idx, q # "receiver" \/ k # i
          PROVE  Channel(q, k)'
      <3>1. Unread(q, k)' = Unread(q, k) /\ (q = "receiver" => j'[k] = j[k])
        BY <1>7, <2>1, <2>3 DEF Unread
      <3>2. chl'[q][k] = chl[q][k] /\ Channel(q, k)
        BY <1>10, <2>3 DEF ChannelInv
      <3>3. q # "receiver" => Unread(q, k) = 0
        BY DEF Unread
      <3>4. ASSUME NEW n \in 1..Unread(q, k)
            PROVE  Chosen(k, j[k] + n - 1)' = Chosen(k, j[k] + n - 1)
        BY <1>1, <3>1, <3>3 DEF Chosen, constants
      <3> QED BY <1>1, <1>14, <3>1, <3>2, <3>4, Fixed DEF Channel
    <2>4. \A k \in Idx : Buffer(k)'
      BY <1>1, <1>5, <2>1, Fixed DEF ChannelInv, Buffer
    <2> QED BY <2>2, <2>3, <2>4 DEF ChannelInv
  <1>16. FoundInv'
    <2>1. input' = input
      BY <1>1 DEF constants
    <2>2. Found(i)'
      <3>1. Found(i) /\ j[i] \in 1..Size /\ j'[i] = j[i] + 1 /\ pc'["sender"][i] = "done"
        BY <1>1, <1>3, <1>6, <1>7 DEF FoundInv, Idx
      <3>2. ret'[i] <=> \E k \in 1..j[i] : input["sender"][k] = input["receiver"][i]
        <4>1. ret[i] <=> \E k \in 1..j[i]-1 : input["sender"][k] = input["receiver"][i]
          BY <3>1 DEF Found
        <4>2. 1..j[i] = (1..j[i]-1) \cup {j[i]}
          BY <3>1
        <4> QED BY <1>8, <4>1, <4>2 DEF same
      <3>3. j'[i] - 1 = j[i] /\ (j'[i] = Size + 1 <=> l = "done")
        BY <1>1, <3>1
      <3> QED BY <1>1, <1>6, <2>1, <3>1, <3>2, <3>3 DEF Found
    <2>3. ASSUME NEW k \in Idx \ {i}
          PROVE  Found(k)'
      <3>1. /\ pc'["receiver"][k] = pc["receiver"][k] /\ pc'["sender"][k] = pc["sender"][k]
            /\ j'[k] = j[k] /\ ret'[k] = ret[k]
        BY <1>1, <1>6, <1>7
      <3> QED BY <2>1, <3>1 DEF FoundInv, Found
    <2> QED BY <2>2, <2>3 DEF FoundInv
  <1> QED BY <1>11, <1>12, <1>13, <1>14, <1>15, <1>16

-----------------------------------------------------------------------------
(* What the threads keep. *)

\* The invariant holds at the beginning.
LEMMA Begins ==
    ASSUME AsyncPsiAssumption, Init
    PROVE  IInv
  <1>1. Size \in Nat \ {0} /\ Masks \subseteq Bits /\ Zero \in Bits
    BY Words
  <1>2. \A p \in Party, i \in Idx : pc[p][i] = "commitSend" /\ rem[p][i] = 2 * Size /\ chl[p][i] = <<>>
    BY DEF Init, Commits
  <1>3. \A p \in Party : mRemainingInputCommits[p] = 2 * Size /\ mCommited[p] = 0
    BY DEF Init, Commits
  <1>4. "sender" \in Party /\ "receiver" \in Party /\ 2 * Size \in 0..2*Size /\ 2 * Size \in Nat /\ 2 * Size # 0
    BY <1>1 DEF Party
  <1>5. TypeInv
    <2>1. choice \in [Idx -> Bits] /\ permuted \in [Idx -> Bits]
      BY <1>1 DEF Init
    <2>2. mMyPermute \in [Party -> [Idx -> Bits]]
      BY <2>1 DEF Init
    <2>3. rem \in [Party -> [Idx -> 0..2*Size]] /\ mRemainingInputCommits \in [Party -> 0..2*Size]
      BY <1>4 DEF Init, Commits
    <2>4. j \in [Idx -> 1..Size+1]
      BY <1>1 DEF Init
    <2>5. mOpenBuff \in [Idx -> Seq(Messages)] /\ chl \in [Party -> [Idx -> Seq(Messages)]]
      BY DEF Init
    <2> QED BY <1>1, <2>1, <2>2, <2>3, <2>4, <2>5 DEF TypeInv, Init, Labels
  <1>6. CountInv
    <2>1. \A p \in Party : ToSend(p) = Idx /\ ToReceive(p) = Idx
      BY <1>2 DEF ToSend, ToReceive, Early
    <2>2. Cardinality(Idx) = Size
      <3>1. Cardinality(1..Size) = IF 1 > Size THEN 0 ELSE Size - 1 + 1
        BY <1>1, FS_Interval
      <3> QED BY <1>1, <3>1 DEF Idx
    <2> QED BY <1>1, <1>3, <2>1, <2>2 DEF CountInv
  <1>7. OnceInv
    BY <1>2, <1>3, <1>4 DEF OnceInv, Once
  <1>8. CommitInv
    BY <1>2 DEF CommitInv, Committed, Init, Blind, Early
  <1>9. ChannelInv
    <2>1. \A p \in Party, i \in Idx : Under(p, i) = 0 /\ Unread(p, i) = 0
      BY <1>2, <1>4 DEF Under, Unread, Other, Party
    <2>2. \A i \in Idx : Buffer(i)
      BY <1>2, <1>4 DEF Buffer, Init
    <2> QED BY <1>2, <2>1, <2>2 DEF ChannelInv, Channel
  <1>10. FoundInv
    <2>1. \A i \in Idx : j[i] = 1 /\ ret[i] = FALSE /\ pc["receiver"][i] = "commitSend"
      BY <1>2, <1>4 DEF Init
    <2>2. 1..1-1 = {} /\ 1 # Size + 1
      BY <1>1
    <2> QED BY <2>1, <2>2 DEF FoundInv, Found
  <1> QED BY <1>5, <1>6, <1>7, <1>8, <1>9, <1>10 DEF IInv

\* Each step keeps the invariant.
LEMMA Goes ==
    ASSUME AsyncPsiAssumption, IInv, [Next]_vars
    PROVE  IInv'
  <1>1. CASE UNCHANGED vars
    <2>1. TypeInv'
      BY <1>1 DEF IInv, TypeInv, vars, constants
    <2>2. CountInv' /\ OnceInv'
      <3>1. \A p \in Party : ToSend(p)' = ToSend(p) /\ ToReceive(p)' = ToReceive(p)
        BY <1>1 DEF ToSend, ToReceive, vars
      <3>2. UNCHANGED <<pc, rem, mRemainingInputCommits, mCommited>>
        BY <1>1 DEF vars
      <3>3. CountInv'
        BY <3>1, <3>2 DEF IInv, CountInv
      <3>4. OnceInv'
        BY <3>2 DEF IInv, OnceInv, Once
      <3> QED BY <3>3, <3>4
    <2>3. UNCHANGED constants
      BY <1>1 DEF vars, constants
    <2>4. CommitInv'
      BY <1>1, <2>3, Fixed DEF IInv, CommitInv, Committed, vars
    <2>5. \A p \in Party, i \in Idx : Under(p, i)' = Under(p, i) /\ Unread(p, i)' = Unread(p, i)
      BY <1>1 DEF Under, Unread, vars
    <2>6. \A n, k : Chosen(n, j[n] + k - 1)' = Chosen(n, j[n] + k - 1)
      BY <1>1 DEF Chosen, vars, constants
    <2>7. \A p \in Party, i \in Idx : Channel(p, i)'
      BY <1>1, <2>3, <2>5, <2>6, Fixed DEF IInv, ChannelInv, Channel, vars
    <2>8. \A i \in Idx : Buffer(i)'
      BY <1>1, <2>3, Fixed DEF IInv, ChannelInv, Buffer, vars
    <2>9. FoundInv'
      BY <1>1 DEF IInv, FoundInv, Found, vars, constants
    <2> QED BY <2>1, <2>2, <2>4, <2>7, <2>8, <2>9 DEF IInv, ChannelInv
  <1>2. ASSUME NEW p \in Party, NEW i \in Idx, Step(p, i)
        PROVE  IInv'
    <2>1. CASE CommitSend(p, i)
      BY <2>1, CommitSendStep
    <2>2. CASE CountSent(p, i) \/ CountReceived(p, i)
      BY <2>2, CountStep
    <2>3. CASE SetSent(p, i) \/ SetReceived(p, i)
      BY <2>3, SetStep
    <2>4. CASE CommitRecv(p, i)
      BY <2>4, CommitRecvStep
    <2>5. CASE Prepare(i)
      BY <2>5, PrepareStep
    <2>6. CASE OpenSend(i)
      BY <2>6, OpenSendStep
    <2>7. CASE OpenWait(i)
      BY <2>7, OpenWaitStep
    <2>8. CASE OpenRecv(i)
      BY <2>8, OpenRecvStep
    <2> QED BY <1>2, <2>1, <2>2, <2>3, <2>4, <2>5, <2>6, <2>7, <2>8 DEF Step
  <1> QED BY <1>1, <1>2 DEF Next

\* The invariant of all reachable states.
LEMMA Kept ==
    ASSUME AsyncPsiAssumption
    PROVE  Spec => []IInv
  <1>1. Init => IInv
    BY Begins
  <1>2. IInv /\ [Next]_vars => IInv'
    BY Goes
  <1> QED BY <1>1, <1>2, PTL DEF Spec

\* The types of the threads' state: AsyncCommitSend, AsyncCommitRecv, open.
THEOREM AsyncPsiTypes ==
    ASSUME AsyncPsiAssumption
    PROVE  Spec => []TypeOK
  <1>1. IInv => TypeOK
    BY DEF IInv, TypeInv, TypeOK, Labels
  <1> QED BY <1>1, Kept, PTL

\* Whichever threads decrement mRemainingInputCommits last, one of them, and only one,
\* finds it at zero and sets mCommitedProm: set_value on a promise that is set throws.
THEOREM PromiseOnce ==
    ASSUME AsyncPsiAssumption
    PROVE  Spec => []SetOnce
  <1>1. IInv => SetOnce
    BY DEF IInv, OnceInv, Once, SetOnce
  <1> QED BY <1>1, Kept, PTL

\* A thread of the sender sends the shares of its element only after every thread of both
\* parties has committed: an element chosen later could be chosen by the shares.
THEOREM CommittedBeforeOpening ==
    ASSUME AsyncPsiAssumption
    PROVE  Spec => []CommittedFirst
  <1>1. IInv => CommittedFirst
    <2> SUFFICES ASSUME IInv, NEW i \in Idx,
                        mOpenBuff[i] # <<>> \/ pc["sender"][i] = "done",
                        NEW p \in Party, NEW k \in Idx
                 PROVE  pc[p][k] # "commitSend"
      BY DEF CommittedFirst
    <2>1. "sender" \in Party /\ Other("sender") = "receiver" /\ p \in {"sender", "receiver"}
      BY DEF Party, Other
    <2>2. pc["sender"][i] \in {"open", "done"}
      BY <2>1 DEF IInv, ChannelInv, Buffer
    <2>3. mRemainingInputCommits["sender"] = 0
      BY <2>1, <2>2 DEF IInv, OnceInv, Once
    <2>4. pc["sender"][k] \notin Early
      BY <2>1, <2>3, AllThere DEF IInv
    <2>5. pc["receiver"][k] # "commitSend" /\ pc["sender"][k] # "commitSend"
      BY <2>1, <2>4 DEF IInv, CommitInv, Committed, Early
    <2> QED BY <2>1, <2>5
  <1> QED BY <1>1, Kept, PTL

\* In every interleaving of the threads, no opened share is refused, and a thread of the
\* receiver that ends has found its element if, and only if, the sender has it: open
\* returns the intersection.
THEOREM ExactIntersection ==
    ASSUME AsyncPsiAssumption
    PROVE  Spec => []FindsExactly
  <1>1. IInv => FindsExactly
    <2> SUFFICES ASSUME IInv, NEW i \in Idx
                 PROVE  /\ pc["receiver"][i] # "thrown"
                        /\ pc["receiver"][i] = "done" =>
                               ret[i] = (\E k \in Idx : input["sender"][k] = input["receiver"][i])
      BY DEF FindsExactly
    <2>1. Found(i) /\ ret[i] \in BOOLEAN /\ Size \in Nat
      BY Words DEF IInv, TypeInv, FoundInv
    <2>2. ASSUME pc["receiver"][i] = "done"
          PROVE  ret[i] = (\E k \in Idx : input["sender"][k] = input["receiver"][i])
      <3>1. j[i] - 1 = Size
        BY <2>1, <2>2 DEF Found
      <3>2. ret[i] <=> \E k \in Idx : input["sender"][k] = input["receiver"][i]
        BY <2>1, <3>1 DEF Found, Idx
      <3> QED BY <2>1, <3>2
    <2> QED BY <2>1, <2>2 DEF Found
  <1> QED BY <1>1, Kept, PTL

=============================================================================
