------------------------------ MODULE PsiWords ------------------------------
(***************************************************************************)
(* The values that PsiReceiver and PsiSender (libBDX/PSI) compute, with a  *)
(* thread for each element on either side.  A block is the set of random   *)
(* ones it is the sum of; the message of OT n for a bit is <<n, bit>>.  A  *)
(* word is the set of its bits that are one.  PRF and Commit are taken to  *)
(* be one-to-one.  DualExOnline has the same exchange with its partners.   *)
(***************************************************************************)
EXTENDS Integers, FiniteSets, FiniteSetsExt

CONSTANTS inputSize, wordSize,
          Start             \* OTs used before
PsiWordsAssumption == inputSize \in Nat \ {0} /\ wordSize \in Nat \ {0} /\ Start \in Nat

Idx == 0..inputSize-1
Word == SUBSET (0..wordSize-1)
Xor(x, y) == (x \ y) \cup (y \ x)
none == "none"

VARIABLES received, sent,      \* the elements of the receiver and of the sender
          mChoiceBits,         \* of the OTs, by the receiver's random choice
          rpc, spc,            \* of the threads
          mMyPermute, mTheirPermute, mPseVals, mCommits, mMyPSIValues,
          chl,                 \* what is under way to each thread's partner
          rRemaining, sRemaining, psiRemaining,
          found                \* what open returned
vars == <<received, sent, mChoiceBits, rpc, spc, mMyPermute, mTheirPermute, mPseVals, mCommits, mMyPSIValues,
          chl, rRemaining, sRemaining, psiRemaining, found>>
input == <<received, sent, mChoiceBits>>

OTIdx(i, b) == Start + i * wordSize + b
OTMsg(n, bit) == {<<n, bit>>}
BitOf(w, b) == IF b \in w THEN 1 ELSE 0
PRF(mask, i) == <<mask, i>>
Commit(blk) == <<"commit", blk>>

\* The sum of the messages of element j's OTs for the bits of a word
MaskBySum(j, w) == FoldSet(LAMBDA b, sum : Xor(OTMsg(OTIdx(j, 0) + b, BitOf(w, 0)), sum), {}, 0..wordSize-1)   \* fault: always the first bit
Mask(j, w) == FoldSet(LAMBDA b, sum : Xor(OTMsg(OTIdx(j, b), BitOf(w, b)), sum), {}, 0..wordSize-1)

\* PsiReceiver::init and PsiSender::init
Init == /\ received \in [Idx -> Word] /\ sent \in [Idx -> Word] /\ mChoiceBits \in [Idx -> Word]
        /\ mMyPermute = mChoiceBits
        /\ mMyPSIValues = [i \in Idx |-> [j \in Idx |-> PRF(Mask(i, mChoiceBits[i]), j)]]
        /\ mTheirPermute = [i \in Idx |-> {}] /\ mPseVals = [j \in Idx |-> [i \in Idx |-> none]]
        /\ mCommits = [i \in Idx |-> <<>>]
        /\ rpc = [i \in Idx |-> "CommitSend"] /\ spc = [i \in Idx |-> "CommitRecv"]
        /\ chl = [i \in Idx |-> [permute |-> {}, commits |-> <<>>, open |-> <<>>]]
        /\ rRemaining = inputSize /\ sRemaining = inputSize /\ psiRemaining = inputSize
        /\ found = [i \in Idx |-> none]

\* The receiver's thread i
RecvCommitSend(i) ==
    /\ rpc[i] = "CommitSend" /\ rpc' = [rpc EXCEPT ![i] = "CommitRecv"]
    /\ mMyPermute' = [mMyPermute EXCEPT ![i] = Xor(@, received[i])]
    /\ chl' = [chl EXCEPT ![i].permute = mMyPermute'[i]]
    /\ UNCHANGED <<input, spc, mTheirPermute, mPseVals, mCommits, mMyPSIValues, rRemaining, sRemaining, psiRemaining, found>>
RecvCommitRecv(i) ==
    /\ rpc[i] = "CommitRecv" /\ spc[i] \in {"open", "done"} /\ rpc' = [rpc EXCEPT ![i] = "open"]
    /\ mCommits' = [mCommits EXCEPT ![i] = chl[i].commits] /\ rRemaining' = rRemaining - 1
    /\ UNCHANGED <<input, spc, mMyPermute, mTheirPermute, mPseVals, mMyPSIValues, chl, sRemaining, psiRemaining, found>>

\* open: the answers are compared in order, and what follows a match is not looked at.
MayCompare(i) == chl[i].open # <<>> /\ rRemaining = 0
Stop(i) == {j \in Idx : LET blk == chl[i].open[j] IN Commit(blk) # mCommits[j][i] \/ mMyPSIValues[i][j] = blk}
Opened(i) == IF Stop(i) = {} THEN "FALSE"
             ELSE LET j == Min(Stop(i)) IN
                  IF Commit(chl[i].open[j]) # mCommits[j][i] THEN "invalid_commitment" ELSE "TRUE"
RecvOpen(i) == /\ rpc[i] = "open" /\ MayCompare(i) /\ rpc' = [rpc EXCEPT ![i] = "done"]
               /\ found' = [found EXCEPT ![i] = IF \A j \in Idx : mCommits[j] # <<>> THEN Opened(i) ELSE "invalid_commitment"]
               /\ UNCHANGED <<input, spc, mMyPermute, mTheirPermute, mPseVals, mCommits, mMyPSIValues, chl, rRemaining, sRemaining, psiRemaining>>

\* The sender's thread i
SendCommitRecv(i) ==
    /\ spc[i] = "CommitRecv" /\ rpc[i] # "CommitSend" /\ spc' = [spc EXCEPT ![i] = "CommitSend"]
    /\ mTheirPermute' = [mTheirPermute EXCEPT ![i] = chl[i].permute] /\ sRemaining' = sRemaining - 1
    /\ UNCHANGED <<input, rpc, mMyPermute, mPseVals, mCommits, mMyPSIValues, chl, rRemaining, psiRemaining, found>>
MayEncodeEarly == TRUE                                                   \* fault: does not wait for all permutations
MayEncode == sRemaining = 0
Encoded(i, j) == PRF(Mask(j, Xor(sent[i], mTheirPermute[j])), i)
SendCommitSend(i) ==
    /\ spc[i] = "CommitSend" /\ MayEncode /\ spc' = [spc EXCEPT ![i] = "open"]
    /\ mPseVals' = [j \in Idx |-> [mPseVals[j] EXCEPT ![i] = Encoded(i, j)]]
    /\ chl' = [chl EXCEPT ![i].commits = [j \in Idx |-> Commit(mPseVals'[j][i])]]
    /\ psiRemaining' = psiRemaining - 1
    /\ UNCHANGED <<input, rpc, mMyPermute, mTheirPermute, mCommits, mMyPSIValues, rRemaining, sRemaining, found>>
MayOpenTogether == \A j \in Idx : spc[j] = "open"                       \* fault: waits for threads that have gone on
MayOpen == psiRemaining = 0
SendOpen(i) == /\ spc[i] = "open" /\ MayOpen /\ spc' = [spc EXCEPT ![i] = "done"]
               /\ chl' = [chl EXCEPT ![i].open = mPseVals[i]]
               /\ UNCHANGED <<input, rpc, mMyPermute, mTheirPermute, mPseVals, mCommits, mMyPSIValues, rRemaining, sRemaining, psiRemaining, found>>

Receiver(i) == RecvCommitSend(i) \/ RecvCommitRecv(i) \/ RecvOpen(i)
Sender(i) == SendCommitRecv(i) \/ SendCommitSend(i) \/ SendOpen(i)
Next == \E i \in Idx : Receiver(i) \/ Sender(i)
Spec == Init /\ [][Next]_vars /\ \A i \in Idx : WF_vars(Receiver(i)) /\ WF_vars(Sender(i))
-----------------------------------------------------------------------------
\* A thread finds a match exactly when the sender has its element, and no commitment is refused.
FindsCommonElements == \A i \in Idx : found[i] # none =>
    found[i] = IF \E j \in Idx : sent[j] = received[i] THEN "TRUE" ELSE "FALSE"

\* What is opened to a thread tells nothing of an element that the receiver does not have: of the
\* messages it is made of, the receiver lacks at least one.
OnlyCommonElementsKnown == \A i, j \in Idx :
    (chl[i].open # <<>> /\ mPseVals[i][j] # none /\ sent[j] # received[i]) =>
        ~(mPseVals[i][j][1] \subseteq UNION {OTMsg(OTIdx(i, b), BitOf(mChoiceBits[i], b)) : b \in 0..wordSize-1})

\* Every thread of the receiver comes to an answer.
Answered == \A i \in Idx : found[i] # none
AllAnswered == <>Answered

=============================================================================
