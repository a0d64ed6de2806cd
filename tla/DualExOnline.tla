---------------------------- MODULE DualExOnline ----------------------------
(***************************************************************************)
(* The online phase of batched dual execution (libBDX/DualEx, PSI), as run *)
(* by two parties that both follow the code.  One evaluation slot is       *)
(* modelled (numParallelEval = 1): slots share no bucket, buffer, thread   *)
(* or channel.  Each party runs, per slot,                                 *)
(*                                                                         *)
(*   main     the thread that calls DualExActor::execute for k = 0, 1, ... *)
(*   loop     sendLoop: receives the peer's input correction and, once     *)
(*            both intersections are committed, sends the translation seed *)
(*   sub[i]   sendCircuitInputLoop: sends wire labels, plays PSI sender    *)
(*   eval[i]  evalThreadLoop: evaluates circuit i, plays PSI receiver      *)
(*                                                                         *)
(* Execution k owns Bucket k (promises, counters, PSI state); the label    *)
(* buffers of the slot are reused by every execution.  Messages carry no   *)
(* execution number on the wire: the field ex records, for the model, what *)
(* the bytes were computed from, and no action looks at it except where    *)
(* the code verifies a commitment or evaluates a circuit with the bytes.   *)
(*                                                                         *)
(* An operator marked "fault" is a variant, with a plausible slip, of the  *)
(* operator defined after it.  No action uses one; each property below is  *)
(* checked to fail when one of them takes the place of the real operator.  *)
(***************************************************************************)
EXTENDS Integers, Sequences, FiniteSets

CONSTANTS BucketSize,  \* mBucketSize: circuits each party garbled per execution
          NumThreads,  \* numThreadsPerEval, after the min with mBucketSize
          NumExe,      \* mNumExe
          InputLen,    \* InputLen[r]: mCircuit.Inputs()[r]
          MayFail      \* parties whose program may end at any moment

Party   == {0, 1}
Circuit == 0..BucketSize-1
Thread  == 0..NumThreads-1
Exec    == 0..NumExe-1

ASSUME SizeAssumption ==
    /\ BucketSize \in Nat \ {0}
    /\ NumThreads \in Nat \ {0}
    /\ NumThreads <= BucketSize
    /\ NumExe \in Nat \ {0}
    /\ InputLen \in [Party -> Nat \ {0}]
    /\ MayFail \subseteq Party

Other(p) == 1 - p
NoExec   == -1                             \* a buffer holding nothing usable

\* A PSI input block: not yet drawn, the value every correct circuit of the
\* execution yields at both parties, or a random block nobody else holds.
PsiVal == {"none", "common", "fresh"}
\* What evaluating a circuit gave: the function's value or something else.
Value  == {"none", "good", "garbled"}

VARIABLES main, loop, sub, eval,  \* program counter and execution of each thread
          bucket,                 \* bucket[p][k]: the Bucket of execution k
          net,                    \* net[ch]: messages in flight to channel end ch
          labels,                 \* labels[p][c]: execution whose labels mLabels[c] holds
          outLabels,              \* outLabels[p]: execution whose labels mOutLabels holds
          aborted                 \* aborted[p]: an exception ended p's program

vars == <<main, loop, sub, eval, bucket, net, labels, outLabels, aborted>>

-----------------------------------------------------------------------------
(* Channel ends and messages. *)

MainEnd(p)    == <<"main", p, 0>>     \* onlineMainRecv: the peer's seeds
LoopEnd(p)    == <<"loop", p, 0>>     \* onlineMainSend: the peer's corrections
EvalEnd(p, i) == <<"eval", p, i>>     \* onlineEval_i: labels, commits, openings
SubEnd(p, i)  == <<"sub", p, i>>      \* onlineSend_i: the peer's masked PSI input

Ends == {"main", "loop"} \X Party \X {0} \cup {"eval", "sub"} \X Party \X Thread

NoRow == [c \in Circuit |-> "none"]

\* own/their: the labels of the sender's/receiver's input to circuit cir.
\* row: the PSI encodings an opening reveals.
Msg == [kind : {"correction", "seed", "own", "their", "permute", "commits", "open"},
        ex : Exec, cir : Nat, len : Nat, row : [Circuit -> PsiVal]]

Message(kind, k, c, len, row) ==
    [kind |-> kind, ex |-> k, cir |-> c, len |-> len, row |-> row]
Plain(kind, k, c) == Message(kind, k, c, 0, NoRow)

Send(ch, msgs)  == net' = [net EXCEPT ![ch] = @ \o msgs]
Receivable(ch)  == net[ch] # <<>>
Consume(ch)     == net' = [net EXCEPT ![ch] = Tail(@)]

-----------------------------------------------------------------------------
(* Threads. *)

MainPc == {"idle", "labels", "seed", "output", "closed"}
LoopPc == {"correction", "commits"}
SubPc  == {"labels", "permute", "commit", "check"}
EvalPc == {"their", "own", "draw", "permute", "commits", "check", "open"}

SetBucket(p, k, b) == bucket' = [bucket EXCEPT ![p][k] = b]

Go(thread, pc)     == [ex |-> thread.ex, pc |-> pc]
Repeat(thread, pc) == [ex |-> thread.ex + 1, pc |-> pc]   \* next bucketIdx

NewBucket ==
    [input       |-> FALSE,        \* mInputPromise set
     correction  |-> FALSE,        \* mTheirInputCorrectionPromise set
     labelsIn    |-> {},           \* circuits whose mTheirInputLabelsProm is set
     result      |-> [c \in Circuit |-> "none"],   \* mOutputs
     psi         |-> NoRow,        \* mPSIInputBlocks, mPsiInputPromise
     permutes    |-> {},           \* mPsiSend.mTheirPermute received
     permuteLeft |-> BucketSize,   \* mPsiSend.mRemainingInputCommits
     pse         |-> NoRow,        \* mPsiSend.mPseVals, one entry per column
     pseLeft     |-> BucketSize,   \* mPsiSend.mRemainingPSIVals
     commits     |-> {},           \* mPsiRecv.mCommits received
     commitLeft  |-> BucketSize,   \* mPsiRecv.mRemainingInputCommits
     translation |-> FALSE,        \* mTheirOutputLabelsProm set
     transLeft   |-> BucketSize,   \* mTransCheckRemaining
     misses      |-> 0,            \* mOutputMissCount
     output      |-> "none"]       \* mOutputProm: a value or "exception"

Init ==
    /\ main = [p \in Party |-> [ex |-> 0, pc |-> "idle"]]
    /\ loop = [p \in Party |-> [ex |-> 0, pc |-> "correction"]]
    /\ sub  = [p \in Party |-> [i \in Thread |-> [ex |-> 0, pc |-> "labels"]]]
    /\ eval = [p \in Party |-> [i \in Thread |-> [ex |-> 0, pc |-> "their"]]]
    /\ bucket = [p \in Party |-> [k \in Exec |-> NewBucket]]
    /\ net = [ch \in Ends |-> <<>>]
    /\ labels = [p \in Party |-> [c \in Circuit |-> NoExec]]
    /\ outLabels = [p \in Party |-> NoExec]
    /\ aborted = [p \in Party |-> FALSE]

\* An uncaught exception (invalid_commitment, BadReceiveBufferSize,
\* future_error, "No items found in the intersection") ends the program.
Abort(p) ==
    /\ aborted' = [aborted EXCEPT ![p] = TRUE]
    /\ UNCHANGED <<main, loop, sub, eval, bucket, net, labels, outLabels>>

-----------------------------------------------------------------------------
(* The thread that calls execute, then close. *)

MainAt(p, pc) == ~aborted[p] /\ main[p].pc = pc

\* A caller of execute stays in the call until the output promise is fulfilled.
CallingNoWait(thread) == Repeat(thread, "idle")       \* fault: returns a future
Calling(thread)       == Go(thread, "labels")

\* execute: hand the input to the sub threads, send the input correction.
MainCall(p) ==
    LET k == main[p].ex IN
    /\ MainAt(p, "idle")
    /\ k < NumExe
    /\ SetBucket(p, k, [bucket[p][k] EXCEPT !.input = TRUE])
    /\ Send(LoopEnd(Other(p)), <<Plain("correction", k, 0)>>)
    /\ main' = [main EXCEPT ![p] = Calling(@)]
    /\ UNCHANGED <<loop, sub, eval, labels, outLabels, aborted>>

\* Bucket::evaluate: with the correction and the labels of every circuit in,
\* check the labels in the slot's buffer against the bucket's commitments.
MainCheckLabels(p) ==
    LET k == main[p].ex IN
    /\ MainAt(p, "labels")
    /\ bucket[p][k].correction
    /\ bucket[p][k].labelsIn = Circuit
    /\ \/ /\ \A c \in Circuit : labels[p][c] = k
          /\ main' = [main EXCEPT ![p] = Go(@, "seed")]
          /\ UNCHANGED <<loop, sub, eval, bucket, net, labels, outLabels, aborted>>
       \/ /\ \E c \in Circuit : labels[p][c] # k
          /\ Abort(p)

\* execute: receive the seed and expand it into the slot's output labels.
MainReceiveSeed(p) ==
    LET k == main[p].ex  ch == MainEnd(p) IN
    /\ MainAt(p, "seed")
    /\ Receivable(ch)
    /\ outLabels' = [outLabels EXCEPT ![p] = Head(net[ch]).ex]
    /\ SetBucket(p, k, [bucket[p][k] EXCEPT !.translation = TRUE])
    /\ Consume(ch)
    /\ main' = [main EXCEPT ![p] = Go(@, "output")]
    /\ UNCHANGED <<loop, sub, eval, labels, aborted>>

\* The output promise holds a value, which execute returns, or an exception.
HasValueOrUnset(b) == b.output # "exception"          \* fault: does not wait
HasValue(b)        == b.output \in {"good", "garbled"}

\* execute: wait for the output promise and return its value.
MainReturn(p) ==
    LET k == main[p].ex IN
    /\ MainAt(p, "output")
    /\ \/ /\ HasValue(bucket[p][k])
          /\ main' = [main EXCEPT ![p] = Repeat(@, "idle")]
          /\ UNCHANGED <<loop, sub, eval, bucket, net, labels, outLabels, aborted>>
       \/ /\ bucket[p][k].output = "exception"
          /\ Abort(p)

SendersDone(p) ==                                     \* fault: eval threads not joined
    loop[p].ex = NumExe /\ \A i \in Thread : sub[p][i].ex = NumExe
ThreadsDone(p) ==
    /\ loop[p].ex = NumExe
    /\ \A i \in Thread : sub[p][i].ex = NumExe /\ eval[p][i].ex = NumExe

\* close: join every thread of the slot.
MainClose(p) ==
    /\ MainAt(p, "idle")
    /\ main[p].ex = NumExe
    /\ ThreadsDone(p)
    /\ main' = [main EXCEPT ![p] = Go(@, "closed")]
    /\ UNCHANGED <<loop, sub, eval, bucket, net, labels, outLabels, aborted>>

-----------------------------------------------------------------------------
(* sendLoop. *)

LoopAt(p, pc) == ~aborted[p] /\ loop[p].pc = pc /\ loop[p].ex < NumExe

LoopReceiveCorrection(p) ==
    LET k == loop[p].ex  ch == LoopEnd(p) IN
    /\ LoopAt(p, "correction")
    /\ Receivable(ch)
    /\ Consume(ch)
    /\ SetBucket(p, k, [bucket[p][k] EXCEPT !.correction = TRUE])
    /\ loop' = [loop EXCEPT ![p] = Go(@, "commits")]
    /\ UNCHANGED <<main, sub, eval, labels, outLabels, aborted>>

\* The peer's PSI inputs are in: masked for our sender, committed for our receiver.
PermutesIn(b)       == b.permuteLeft = 0              \* fault: one of the two waits
CommitsAndChecks(b) ==                                \* fault: a circular wait
    b.permuteLeft = 0 /\ b.commitLeft = 0 /\ b.transLeft = 0
InputsCommitted(b)  == b.permuteLeft = 0 /\ b.commitLeft = 0

\* Both intersections are committed: reveal the seed of our output labels.
LoopSendSeed(p) ==
    LET k == loop[p].ex IN
    /\ LoopAt(p, "commits")
    /\ InputsCommitted(bucket[p][k])
    /\ Send(MainEnd(Other(p)), <<Plain("seed", k, 0)>>)
    /\ loop' = [loop EXCEPT ![p] = Repeat(@, "correction")]
    /\ UNCHANGED <<main, sub, eval, bucket, labels, outLabels, aborted>>

-----------------------------------------------------------------------------
(* sendCircuitInputLoop. *)

SubAt(p, i, pc) == ~aborted[p] /\ sub[p][i].pc = pc /\ sub[p][i].ex < NumExe

\* Circuits i, i + NumThreads, i + 2 * NumThreads, ... of the bucket, in order.
CircuitsOf(i) ==
    [n \in 1..((BucketSize - i + NumThreads - 1) \div NumThreads)
        |-> i + (n - 1) * NumThreads]

\* For every circuit of this thread the labels of our input, then for every
\* one the labels of the peer's corrected input.  Both buffers are given the
\* byte length of our own input (Bucket.cpp:642 and :675).
LabelsOf(p, i, k, kind) ==
    [n \in DOMAIN CircuitsOf(i) |->
        Message(kind, k, CircuitsOf(i)[n], InputLen[p], NoRow)]

TheirLabelsFirst(p, i, k) ==                          \* fault: the loops swapped
    LabelsOf(p, i, k, "their") \o LabelsOf(p, i, k, "own")
LabelMessages(p, i, k) ==
    LabelsOf(p, i, k, "own") \o LabelsOf(p, i, k, "their")

SubSendLabels(p, i) ==
    LET k == sub[p][i].ex IN
    /\ SubAt(p, i, "labels")
    /\ bucket[p][k].input
    /\ bucket[p][k].correction
    /\ Send(EvalEnd(Other(p), i), LabelMessages(p, i, k))
    /\ sub' = [sub EXCEPT ![p][i] = Go(@, "permute")]
    /\ UNCHANGED <<main, loop, eval, bucket, labels, outLabels, aborted>>

\* PsiSender::CommitRecv: the peer's masked i'th PSI input arrives.
PermuteLastLost(b, i) ==                              \* fault: never reaches zero
    [b EXCEPT !.permutes = @ \cup {i},
              !.permuteLeft = IF @ = 1 THEN 1 ELSE @ - 1]
PermuteReceived(b, i) ==
    [b EXCEPT !.permutes = @ \cup {i}, !.permuteLeft = @ - 1]

SubReceivePermute(p, i) ==
    LET k == sub[p][i].ex  ch == SubEnd(p, i) IN
    /\ SubAt(p, i, "permute")
    /\ Receivable(ch)
    /\ Consume(ch)
    /\ SetBucket(p, k, PermuteReceived(bucket[p][k], i))
    /\ sub' = [sub EXCEPT ![p][i] = Go(@, "commit")]
    /\ UNCHANGED <<main, loop, eval, labels, outLabels, aborted>>

\* PsiSender::CommitSend: wait for our i'th PSI input and for all the peer's
\* masked inputs, encode ours under each of them, send the commitments.
SubCommit(p, i) ==
    LET k == sub[p][i].ex  b == bucket[p][k] IN
    /\ SubAt(p, i, "commit")
    /\ b.psi[i] # "none"
    /\ b.permuteLeft = 0
    /\ SetBucket(p, k, [b EXCEPT !.pse[i] = IF b.permutes = Circuit
                                            THEN b.psi[i] ELSE "fresh",
                                 !.pseLeft = @ - 1])
    /\ Send(EvalEnd(Other(p), i), <<Plain("commits", k, i)>>)
    /\ sub' = [sub EXCEPT ![p][i] = Go(@, "check")]
    /\ UNCHANGED <<main, loop, eval, labels, outLabels, aborted>>

EncodingsIn(b) == b.pseLeft = 0                       \* fault: checks not awaited
MayOpen(b)     == b.transLeft = 0 /\ b.pseLeft = 0

\* Once every translation is checked and every encoding computed,
\* PsiSender::open reveals the i'th row of encodings.
SubOpen(p, i) ==
    LET k == sub[p][i].ex IN
    /\ SubAt(p, i, "check")
    /\ MayOpen(bucket[p][k])
    /\ Send(EvalEnd(Other(p), i), <<Message("open", k, i, 0, bucket[p][k].pse)>>)
    /\ sub' = [sub EXCEPT ![p][i] = Repeat(@, "labels")]
    /\ UNCHANGED <<main, loop, eval, bucket, labels, outLabels, aborted>>

-----------------------------------------------------------------------------
(* evalThreadLoop. *)

EvalAt(p, i, pc) == ~aborted[p] /\ eval[p][i].pc = pc /\ eval[p][i].ex < NumExe

\* A receive into a buffer of length len accepts a label message of exactly
\* that length and throws BadReceiveBufferSize otherwise.
IsLabels(m, len) == m.kind \in {"own", "their"} /\ m.len = len

\* Bucket::evalCircuit: labels of the peer's input go into the slot's buffer.
EvalReceiveTheirLabels(p, i) ==
    LET k == eval[p][i].ex  ch == EvalEnd(p, i)  m == Head(net[ch]) IN
    /\ EvalAt(p, i, "their")
    /\ Receivable(ch)
    /\ \/ /\ IsLabels(m, InputLen[Other(p)])
          /\ labels' = [labels EXCEPT ![p][i] =
                            IF m.kind = "own" /\ m.cir = i THEN m.ex ELSE NoExec]
          /\ SetBucket(p, k, [bucket[p][k] EXCEPT !.labelsIn = @ \cup {i}])
          /\ Consume(ch)
          /\ eval' = [eval EXCEPT ![p][i] = Go(@, "own")]
          /\ UNCHANGED <<main, loop, sub, outLabels, aborted>>
       \/ /\ ~IsLabels(m, InputLen[Other(p)])
          /\ Abort(p)

\* Bucket::evalCircuit: the labels of our own input arrive; evaluate.
EvalReceiveOwnLabels(p, i) ==
    LET k == eval[p][i].ex  ch == EvalEnd(p, i)  m == Head(net[ch])
        correct == m.kind = "their" /\ m.cir = i /\ m.ex = k /\ labels[p][i] = k
    IN
    /\ EvalAt(p, i, "own")
    /\ Receivable(ch)
    /\ \/ /\ IsLabels(m, InputLen[p])
          /\ SetBucket(p, k, [bucket[p][k] EXCEPT !.result[i] =
                                IF correct THEN "good" ELSE "garbled"])
          /\ Consume(ch)
          /\ eval' = [eval EXCEPT ![p][i] = Go(@, "draw")]
          /\ UNCHANGED <<main, loop, sub, labels, outLabels, aborted>>
       \/ /\ ~IsLabels(m, InputLen[p])
          /\ Abort(p)

\* The PSI value of circuit i, replaced by a random block when an earlier
\* circuit of the execution stored the same value.
Drawn(b)             == \E c \in Circuit : b.psi[c] = "common"
ValueKept(b, i)      ==                               \* fault: duplicates kept
    IF b.result[i] = "good" THEN "common" ELSE "fresh"
ValueIfRepeated(b, i) ==                              \* fault: the test inverted
    IF b.result[i] = "good" /\ Drawn(b) THEN "common" ELSE "fresh"
ValueToDraw(b, i)    ==
    IF b.result[i] = "good" /\ ~Drawn(b) THEN "common" ELSE "fresh"

\* Under mPsiInputMtx: take the next place of mPSIInputPermutes (a random
\* permutation, revealed one place at a time) for this circuit's PSI value.
EvalDraw(p, i) ==
    LET k == eval[p][i].ex  b == bucket[p][k] IN
    /\ EvalAt(p, i, "draw")
    /\ \E place \in {c \in Circuit : b.psi[c] = "none"} :
          SetBucket(p, k, [b EXCEPT !.psi[place] = ValueToDraw(b, i)])
    /\ eval' = [eval EXCEPT ![p][i] = Go(@, "permute")]
    /\ UNCHANGED <<main, loop, sub, net, labels, outLabels, aborted>>

\* Wait for the value at place i, whoever drew it; PsiReceiver::CommitSend.
EvalSendPermute(p, i) ==
    LET k == eval[p][i].ex IN
    /\ EvalAt(p, i, "permute")
    /\ bucket[p][k].psi[i] # "none"
    /\ Send(SubEnd(Other(p), i), <<Plain("permute", k, i)>>)
    /\ eval' = [eval EXCEPT ![p][i] = Go(@, "commits")]
    /\ UNCHANGED <<main, loop, sub, bucket, labels, outLabels, aborted>>

\* PsiReceiver::CommitRecv.
EvalReceiveCommits(p, i) ==
    LET k == eval[p][i].ex  ch == EvalEnd(p, i) IN
    /\ EvalAt(p, i, "commits")
    /\ Receivable(ch)
    /\ \/ /\ Head(net[ch]).kind = "commits"
          /\ SetBucket(p, k, [bucket[p][k] EXCEPT !.commits = @ \cup {i},
                                                  !.commitLeft = @ - 1])
          /\ Consume(ch)
          /\ eval' = [eval EXCEPT ![p][i] = Go(@, "check")]
          /\ UNCHANGED <<main, loop, sub, labels, outLabels, aborted>>
       \/ /\ Head(net[ch]).kind # "commits"
          /\ Abort(p)

SeedAssumed(b)  == TRUE                               \* fault: promise not awaited
SeedExpanded(b) == b.translation

\* Bucket::checkTranslation: wait for the expanded seed and check circuit i's
\* output commitment with the labels now in the slot's buffer.
EvalCheckTranslation(p, i) ==
    LET k == eval[p][i].ex IN
    /\ EvalAt(p, i, "check")
    /\ SeedExpanded(bucket[p][k])
    /\ \/ /\ outLabels[p] = k
          /\ SetBucket(p, k, [bucket[p][k] EXCEPT !.transLeft = @ - 1])
          /\ eval' = [eval EXCEPT ![p][i] = Go(@, "open")]
          /\ UNCHANGED <<main, loop, sub, net, labels, outLabels, aborted>>
       \/ /\ outLabels[p] # k
          /\ Abort(p)

\* PsiReceiver::open walks the revealed row: an encoding that does not open
\* its commitment throws, the first one equal to ours ends the walk.
Opens(b, row, j)   == j \in b.commits /\ row[j] # "none"
Matches(b, row, i) ==
    \E j \in Circuit : /\ b.psi[i] = "common" /\ row[j] = "common"
                       /\ \A l \in 0..j : Opens(b, row, l)
Misses(b, row, i)  ==
    ~Matches(b, row, i) /\ \A j \in Circuit : Opens(b, row, j)

\* The last of BucketSize misses fulfils the output promise with an exception.
AllMissed(b)    == b.misses + 1 = BucketSize
MissedDown(b)   == [b EXCEPT !.misses = @ - 1]        \* fault: counts down from 0
Missed(b)       == [b EXCEPT !.misses = @ + 1,
                             !.output = IF AllMissed(b) THEN "exception" ELSE @]

\* A match fulfils the output promise with the output of this thread's circuit.
EvalOpen(p, i) ==
    LET k == eval[p][i].ex  ch == EvalEnd(p, i)
        b == bucket[p][k]   row == Head(net[ch]).row
        Done(newB) ==
            /\ SetBucket(p, k, newB)
            /\ Consume(ch)
            /\ eval' = [eval EXCEPT ![p][i] = Repeat(@, "their")]
            /\ UNCHANGED <<main, loop, sub, labels, outLabels, aborted>>
    IN
    /\ EvalAt(p, i, "open")
    /\ b.commitLeft = 0
    /\ Receivable(ch)
    /\ \/ /\ Matches(b, row, i)
          /\ b.output = "none"
          /\ Done([b EXCEPT !.output = b.result[i]])
       \/ /\ Misses(b, row, i)
          /\ AllMissed(b) => b.output = "none"
          /\ Done(Missed(b))
       \/ /\ \/ ~Matches(b, row, i) /\ ~Misses(b, row, i)
             \/ Matches(b, row, i) /\ b.output # "none"
             \/ Misses(b, row, i) /\ AllMissed(b) /\ b.output # "none"
          /\ Abort(p)

-----------------------------------------------------------------------------
(* Programs that end. *)

\* The program of p is killed or throws for a reason outside the slot.
Fail(p) == p \in MayFail /\ ~aborted[p] /\ main[p].pc # "closed" /\ Abort(p)

\* A thread of p waits for bytes that are not there.
StarvedMain(p) ==                                     \* fault: only execute notices
    main[p].pc = "seed" /\ net[MainEnd(p)] = <<>>
Starved(p) ==
    \/ main[p].pc = "seed" /\ net[MainEnd(p)] = <<>>
    \/ LoopAt(p, "correction") /\ net[LoopEnd(p)] = <<>>
    \/ \E i \in Thread :
          \/ SubAt(p, i, "permute") /\ net[SubEnd(p, i)] = <<>>
          \/ /\ \E pc \in {"their", "own", "commits", "open"} : EvalAt(p, i, pc)
             /\ net[EvalEnd(p, i)] = <<>>

\* The peer's sockets are gone: the pending async_read completes with an
\* error and its handler throws in the I/O thread, which ends the program.
LosePeer(p) ==
    /\ ~aborted[p]
    /\ aborted[Other(p)]
    /\ Starved(p)
    /\ Abort(p)

-----------------------------------------------------------------------------
MainStep(p) == \/ MainCall(p) \/ MainCheckLabels(p) \/ MainReceiveSeed(p)
               \/ MainReturn(p) \/ MainClose(p)

LoopStep(p) == LoopReceiveCorrection(p) \/ LoopSendSeed(p)

SubStep(p, i) == \/ SubSendLabels(p, i) \/ SubReceivePermute(p, i)
                 \/ SubCommit(p, i) \/ SubOpen(p, i)

EvalStep(p, i) == \/ EvalReceiveTheirLabels(p, i) \/ EvalReceiveOwnLabels(p, i)
                  \/ EvalDraw(p, i) \/ EvalSendPermute(p, i)
                  \/ EvalReceiveCommits(p, i) \/ EvalCheckTranslation(p, i)
                  \/ EvalOpen(p, i)

Next == \E p \in Party :
            \/ MainStep(p)
            \/ LoopStep(p)
            \/ \E i \in Thread : SubStep(p, i) \/ EvalStep(p, i)
            \/ Fail(p)
            \/ LosePeer(p)

\* Every thread is an operating-system thread that runs when it can, the
\* application calls execute again as soon as it returned and close at the
\* end, and the system reports a lost connection.  Nothing forces a Fail.
Fairness == \A p \in Party :
                /\ WF_vars(LosePeer(p))
                /\ WF_vars(MainStep(p))
                /\ WF_vars(LoopStep(p))
                /\ \A i \in Thread : WF_vars(SubStep(p, i)) /\ WF_vars(EvalStep(p, i))

SafetySpec == Init /\ [][Next]_vars
Spec == SafetySpec /\ Fairness

-----------------------------------------------------------------------------
(* Type invariant. *)

\* The counters are stated as integers here; CountersExact says what they are.
BucketType ==
    [input : BOOLEAN, correction : BOOLEAN, labelsIn : SUBSET Circuit,
     result : [Circuit -> Value], psi : [Circuit -> PsiVal],
     permutes : SUBSET Circuit, permuteLeft : Int,
     pse : [Circuit -> PsiVal], pseLeft : Int,
     commits : SUBSET Circuit, commitLeft : Int,
     translation : BOOLEAN, transLeft : Int,
     misses : Nat, output : Value \cup {"exception"}]

\* A thread between two executions is at one of the counters in rest.
At(pcs, rest) ==
    {t \in [ex : 0..NumExe, pc : pcs] : t.pc \in rest \/ t.ex < NumExe}

MainAtType == At(MainPc, {"idle", "closed"})
LoopAtType == At(LoopPc, {"correction"})
SubAtType  == At(SubPc, {"labels"})
EvalAtType == At(EvalPc, {"their"})

\* Every variable keeps its type: the state is one the C++ objects can be in.
TypeOK ==
    /\ main \in [Party -> MainAtType]
    /\ loop \in [Party -> LoopAtType]
    /\ sub \in [Party -> [Thread -> SubAtType]]
    /\ eval \in [Party -> [Thread -> EvalAtType]]
    /\ bucket \in [Party -> [Exec -> BucketType]]
    /\ net \in [Ends -> Seq(Msg)]
    /\ labels \in [Party -> [Circuit -> Exec \cup {NoExec}]]
    /\ outLabels \in [Party -> Exec \cup {NoExec}]
    /\ aborted \in [Party -> BOOLEAN]

-----------------------------------------------------------------------------
(* How far a thread is: has it left program counter pc of execution k? *)

SubOrder  == [labels |-> 0, permute |-> 1, commit |-> 2, check |-> 3]
EvalOrder == [their |-> 0, own |-> 1, draw |-> 2, permute |-> 3,
              commits |-> 4, check |-> 5, open |-> 6]

Past(thread, order, k, pc) ==
    \/ thread.ex > k
    \/ thread.ex = k /\ order[thread.pc] > order[pc]

SubPast(p, i, k, pc)  == Past(sub[p][i], SubOrder, k, pc)
EvalPast(p, i, k, pc) == Past(eval[p][i], EvalOrder, k, pc)

SubsPast(p, k, pc)  == {i \in Thread : SubPast(p, i, k, pc)}
EvalsPast(p, k, pc) == {i \in Thread : EvalPast(p, i, k, pc)}

-----------------------------------------------------------------------------
(* Safety. *)

\* Two parties that follow the code never throw: no label, output or PSI
\* commitment fails to open although the buffers of the slot are reused, no
\* message meets a receive of another size, no promise is set twice, and the
\* intersection is never empty.
NeverAborts == \A p \in Party : ~aborted[p]

\* The seed of the output labels leaves sendLoop only when the peer can no
\* longer change what it put into either intersection: all its receiver
\* inputs are masked and sent, all its sender inputs are committed to.
SeedAfterCommit ==
    \A p \in Party, k \in Exec : loop[p].ex > k =>
        \A i \in Thread : /\ EvalPast(Other(p), i, k, "permute")
                          /\ SubPast(Other(p), i, k, "commit")

\* No sub thread opens its row of the intersection before every eval thread
\* of the party has checked the peer's output translation.
OpenAfterChecks ==
    \A p \in Party, k \in Exec, i \in Thread : SubPast(p, i, k, "check") =>
        \A j \in Thread : EvalPast(p, j, k, "check")

\* execute passes the sub threads a pointer to the caller's input.  When it
\* returns, and the caller may free the input, all of them are done with it.
InputPinned ==
    \A p \in Party, k \in Exec : main[p].ex > k =>
        \A i \in Thread : SubPast(p, i, k, "labels")

\* Messages carry no execution number, yet whatever a thread is about to
\* receive was sent for the execution and the step the thread is in.
IsNext(ch, kind, k) ==
    net[ch] # <<>> => Head(net[ch]).kind = kind /\ Head(net[ch]).ex = k

WireInStep ==
    \A p \in Party :
        /\ main[p].pc = "seed" => IsNext(MainEnd(p), "seed", main[p].ex)
        /\ loop[p].pc = "correction" => IsNext(LoopEnd(p), "correction", loop[p].ex)
        /\ \A i \in Thread :
            /\ sub[p][i].pc = "permute" => IsNext(SubEnd(p, i), "permute", sub[p][i].ex)
            /\ LET e == eval[p][i]
                   Awaits(pc, kind) == e.pc = pc => IsNext(EvalEnd(p, i), kind, e.ex)
               IN  /\ Awaits("their", "own")
                   /\ Awaits("own", "their")
                   /\ Awaits("commits", "commits")
                   /\ Awaits("open", "open")

\* Each countdown of a bucket is BucketSize minus the threads that made their
\* step: it never skips zero and never reaches it early, so the promise that
\* the last decrement fulfils is fulfilled once and at the right moment.
Count(S) == BucketSize - Cardinality(S)

CountersExact ==
    \A p \in Party, k \in Exec :
        LET b == bucket[p][k] IN
        /\ b.permuteLeft = Count(SubsPast(p, k, "permute"))
        /\ b.pseLeft     = Count(SubsPast(p, k, "commit"))
        /\ b.commitLeft  = Count(EvalsPast(p, k, "commits"))
        /\ b.transLeft   = Count(EvalsPast(p, k, "check"))

\* Exactly one of the BucketSize openings of an execution matches, although
\* every circuit gave the same PSI value: a party learns that it agrees with
\* the peer, never on how many circuits.
OneMatch ==
    \A p \in Party, k \in Exec :
        (\A i \in Thread : eval[p][i].ex > k) =>
            bucket[p][k].misses = BucketSize - 1 /\ bucket[p][k].output = "good"

\* Moreover no two threads of the slot, of either party, are ever more than one
\* execution apart: what can be in flight or half done is bounded.
InStep ==
    LET Positions == {main[p].ex : p \in Party} \cup {loop[p].ex : p \in Party}
                     \cup {sub[p][i].ex : p \in Party, i \in Thread}
                     \cup {eval[p][i].ex : p \in Party, i \in Thread}
    IN  WireInStep /\ \A x, y \in Positions : x - y <= 1

\* When close has joined the threads of a party nothing sent to it is unread.
CleanClose ==
    \A p \in Party : main[p].pc = "closed" =>
        \A ch \in Ends : ch[2] = p => net[ch] = <<>>

-----------------------------------------------------------------------------
(* Liveness and refinement. *)

\* Every execution that both parties ask for completes and both close.
BothClose == <>(\A p \in Party : main[p].pc = "closed")

\* A party never waits for ever on a peer whose program has ended: it finishes
\* with what it has received or ends too.
FailTogether ==
    \A p \in Party : aborted[p] ~> aborted[Other(p)] \/ main[Other(p)].pc = "closed"

\* The abstract call is in progress while main is between MainCall and
\* MainReturn; its result is the bucket's output.
Ideal == INSTANCE IdealExecution WITH
    called   <- [p \in Party |-> main[p].ex
                    + IF main[p].pc \in {"labels", "seed", "output"} THEN 1 ELSE 0],
    returned <- [p \in Party |-> main[p].ex],
    results  <- [p \in Party |-> [k \in Exec |->
                    IF main[p].ex > k THEN bucket[p][k].output ELSE "none"]]

\* Programs that may end implement the safety part of the ideal execution:
\* execute returns only after both calls, and only the function's value.
IdealSafety == Ideal!Init /\ [][Ideal!Next]_(Ideal!vars)

\* Programs that do not end also implement its fairness: every call returns.
IdealSpec == Ideal!Spec

=============================================================================
