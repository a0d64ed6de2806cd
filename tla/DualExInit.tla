----------------------------- MODULE DualExInit -----------------------------
(***************************************************************************)
(* The offline phase of batched dual execution: DualExActor::init and the  *)
(* threads it starts (libBDX/DualEx), run by two parties that both follow  *)
(* the code.  Each party has                                               *)
(*                                                                         *)
(*   main     init: agree on parameters, reveal the cut-and-choose seed    *)
(*            once all circuits are in, join, fulfil mOnlineProm           *)
(*   ot[t]    the OT extensions of pipe t, one in each direction           *)
(*   send[t]  initSend: garble, commit, open, bucket circuits              *)
(*   recv[t]  initRecv: the other end of the peer's send[t]                *)
(*                                                                         *)
(* A circuit is known by its index, its garbled tables, seeds, labels and  *)
(* commitments by the circuit they belong to; an OT by its pipe and its    *)
(* index.  A check of a commitment fails when the bytes were computed from *)
(* another circuit or another OT, or from an OT that is not there yet.     *)
(*                                                                         *)
(* An operator marked "fault" is a variant, with a plausible slip, of the  *)
(* operator defined after it.  No action uses one; each property below is  *)
(* checked to fail when one of them takes the place of the real operator.  *)
(***************************************************************************)
EXTENDS RandSubset, Sequences, FiniteSets

CONSTANTS NumExe,       \* mNumExe
          BucketSize,   \* mBucketSize
          NumOpened,    \* mNumOpened
          ParallelInit, \* numParallelInit
          Params,       \* Params[p]: all the parameters p was started with
          Encoding,     \* Encoding[r]: encodingSize of the k-probe matrix of r's input
          NonXorGates,  \* mCircuit.NonXorGateCount()
          PsiOTs,       \* PsiSender::PsiOTCount
          OTBatch,      \* OTs an OT extension completes at a time (128 in the code)
          Kernel,       \* messages a synchronous send may leave unread
          Seeds         \* what GetRandSubset makes of the seeds that are drawn

Party       == {0, 1}
NumCircuits == NumOpened + BucketSize * NumExe
Min(a, b)   == IF a < b THEN a ELSE b

NumInitThreads == Min(ParallelInit, NumExe)

Thread  == 0..NumInitThreads-1
Circuit == 0..NumCircuits-1
Bucket  == 0..NumExe-1

InitSizes ==
    /\ NumExe \in Nat \ {0} /\ BucketSize \in Nat \ {0} /\ NumOpened \in Nat
    /\ ParallelInit \in Nat \ {0}
    /\ Encoding \in [Party -> Nat \ {0}] /\ NonXorGates \in Nat /\ PsiOTs \in Nat \ {0}
    /\ OTBatch \in Nat \ {0} /\ Kernel \in Nat
    /\ Seeds # {} /\ Seeds \subseteq Selections(NumOpened, NumCircuits)

Other(p) == 1 - p
Unset    == -1

VARIABLES main,     \* main[p]: where init is
          seed,     \* seed[p]: p's cut-and-choose selection
          theirs,   \* theirs[p]: the selection p computed from the peer's seed
          pipe,     \* pipe[p][t]: OT extension whose receiver is p
          send,     \* send[p][t]: program counter, otIdx, bucket, evalIter
          recv,     \* recv[p][t]: the same of the receiving thread
          mine,     \* mine[p][c]: CircuitPackage, garbled by p
          their,    \* their[p][c]: CommCircuitPackage, garbled by the peer
          bucket,   \* bucket[p][b]: what the offline phase puts into a bucket
          net,      \* net[ch]: messages in flight to a channel end
          aborted   \* aborted[p]: an exception ended p's program

threads == <<main, pipe, send, recv>>
vars    == <<main, seed, theirs, pipe, send, recv, mine, their, bucket, net, aborted>>

-----------------------------------------------------------------------------
(* How the work is divided. *)

\* Thread t garbles, or receives, the circuits from startIdx up to endIdx.
Start(t) == (t * NumCircuits) \div NumInitThreads
Share(t) == Start(t)..Start(t+1)-1

\* OTs of the pipe whose receiver is p, before they are rounded up.
NumOTs(p) ==
    (Encoding[p] * (NumCircuits + NumInitThreads - 1)) \div NumInitThreads
        + (PsiOTs * (NumExe + NumInitThreads - 1)) \div NumInitThreads

\* The position in the evaluated circuits where a thread starts to bucket, and
\* the circuits it skips after a bucket, which the other threads are bucketing.
FirstIter(t) == t * BucketSize
SkipNone(b)  == 0                                     \* fault: no skipping
Skip(b)      == IF b + NumInitThreads < NumExe
                THEN (NumInitThreads - 1) * BucketSize ELSE 0

\* Circuits BucketSize positions on from iter of the evaluated ones.
Picked(selection, iter) ==
    [n \in 1..BucketSize |-> selection[2][iter + n - 1]]

-----------------------------------------------------------------------------
(* Channel ends, messages, threads. *)

InitEnd(p)    == <<"init", p, 0>>
RecvEnd(p, t) == <<"recv", p, t>>
Ends          == ({"init"} \X Party \X {0}) \cup ({"recv"} \X Party \X Thread)

\* The circuits the bytes of a message were computed from, and for each of
\* them the first OT, where one was used.
Msg(kind, cirs, ots) == [kind |-> kind, cirs |-> cirs, ots |-> ots]
Dummy == Msg("dummy", <<>>, <<>>)

Put(ch, msgs)  == net' = [net EXCEPT ![ch] = @ \o msgs]
Arrived(ch, n) == Len(net[ch]) >= n
Drop(ch, n)    == net' = [net EXCEPT ![ch] = SubSeq(@, n+1, Len(@))]

NewThread(t, pc) == [pc |-> pc, next |-> Start(t), ot |-> 0, bckt |-> t, iter |-> FirstIter(t)]

NewMine  == [ot |-> Unset, cleared |-> FALSE]
NewTheir == [received |-> FALSE, ot |-> Unset, checked |-> FALSE]
NewBucket ==
    [mine    |-> <<>>,    \* mMyCircuits, mMyCircuitsBucketedProm
     their   |-> <<>>,    \* mTheirCircuits
     deltas  |-> FALSE,   \* mTheirDeltasProm
     psiSend |-> Unset,   \* first OT of mPsiSend
     psiRecv |-> Unset,   \* first OT of mPsiRecv
     labels  |-> FALSE]   \* mMyDecodedKProbeLabels

Init ==
    /\ main = [p \in Party |-> "announce"]
    /\ seed \in [Party -> Seeds]
    /\ theirs = [p \in Party |-> <<>>]
    /\ pipe = [p \in Party |-> [t \in Thread |-> [recv |-> 0, send |-> 0, ended |-> FALSE]]]
    /\ send = [p \in Party |-> [t \in Thread |-> NewThread(t, "unborn")]]
    /\ recv = [p \in Party |-> [t \in Thread |-> NewThread(t, "unborn")]]
    /\ mine = [p \in Party |-> [c \in Circuit |-> NewMine]]
    /\ their = [p \in Party |-> [c \in Circuit |-> NewTheir]]
    /\ bucket = [p \in Party |-> [b \in Bucket |-> NewBucket]]
    /\ net = [ch \in Ends |-> <<>>]
    /\ aborted = [p \in Party |-> FALSE]

\* An uncaught exception ends the program.
Abort(p) ==
    /\ aborted' = [aborted EXCEPT ![p] = TRUE]
    /\ UNCHANGED <<threads, seed, theirs, mine, their, bucket, net>>

-----------------------------------------------------------------------------
(* init. *)

MainAt(p, pc) == ~aborted[p] /\ main[p] = pc
MainGo(p, pc) == main' = [main EXCEPT ![p] = pc]

\* Draw the seed, send the commitment to it and the parameters, start the OTs.
MainAnnounce(p) ==
    /\ MainAt(p, "announce")
    /\ Put(InitEnd(Other(p)), <<Msg("commit", <<>>, <<>>), Msg("params", <<>>, <<>>)>>)
    /\ MainGo(p, "params")
    /\ UNCHANGED <<seed, theirs, pipe, send, recv, mine, their, bucket, aborted>>

ParamsAsserted == TRUE                                \* fault: checked in debug builds
ParamsMatch    == Params[0] = Params[1]

\* Receive both; with equal parameters start a send and a recv thread per pipe.
MainStart(p) ==
    /\ MainAt(p, "params")
    /\ Arrived(InitEnd(p), 2)
    /\ \/ /\ ParamsMatch
          /\ Drop(InitEnd(p), 2)
          /\ MainGo(p, "circuits")
          /\ send' = [send EXCEPT ![p] = [t \in Thread |-> NewThread(t, "garble")]]
          /\ recv' = [recv EXCEPT ![p] = [t \in Thread |-> NewThread(t, "circuits")]]
          /\ UNCHANGED <<seed, theirs, pipe, mine, their, bucket, aborted>>
       \/ /\ ~ParamsMatch
          /\ Abort(p)

\* recv[t] has fulfilled mCirRecvProm[t].
Finished(p, t)    == recv[p][t].pc = "done"                       \* fault: too late
CircuitsIn(p, t)  == recv[p][t].pc \notin {"unborn", "circuits"}  \* fault: too early
CirReceived(p, t) == recv[p][t].pc \notin {"unborn", "circuits", "initOT"}

\* Wait for mCirRecvFutr of every thread, then reveal the seed.
MainReveal(p) ==
    /\ MainAt(p, "circuits")
    /\ \A t \in Thread : CirReceived(p, t)
    /\ Put(InitEnd(Other(p)), <<Msg("seed", <<>>, <<>>)>>)
    /\ MainGo(p, "reveal")
    /\ UNCHANGED <<seed, theirs, pipe, send, recv, mine, their, bucket, aborted>>

\* Receive the peer's seed, compute its selection, fulfil mOpenEvalSetsProm.
MainSets(p) ==
    /\ MainAt(p, "reveal")
    /\ Arrived(InitEnd(p), 1)
    /\ Drop(InitEnd(p), 1)
    /\ theirs' = [theirs EXCEPT ![p] = seed[Other(p)]]
    /\ MainGo(p, "join")
    /\ UNCHANGED <<seed, pipe, send, recv, mine, their, bucket, aborted>>

\* Every OT thread, in both directions, and every send and recv thread is over.
SendersJoined(p) ==                                   \* fault: recv not joined
    /\ \A t \in Thread : send[p][t].pc = "done"
    /\ \A q \in Party, t \in Thread : pipe[q][t].ended
Joined(p) ==
    /\ \A t \in Thread : send[p][t].pc = "done" /\ recv[p][t].pc = "done"
    /\ \A q \in Party, t \in Thread : pipe[q][t].ended

\* Join, then fulfil mOnlineProm, on which the online threads wait.
MainOnline(p) ==
    /\ MainAt(p, "join")
    /\ Joined(p)
    /\ MainGo(p, "online")
    /\ UNCHANGED <<seed, theirs, pipe, send, recv, mine, their, bucket, net, aborted>>

-----------------------------------------------------------------------------
(* The OT extension of pipe t whose receiver is p: getRecvOTs at p, getSendOTs *)
(* at the peer.  Module OTExtension has its messages.                          *)

OTsRun(p) == ~aborted[p] /\ main[p] # "announce"

\* The receiver completes a block of OTs and sends what the sender needs.
OTReceive(p, t) ==
    /\ OTsRun(p) /\ OTsRun(Other(p))
    /\ pipe[p][t].recv < NumOTs(p)
    /\ pipe' = [pipe EXCEPT ![p][t].recv = Min(@ + OTBatch, NumOTs(p))]
    /\ UNCHANGED <<main, seed, theirs, send, recv, mine, their, bucket, net, aborted>>

OTSend(p, t) ==
    /\ OTsRun(Other(p))
    /\ pipe[p][t].send < pipe[p][t].recv
    /\ pipe' = [pipe EXCEPT ![p][t].send = Min(@ + OTBatch, NumOTs(p))]
    /\ UNCHANGED <<main, seed, theirs, send, recv, mine, their, bucket, net, aborted>>

\* The correlation check passes; both threads return.
OTEnd(p, t) ==
    /\ OTsRun(p) /\ OTsRun(Other(p))
    /\ pipe[p][t].send = NumOTs(p)
    /\ ~pipe[p][t].ended
    /\ pipe' = [pipe EXCEPT ![p][t].ended = TRUE]
    /\ UNCHANGED <<main, seed, theirs, send, recv, mine, their, bucket, net, aborted>>

-----------------------------------------------------------------------------
(* initSend. *)

SendAt(p, t, pc)     == ~aborted[p] /\ send[p][t].pc = pc
SetSend(p, t, state) == send' = [send EXCEPT ![p][t] = state]

\* The indices of circuits of thread t among the opened ones, in order.
Opened(selection, t) ==
    LET upTo[n \in 0..NumOpened] ==
            IF n = 0 THEN <<>>
            ELSE IF selection[1][n-1] \in Share(t) THEN Append(upTo[n-1], selection[1][n-1])
                 ELSE upTo[n-1]
    IN  upTo[NumOpened]

\* CircuitPackage::init for the thread's range: tables, k-probe commitments,
\* output commitment.  Then a synchronous send, which ends when it is out.
SendCircuits(p, t) ==
    /\ SendAt(p, t, "garble")
    /\ Put(RecvEnd(Other(p), t),
           [n \in 1..Cardinality(Share(t)) |-> Msg("circuit", <<Start(t) + n - 1>>, <<>>)]
               \o <<Dummy>>)
    /\ SetSend(p, t, [send[p][t] EXCEPT !.pc = "garbled"])
    /\ UNCHANGED <<main, seed, theirs, pipe, recv, mine, their, bucket, aborted>>

AfterSync == [garbled |-> "initOT", committed |-> "open", opened |-> "proof",
              bucketed |-> "kprobe"]

\* A synchronous send returns.
SendSync(p, t) ==
    /\ ~aborted[p]
    /\ send[p][t].pc \in DOMAIN AfterSync
    /\ Len(net[RecvEnd(Other(p), t)]) <= Kernel
    /\ SetSend(p, t, [send[p][t] EXCEPT !.pc = AfterSync[@]])
    /\ UNCHANGED <<main, seed, theirs, pipe, recv, mine, their, bucket, net, aborted>>

AfterOTsShort(p, ot) == ot + Encoding[p] - 1          \* fault: overlapping OTs
AfterOTs(p, ot)      == ot + Encoding[p]

\* CircuitPackage::initOT: once the circuit's OTs are there, commit to the
\* labels of the garbler's own input in the order of the OT choice bits.
SendInitOT(p, t) ==
    LET s == send[p][t]  c == s.next  last == c + 1 \notin Share(t) IN
    /\ SendAt(p, t, "initOT")
    /\ pipe[p][t].recv >= s.ot + Encoding[p]
    /\ mine' = [mine EXCEPT ![p][c].ot = s.ot]
    /\ Put(RecvEnd(Other(p), t),
           <<Msg("commits", <<c>>, <<s.ot>>)>> \o IF last THEN <<Dummy>> ELSE <<>>)
    /\ SetSend(p, t, [s EXCEPT !.ot = AfterOTs(p, @), !.next = c + 1,
                               !.pc = IF last THEN "committed" ELSE "initOT"])
    /\ UNCHANGED <<main, seed, theirs, pipe, recv, their, bucket, aborted>>

ToOpenOwn(p) == seed[p]                               \* fault: p's own selection
ToOpen(p)    == theirs[p]

\* CircuitPackage::open, clear: the circuits of the range the peer wants opened.
SendOpen(p, t) ==
    LET opened == Opened(ToOpen(p), t) IN
    /\ SendAt(p, t, "open")
    /\ theirs[p] # <<>>
    /\ Put(RecvEnd(Other(p), t),
           [n \in 1..Len(opened) |-> Msg("open", <<opened[n]>>, <<mine[p][opened[n]].ot>>)]
               \o <<Dummy>>)
    /\ mine' = [mine EXCEPT ![p] = [c \in Circuit |->
                   [mine[p][c] EXCEPT !.cleared = @ \/ \E n \in 1..Len(opened) : opened[n] = c]]]
    /\ SetSend(p, t, [send[p][t] EXCEPT !.pc = "opened"])
    /\ UNCHANGED <<main, seed, theirs, pipe, recv, their, bucket, aborted>>

\* The XOR of the OT messages of the circuits just opened.
SendProof(p, t) ==
    /\ SendAt(p, t, "proof")
    /\ Put(RecvEnd(Other(p), t), <<Msg("proof", <<>>, <<>>)>>)
    /\ SetSend(p, t, [send[p][t] EXCEPT !.pc = "bucket"])
    /\ UNCHANGED <<main, seed, theirs, pipe, recv, mine, their, bucket, aborted>>

\* Bucket::initSend: PsiReceiver::init, then pick the circuits of the bucket.
SendBucket(p, t) ==
    LET s == send[p][t] IN
    /\ SendAt(p, t, "bucket")
    /\ pipe[p][t].recv >= s.ot + PsiOTs
    /\ bucket' = [bucket EXCEPT ![p][s.bckt].psiRecv = s.ot,
                                ![p][s.bckt].mine = Picked(theirs[p], s.iter)]
    /\ SetSend(p, t, [s EXCEPT !.ot = @ + PsiOTs, !.pc = "translate"])
    /\ UNCHANGED <<main, seed, theirs, pipe, recv, mine, their, net, aborted>>

\* On to the thread's next bucket; the next loop starts again at bucket t.
StepOver(s, t, again, after) ==                       \* fault: past the last bucket
    LET more == s.bckt + NumInitThreads <= NumExe IN
    [s EXCEPT !.bckt = IF more THEN @ + NumInitThreads ELSE t,
              !.pc   = IF more THEN again ELSE after]
Step(s, t, again, after) ==
    LET more == s.bckt + NumInitThreads < NumExe IN
    [s EXCEPT !.bckt = IF more THEN @ + NumInitThreads ELSE t,
              !.pc   = IF more THEN again ELSE after]

\* The rest of Bucket::initSend: wait for mOTInitDoneFutr of every circuit of
\* the bucket, send the output translations and the input deltas.
SendTranslation(p, t) ==
    LET s    == send[p][t]
        cirs == bucket[p][s.bckt].mine
        next == Step(s, t, "bucket", "bucketed")
    IN
    /\ SendAt(p, t, "translate")
    /\ \A n \in 1..BucketSize : mine[p][cirs[n]].ot # Unset
    /\ Put(RecvEnd(Other(p), t),
           <<Msg("deltas", cirs, <<>>)>> \o IF next.pc = "bucketed" THEN <<Dummy>> ELSE <<>>)
    /\ SetSend(p, t, [next EXCEPT !.iter = @ + BucketSize + Skip(s.bckt)])
    /\ UNCHANGED <<main, seed, theirs, pipe, recv, mine, their, bucket, aborted>>

\* The thread, and so the pipe, a circuit belongs to.
Owner(c) == CHOOSE t \in Thread : c \in Share(t)

\* The OTs of peer's circuit c that p, as OT sender, reads from first on; what
\* has not been computed yet reads as zeros, which stand for no OT.
OTSendMsgs(p, c) ==
    LET first == their[p][c].ot IN
    IF pipe[Other(p)][Owner(c)].send >= first + Encoding[Other(p)] THEN first ELSE Unset

\* Bucket::initKProbeInputSend: once the peer's deltas are in, send the k-probe
\* input labels of each own circuit under the OTs of the peer's.
SendKProbe(p, t) ==
    LET s == send[p][t]  b == bucket[p][s.bckt] IN
    /\ SendAt(p, t, "kprobe")
    /\ b.deltas
    /\ Put(RecvEnd(Other(p), t),
           <<Msg("labels", b.mine, [n \in 1..BucketSize |-> OTSendMsgs(p, b.their[n])])>>)
    /\ SetSend(p, t, Step(s, t, "kprobe", "done"))
    /\ UNCHANGED <<main, seed, theirs, pipe, recv, mine, their, bucket, aborted>>

-----------------------------------------------------------------------------
(* initRecv. *)

RecvAt(p, t, pc)     == ~aborted[p] /\ recv[p][t].pc = pc
SetRecv(p, t, state) == recv' = [recv EXCEPT ![p][t] = state]

\* CommCircuitPackage::init for the range, then the dummy message.
RecvCircuits(p, t) ==
    LET n == Cardinality(Share(t)) IN
    /\ RecvAt(p, t, "circuits")
    /\ Arrived(RecvEnd(p, t), n + 1)
    /\ Drop(RecvEnd(p, t), n + 1)
    /\ their' = [their EXCEPT ![p] = [c \in Circuit |->
                    [their[p][c] EXCEPT !.received = @ \/ c \in Share(t)]]]
    /\ SetRecv(p, t, [recv[p][t] EXCEPT !.pc = "initOT"])
    /\ UNCHANGED <<main, seed, theirs, pipe, send, mine, bucket, aborted>>

\* The OTs a thread of p waits for, and those it takes, per circuit: initRecv
\* waits for its own encodingSize and takes the peer's.
AwaitedNone(p) == 0                                   \* fault: does not wait
Awaited(p)     == Encoding[p]
Taken(p)       == Encoding[Other(p)]

\* CommCircuitPackage::initOT: receive the input commitments of a circuit and
\* set its OTs aside.  The last one fulfils mCirRecvProm.
RecvInitOT(p, t) ==
    LET r == recv[p][t]  c == r.next IN
    /\ RecvAt(p, t, "initOT")
    /\ pipe[Other(p)][t].send >= r.ot + Awaited(p)
    /\ Arrived(RecvEnd(p, t), 1)
    /\ Drop(RecvEnd(p, t), 1)
    /\ their' = [their EXCEPT ![p][c].ot = r.ot]
    /\ SetRecv(p, t, [r EXCEPT !.ot = @ + Taken(p), !.next = c + 1,
                               !.pc = IF c + 1 \in Share(t) THEN "initOT" ELSE "committed"])
    /\ UNCHANGED <<main, seed, theirs, pipe, send, mine, bucket, aborted>>

AfterDummy == [committed |-> "open", bucketed |-> "kprobe"]

RecvDummy(p, t) ==
    /\ ~aborted[p]
    /\ recv[p][t].pc \in DOMAIN AfterDummy
    /\ Arrived(RecvEnd(p, t), 1)
    /\ Drop(RecvEnd(p, t), 1)
    /\ SetRecv(p, t, [recv[p][t] EXCEPT !.pc = AfterDummy[@]])
    /\ UNCHANGED <<main, seed, theirs, pipe, send, mine, their, bucket, aborted>>

\* initRecv allocates blockBuff for the tables and the peer's encoding, open
\* asserts that it holds the own encoding.
BlockBuff(p) == LET tables == 2 * NonXorGates
                IN  IF tables > Encoding[Other(p)] THEN tables ELSE Encoding[Other(p)]

\* CommCircuitPackage::open for the circuits p chose, up to the dummy message:
\* regarble and compare, XOR up the OT messages the peer says it received.
RecvOpen(p, t) ==
    LET ch == RecvEnd(p, t)  opened == Opened(seed[p], t)  n == Len(opened)
        Regarbled == /\ n > 0 => BlockBuff(p) >= Encoding[p]
                     /\ \A m \in 1..n : net[ch][m].cirs = <<opened[m]>>
        Sums      == \A m \in 1..n : net[ch][m].ots = <<OTSendMsgs(p, opened[m])>>
    IN
    /\ RecvAt(p, t, "open")
    /\ Arrived(ch, n + 1)
    /\ \/ /\ Regarbled
          /\ Drop(ch, n + 1)
          /\ SetRecv(p, t, [recv[p][t] EXCEPT !.pc = IF Sums THEN "proof" ELSE "noproof"])
          /\ UNCHANGED <<main, seed, theirs, pipe, send, mine, their, bucket, aborted>>
       \/ /\ ~Regarbled
          /\ Abort(p)

\* The peer's XOR of OT messages must equal the one computed in RecvOpen.
RecvProof(p, t) ==
    /\ Arrived(RecvEnd(p, t), 1)
    /\ \/ /\ RecvAt(p, t, "proof")
          /\ Drop(RecvEnd(p, t), 1)
          /\ their' = [their EXCEPT ![p] = [c \in Circuit |->
                 [their[p][c] EXCEPT !.checked = @ \/ \E n \in 1..Len(Opened(seed[p], t)) :
                                                  Opened(seed[p], t)[n] = c]]]
          /\ SetRecv(p, t, [recv[p][t] EXCEPT !.pc = "bucket"])
          /\ UNCHANGED <<main, seed, theirs, pipe, send, mine, bucket, aborted>>
       \/ /\ RecvAt(p, t, "noproof")
          /\ Abort(p)

\* Bucket::initRecv, PsiSender::init: set the OTs of the intersection aside.
RecvBucket(p, t) ==
    LET r == recv[p][t] IN
    /\ RecvAt(p, t, "bucket")
    /\ pipe[Other(p)][t].send >= r.ot + PsiOTs
    /\ bucket' = [bucket EXCEPT ![p][r.bckt].psiSend = r.ot]
    /\ SetRecv(p, t, [r EXCEPT !.ot = @ + PsiOTs, !.pc = "deltas"])
    /\ UNCHANGED <<main, seed, theirs, pipe, send, mine, their, net, aborted>>

\* The rest of Bucket::initRecv: pick the peer's circuits, wait for their
\* mOTInitDoneFutr, receive translations and deltas, fulfil mTheirDeltasProm.
RecvDeltas(p, t) ==
    LET r == recv[p][t]  cirs == Picked(seed[p], r.iter) IN
    /\ RecvAt(p, t, "deltas")
    /\ Arrived(RecvEnd(p, t), 1)
    /\ \A n \in 1..BucketSize : their[p][cirs[n]].ot # Unset
    /\ Drop(RecvEnd(p, t), 1)
    /\ bucket' = [bucket EXCEPT ![p][r.bckt].their = cirs, ![p][r.bckt].deltas = TRUE]
    /\ SetRecv(p, t, [Step(r, t, "bucket", "bucketed") EXCEPT
                         !.iter = @ + BucketSize + Skip(r.bckt)])
    /\ UNCHANGED <<main, seed, theirs, pipe, send, mine, their, aborted>>

\* Bucket::initKProbeInputRecv: once the own circuits are bucketed, unmask the
\* labels with the OTs received and compare them with the commitments.
RecvKProbe(p, t) ==
    LET r == recv[p][t]  b == bucket[p][r.bckt]  ch == RecvEnd(p, t)
        Opens == /\ Head(net[ch]).cirs = b.their
                 /\ Head(net[ch]).ots = [n \in 1..BucketSize |-> mine[p][b.mine[n]].ot]
    IN
    /\ RecvAt(p, t, "kprobe")
    /\ b.mine # <<>>
    /\ Arrived(ch, 1)
    /\ \/ /\ Opens
          /\ Drop(ch, 1)
          /\ bucket' = [bucket EXCEPT ![p][r.bckt].labels = TRUE]
          /\ SetRecv(p, t, Step(r, t, "kprobe", "done"))
          /\ UNCHANGED <<main, seed, theirs, pipe, send, mine, their, aborted>>
       \/ /\ ~Opens
          /\ Abort(p)

-----------------------------------------------------------------------------

SendStep(p, t) ==
    \/ SendCircuits(p, t) \/ SendSync(p, t) \/ SendInitOT(p, t) \/ SendOpen(p, t)
    \/ SendProof(p, t) \/ SendBucket(p, t) \/ SendTranslation(p, t) \/ SendKProbe(p, t)
RecvStep(p, t) ==
    \/ RecvCircuits(p, t) \/ RecvInitOT(p, t) \/ RecvDummy(p, t) \/ RecvOpen(p, t)
    \/ RecvProof(p, t) \/ RecvBucket(p, t) \/ RecvDeltas(p, t) \/ RecvKProbe(p, t)
MainStep(p) ==
    MainAnnounce(p) \/ MainStart(p) \/ MainReveal(p) \/ MainSets(p) \/ MainOnline(p)

Next ==
    \E p \in Party :
        \/ MainStep(p)
        \/ \E t \in Thread : \/ OTReceive(p, t) \/ OTSend(p, t) \/ OTEnd(p, t)
                             \/ SendStep(p, t) \/ RecvStep(p, t)

\* Every thread keeps running, and the OT extensions of a pipe progress.
Fairness ==
    \A p \in Party :
        /\ WF_vars(MainStep(p))
        /\ \A t \in Thread :
            /\ WF_vars(SendStep(p, t)) /\ WF_vars(RecvStep(p, t))
            /\ WF_vars(OTReceive(p, t)) /\ WF_vars(OTSend(p, t)) /\ WF_vars(OTEnd(p, t))

SafetySpec == Init /\ [][Next]_vars
Spec       == SafetySpec /\ Fairness

-----------------------------------------------------------------------------

MainPc == {"announce", "params", "circuits", "reveal", "join", "online"}
SendPc == {"unborn", "garble", "garbled", "initOT", "committed", "open", "opened", "proof",
           "bucket", "translate", "bucketed", "kprobe", "done"}
RecvPc == {"unborn", "circuits", "initOT", "committed", "open", "proof", "noproof", "bucket",
           "deltas", "bucketed", "kprobe", "done"}

OTIdx == 0..NumOTs(0) + NumOTs(1)
Worker(pcs) == [pc : pcs, next : 0..NumCircuits, ot : OTIdx, bckt : Bucket,
                iter : 0..2 * NumCircuits]
Picks == {<<>>} \cup [1..BucketSize -> Circuit]

TypeOK ==
    /\ main \in [Party -> MainPc]
    /\ seed \in [Party -> Seeds]
    /\ theirs \in [Party -> Seeds \cup {<<>>}]
    /\ pipe \in [Party -> [Thread -> [recv : OTIdx, send : OTIdx, ended : BOOLEAN]]]
    /\ send \in [Party -> [Thread -> Worker(SendPc)]]
    /\ recv \in [Party -> [Thread -> Worker(RecvPc)]]
    /\ mine \in [Party -> [Circuit -> [ot : OTIdx \cup {Unset}, cleared : BOOLEAN]]]
    /\ their \in [Party -> [Circuit ->
            [received : BOOLEAN, ot : OTIdx \cup {Unset}, checked : BOOLEAN]]]
    /\ \A p \in Party, b \in Bucket :
        LET k == bucket[p][b] IN
        /\ k.mine \in Picks /\ k.their \in Picks
        /\ k.psiSend \in OTIdx \cup {Unset} /\ k.psiRecv \in OTIdx \cup {Unset}
        /\ k.deltas \in BOOLEAN /\ k.labels \in BOOLEAN
    /\ DOMAIN net = Ends
    /\ aborted \in [Party -> BOOLEAN]

\* Parties that follow the code never see a commitment or proof that fails.
NeverAborts == \A p \in Party : ~aborted[p]

\* When a party's seed goes out, every circuit the peer garbled and every
\* commitment to its input is in: it can no longer adapt to the selection.
RevealedLate ==
    \A p \in Party : main[p] \in {"reveal", "join", "online"} =>
        \A c \in Circuit : /\ their[p][c].received /\ their[p][c].ot # Unset
                           /\ mine[Other(p)][c].ot # Unset

\* No circuit is used that was opened, none is used twice, and the two parties
\* put the same circuits into a bucket in the same order.
BucketsAgree ==
    /\ \A p \in Party, a, b \in Bucket : \A m, n \in 1..BucketSize :
        bucket[p][a].mine # <<>> /\ bucket[p][b].mine # <<>> =>
            /\ ~mine[p][bucket[p][a].mine[m]].cleared
            /\ bucket[p][a].mine[m] = bucket[p][b].mine[n] => a = b /\ m = n
    /\ \A p \in Party, b \in Bucket :
        bucket[p][b].deltas => bucket[p][b].their = bucket[Other(p)][b].mine

\* The two ends of an OT pipe use the same OTs for the same purpose.
OTsAgree ==
    \A p \in Party :
        /\ \A c \in Circuit :
            mine[p][c].ot # Unset /\ their[Other(p)][c].ot # Unset =>
                mine[p][c].ot = their[Other(p)][c].ot
        /\ \A b \in Bucket :
            bucket[p][b].psiRecv # Unset /\ bucket[Other(p)][b].psiSend # Unset =>
                bucket[p][b].psiRecv = bucket[Other(p)][b].psiSend

\* No OT is used for two: those of a pipe's circuits follow each other, and so do
\* those of its buckets, which come after them.
OTsDisjoint ==
    \A p \in Party :
        /\ \A c, d \in Circuit :
            c < d /\ mine[p][c].ot # Unset /\ mine[p][d].ot # Unset /\ Owner(c) = Owner(d) =>
                mine[p][c].ot + Encoding[p] <= mine[p][d].ot
        /\ \A a, b \in Bucket :
            a < b /\ bucket[p][a].psiRecv # Unset /\ bucket[p][b].psiRecv # Unset
                    /\ a % NumInitThreads = b % NumInitThreads =>
                bucket[p][a].psiRecv + PsiOTs <= bucket[p][b].psiRecv
        /\ \A c \in Circuit, b \in Bucket :
            mine[p][c].ot # Unset /\ bucket[p][b].psiRecv # Unset
                    /\ Owner(c) = b % NumInitThreads =>
                mine[p][c].ot + Encoding[p] <= bucket[p][b].psiRecv

\* The OTs a circuit is given are complete when it is given them: reading
\* otDoneIdx once, at that point, is enough for every later use.
OTsComplete ==
    \A p \in Party, c \in Circuit :
        /\ mine[p][c].ot # Unset => pipe[p][Owner(c)].recv >= mine[p][c].ot + Encoding[p]
        /\ their[p][c].ot # Unset =>
            pipe[Other(p)][Owner(c)].send >= their[p][c].ot + Encoding[Other(p)]

\* The buffer that open regarbles into is as large as open asserts.
BlockBuffFits ==
    \A p \in Party, t \in Thread :
        recv[p][t].pc = "open" => BlockBuff(p) >= Encoding[p]

\* Parties started with different parameters both stop before any circuit is sent.
MismatchStops ==
    Params[0] # Params[1] => \A p \in Party :
        /\ main[p] \in {"announce", "params"}
        /\ \A t \in Thread : send[p][t].pc = "unborn"

\* The online phase starts when the peer's opened circuits are checked, every
\* bucket is filled and all OTs, in both directions, passed their check.
OnlineReady ==
    \A p \in Party : main[p] = "online" =>
        /\ \A n \in 0..NumOpened-1 : their[p][seed[p][1][n]].checked
        /\ \A b \in Bucket : bucket[p][b].labels /\ bucket[p][b].deltas
        /\ \A q \in Party, t \in Thread : pipe[q][t].ended

\* What the offline phase takes from the OT extension is there, is used once and for the
\* same purpose at both ends, and nothing throws.
OTsUsedOnce == TypeOK /\ NeverAborts /\ OTsComplete /\ OTsAgree /\ OTsDisjoint

\* Who gets online has the same buckets as its peer, with all the online threads use.
BucketsReady == BucketsAgree /\ OnlineReady /\ MismatchStops

\* Both parties reach the online phase.
Online == \A p \in Party : main[p] = "online"
BothOnline == <>Online

=============================================================================
