------------------------- MODULE DualExOnlineProofs -------------------------
(***************************************************************************)
(* The online phase for every number of circuits, threads and executions,  *)
(* and for programs that may end.                                          *)
(*                                                                         *)
(* First the types, and the countdowns behind the promises of a bucket.    *)
(* Then what the messages under way say about the two parties.  WireInv    *)
(* ties what is on each channel to the positions of its sender and its     *)
(* receiver.  SeedInv follows: a party that reveals the seed of its output *)
(* labels has heard from every thread of the peer.  WaitInv says which     *)
(* position of which thread each promise of a bucket stands for.  From the *)
(* three: seeds after commitments, threads in step, clean close.           *)
(***************************************************************************)
EXTENDS DualExOnline, FiniteSetTheorems, SequenceTheorems, TLAPS

LEMMA EndsType ==
    ASSUME NEW p \in Party
    PROVE  /\ Other(p) \in Party
           /\ MainEnd(p) \in Ends
           /\ LoopEnd(p) \in Ends
           /\ \A i \in Thread : EvalEnd(p, i) \in Ends /\ SubEnd(p, i) \in Ends
  BY SMT DEF Party, Other, MainEnd, LoopEnd, EvalEnd, SubEnd, Ends

LEMMA PlainType ==
    ASSUME NEW kind \in {"correction", "seed", "own", "their", "permute", "commits", "open"},
           NEW k \in Exec, NEW c \in Nat
    PROVE  Plain(kind, k, c) \in Msg
  BY DEF Plain, Message, Msg, NoRow, PsiVal, Exec

LEMMA LabelMessagesType ==
    ASSUME NEW p \in Party, NEW i \in Thread, NEW k \in Exec
    PROVE  LabelMessages(p, i, k) \in Seq(Msg)
  <1> DEFINE n == (BucketSize - i + NumThreads - 1) \div NumThreads
             cs == CircuitsOf(i)
  <1>1. n \in Nat
    BY SizeAssumption DEF Thread
  <1>2. cs = [j \in 1..n |-> i + (j - 1) * NumThreads]
    BY DEF CircuitsOf
  <1>3. ASSUME NEW j \in 1..n
        PROVE  cs[j] \in Nat
    <2>1. cs[j] = i + (j - 1) * NumThreads
      BY <1>2
    <2>2. j - 1 \in Nat /\ NumThreads \in Nat /\ i \in Nat
      BY <1>1, SizeAssumption DEF Thread
    <2>3. (j - 1) * NumThreads \in Nat
      BY <2>2
    <2> QED BY <2>1, <2>2, <2>3
  <1>4. ASSUME NEW kind \in {"own", "their"}
        PROVE  LabelsOf(p, i, k, kind) \in Seq(Msg)
    <2>1. ASSUME NEW j \in 1..n
          PROVE  Message(kind, k, cs[j], InputLen[p], NoRow) \in Msg
      BY <1>3, SizeAssumption DEF Message, Msg, NoRow, PsiVal
    <2>2. LabelsOf(p, i, k, kind) =
              [j \in 1..n |-> Message(kind, k, cs[j], InputLen[p], NoRow)]
      BY <1>2 DEF LabelsOf
    <2>3. LabelsOf(p, i, k, kind) \in [1..n -> Msg]
      BY <2>1, <2>2
    <2> QED BY <2>3, <1>1
  <1> QED BY <1>4 DEF LabelMessages

LEMMA SendType ==
    ASSUME TypeOK, NEW ch \in Ends, NEW msgs \in Seq(Msg), Send(ch, msgs)
    PROVE  net' \in [Ends -> Seq(Msg)]
  BY DEF TypeOK, Send

LEMMA ConsumeType ==
    ASSUME TypeOK, NEW ch \in Ends, Receivable(ch), Consume(ch)
    PROVE  /\ net' \in [Ends -> Seq(Msg)]
           /\ Head(net[ch]) \in Msg
  BY DEF TypeOK, Receivable, Consume

LEMMA SetBucketType ==
    ASSUME TypeOK, NEW p \in Party, NEW k \in Exec, NEW b \in BucketType,
           SetBucket(p, k, b)
    PROVE  bucket' \in [Party -> [Exec -> BucketType]]
  BY DEF TypeOK, SetBucket

LEMMA BucketsTyped ==
    ASSUME TypeOK, NEW p \in Party, NEW k \in Exec
    PROVE  bucket[p][k] \in BucketType
  BY DEF TypeOK

\* What the actions write into a bucket keeps it one.
LEMMA BucketEdits ==
    ASSUME NEW b \in BucketType, NEW i \in Circuit
    PROVE  /\ [b EXCEPT !.input = TRUE] \in BucketType
           /\ [b EXCEPT !.correction = TRUE] \in BucketType
           /\ [b EXCEPT !.translation = TRUE] \in BucketType
           /\ [b EXCEPT !.labelsIn = @ \cup {i}] \in BucketType
           /\ [b EXCEPT !.permutes = @ \cup {i}, !.permuteLeft = @ - 1] \in BucketType
           /\ [b EXCEPT !.commits = @ \cup {i}, !.commitLeft = @ - 1] \in BucketType
           /\ [b EXCEPT !.transLeft = @ - 1] \in BucketType
           /\ \A v \in Value : [b EXCEPT !.result[i] = v] \in BucketType
           /\ \A v \in PsiVal : /\ [b EXCEPT !.psi[i] = v] \in BucketType
                               /\ [b EXCEPT !.pse[i] = v, !.pseLeft = @ - 1] \in BucketType
           /\ \A o \in Value : [b EXCEPT !.output = o] \in BucketType
           /\ \A o \in Value \cup {"exception"} :
                [b EXCEPT !.misses = @ + 1, !.output = o] \in BucketType
  <1>1. /\ [b EXCEPT !.input = TRUE] \in BucketType
        /\ [b EXCEPT !.correction = TRUE] \in BucketType
        /\ [b EXCEPT !.translation = TRUE] \in BucketType
    BY DEF BucketType
  <1>2. [b EXCEPT !.labelsIn = @ \cup {i}] \in BucketType
    BY DEF BucketType
  <1>f. /\ b.permutes \cup {i} \in SUBSET Circuit /\ b.permuteLeft - 1 \in Int
        /\ b.commits \cup {i} \in SUBSET Circuit /\ b.commitLeft - 1 \in Int
        /\ b.pse \in [Circuit -> PsiVal] /\ b.pseLeft - 1 \in Int
        /\ b.misses + 1 \in Nat
    BY DEF BucketType
  <1>3. ASSUME NEW S \in SUBSET Circuit, NEW n \in Int
        PROVE  /\ [b EXCEPT !.permutes = S, !.permuteLeft = n] \in BucketType
               /\ [b EXCEPT !.commits = S, !.commitLeft = n] \in BucketType
    BY DEF BucketType
  <1>4. [b EXCEPT !.permutes = @ \cup {i}, !.permuteLeft = @ - 1] \in BucketType
    BY <1>f, <1>3
  <1>5. [b EXCEPT !.commits = @ \cup {i}, !.commitLeft = @ - 1] \in BucketType
    BY <1>f, <1>3
  <1>6. [b EXCEPT !.transLeft = @ - 1] \in BucketType
    BY DEF BucketType
  <1>7. ASSUME NEW v \in Value
        PROVE  [b EXCEPT !.result[i] = v] \in BucketType
    BY DEF BucketType
  <1>8. ASSUME NEW v \in PsiVal
        PROVE  [b EXCEPT !.psi[i] = v] \in BucketType
    BY DEF BucketType
  <1>9. ASSUME NEW v \in PsiVal
        PROVE  [b EXCEPT !.pse[i] = v, !.pseLeft = @ - 1] \in BucketType
    <2>1. [b.pse EXCEPT ![i] = v] \in [Circuit -> PsiVal]
      BY <1>f
    <2>2. ASSUME NEW f \in [Circuit -> PsiVal], NEW n \in Int
          PROVE  [b EXCEPT !.pse = f, !.pseLeft = n] \in BucketType
      BY DEF BucketType
    <2> QED BY <1>f, <2>1, <2>2
  <1>10. ASSUME NEW o \in Value
         PROVE  [b EXCEPT !.output = o] \in BucketType
    BY DEF BucketType
  <1>11. ASSUME NEW o \in Value \cup {"exception"}
         PROVE  [b EXCEPT !.misses = @ + 1, !.output = o] \in BucketType
    <2>1. ASSUME NEW n \in Nat
          PROVE  [b EXCEPT !.misses = n, !.output = o] \in BucketType
      BY DEF BucketType
    <2> QED BY <1>f, <2>1
  <1> QED BY <1>1, <1>2, <1>4, <1>5, <1>6, <1>7, <1>8, <1>9, <1>10, <1>11

LEMMA SomeCircuit == 0 \in Circuit
  BY SizeAssumption DEF Circuit

\* A thread inside an execution works on an execution, and has a next one.
LEMMA InExec ==
    ASSUME NEW k \in 0..NumExe, k < NumExe
    PROVE  k \in Exec /\ k + 1 \in 0..NumExe
  BY SizeAssumption DEF Exec

LEMMA MoveType ==
    ASSUME NEW pcs, NEW rest, NEW t \in At(pcs, rest), NEW pc \in pcs
    PROVE  /\ t.ex < NumExe \/ pc \in rest => Go(t, pc) \in At(pcs, rest)
           /\ t.ex < NumExe /\ pc \in rest => Repeat(t, pc) \in At(pcs, rest)
           /\ t.pc \notin rest => t.ex < NumExe
  <1>1. t \in [ex : 0..NumExe, pc : pcs] /\ (t.pc \in rest \/ t.ex < NumExe)
    BY DEF At
  <1>2. /\ Go(t, pc) \in [ex : 0..NumExe, pc : pcs]
        /\ Go(t, pc).ex = t.ex /\ Go(t, pc).pc = pc
    BY <1>1 DEF Go
  <1>3. Repeat(t, pc).pc = pc /\ Repeat(t, pc).ex = t.ex + 1
    BY <1>1 DEF Repeat
  <1>4. t.ex < NumExe => Repeat(t, pc) \in [ex : 0..NumExe, pc : pcs]
    BY <1>1, SizeAssumption DEF Repeat
  <1> QED BY <1>1, <1>2, <1>3, <1>4 DEF At

LEMMA ThreadsTyped ==
    ASSUME TypeOK, NEW p \in Party
    PROVE  /\ main[p] \in MainAtType /\ main[p].ex \in 0..NumExe
           /\ loop[p] \in LoopAtType /\ loop[p].ex \in 0..NumExe
           /\ \A i \in Thread :
                /\ sub[p][i] \in SubAtType /\ sub[p][i].ex \in 0..NumExe
                /\ eval[p][i] \in EvalAtType /\ eval[p][i].ex \in 0..NumExe
  BY DEF TypeOK, At, MainAtType, LoopAtType, SubAtType, EvalAtType

\* Moving one thread keeps the types of all of them.
LEMMA MainMoves ==
    ASSUME TypeOK, NEW p \in Party, NEW t \in MainAtType, main' = [main EXCEPT ![p] = t]
    PROVE  main' \in [Party -> MainAtType]
  BY DEF TypeOK
LEMMA LoopMoves ==
    ASSUME TypeOK, NEW p \in Party, NEW t \in LoopAtType, loop' = [loop EXCEPT ![p] = t]
    PROVE  loop' \in [Party -> LoopAtType]
  BY DEF TypeOK
LEMMA SubMoves ==
    ASSUME TypeOK, NEW p \in Party, NEW i \in Thread, NEW t \in SubAtType,
           sub' = [sub EXCEPT ![p][i] = t]
    PROVE  sub' \in [Party -> [Thread -> SubAtType]]
  BY DEF TypeOK
LEMMA EvalMoves ==
    ASSUME TypeOK, NEW p \in Party, NEW i \in Thread, NEW t \in EvalAtType,
           eval' = [eval EXCEPT ![p][i] = t]
    PROVE  eval' \in [Party -> [Thread -> EvalAtType]]
  BY DEF TypeOK

LEMMA AbortType ==
    ASSUME TypeOK, NEW p \in Party, Abort(p)
    PROVE  TypeOK'
  BY DEF TypeOK, Abort

LEMMA InitType == Init => TypeOK
  <1> SUFFICES ASSUME Init PROVE TypeOK
    OBVIOUS
  <1>1. NewBucket \in BucketType
    BY SizeAssumption DEF NewBucket, BucketType, NoRow, PsiVal, Value
  <1>2. bucket \in [Party -> [Exec -> BucketType]]
    BY <1>1 DEF Init
  <1>3. /\ [ex |-> 0, pc |-> "idle"] \in MainAtType
        /\ [ex |-> 0, pc |-> "correction"] \in LoopAtType
        /\ [ex |-> 0, pc |-> "labels"] \in SubAtType
        /\ [ex |-> 0, pc |-> "their"] \in EvalAtType
    BY SizeAssumption DEF At, MainPc, LoopPc, SubPc, EvalPc,
                          MainAtType, LoopAtType, SubAtType, EvalAtType
  <1>4. /\ main \in [Party -> MainAtType]
        /\ loop \in [Party -> LoopAtType]
        /\ sub \in [Party -> [Thread -> SubAtType]]
        /\ eval \in [Party -> [Thread -> EvalAtType]]
    BY <1>3 DEF Init
  <1>5. net \in [Ends -> Seq(Msg)]
    BY DEF Init
  <1>6. /\ labels \in [Party -> [Circuit -> Exec \cup {NoExec}]]
        /\ outLabels \in [Party -> Exec \cup {NoExec}]
        /\ aborted \in [Party -> BOOLEAN]
    BY DEF Init
  <1> QED
    BY <1>2, <1>4, <1>5, <1>6 DEF TypeOK

-----------------------------------------------------------------------------
(* TypeOK is inductive: one lemma per thread, one step per action. *)

LEMMA MainStepType ==
    ASSUME TypeOK, NEW p \in Party, MainStep(p)
    PROVE  TypeOK'
  <1> DEFINE k == main[p].ex
             b == bucket[p][k]
  <1>t. main[p] \in MainAtType /\ k \in 0..NumExe
    BY ThreadsTyped
  <1>1. CASE MainCall(p)
    <2>1. k < NumExe /\ k \in Exec
      BY <1>1, <1>t, InExec DEF MainCall
    <2>2. main' \in [Party -> MainAtType]
      BY <1>1, <1>t, <2>1, MoveType, MainMoves DEF MainCall, Calling, MainAtType, MainPc
    <2>3. [b EXCEPT !.input = TRUE] \in BucketType
      BY <2>1, BucketsTyped, BucketEdits, SomeCircuit
    <2>4. bucket' \in [Party -> [Exec -> BucketType]]
      BY <1>1, <2>1, <2>3, SetBucketType DEF MainCall
    <2>5. <<Plain("correction", k, 0)>> \in Seq(Msg)
      BY <2>1, PlainType
    <2>6. net' \in [Ends -> Seq(Msg)]
      BY <1>1, <2>5, EndsType, SendType DEF MainCall
    <2> QED BY <1>1, <2>2, <2>4, <2>6 DEF MainCall, TypeOK
  <1>2. CASE MainCheckLabels(p)
    <2>1. CASE /\ main' = [main EXCEPT ![p] = Go(@, "seed")]
               /\ UNCHANGED <<loop, sub, eval, bucket, net, labels, outLabels, aborted>>
      <3>1. k < NumExe
        BY <1>2, <1>t, MoveType DEF MainCheckLabels, MainAt, MainAtType, MainPc
      <3>2. main' \in [Party -> MainAtType]
        BY <2>1, <3>1, <1>t, MoveType, MainMoves DEF MainAtType, MainPc
      <3> QED BY <2>1, <3>2 DEF TypeOK
    <2> QED BY <1>2, <2>1, AbortType DEF MainCheckLabels
  <1>3. CASE MainReceiveSeed(p)
    <2>1. k < NumExe /\ k \in Exec
      BY <1>3, <1>t, MoveType, InExec DEF MainReceiveSeed, MainAt, MainAtType, MainPc
    <2>2. main' \in [Party -> MainAtType]
      BY <1>3, <1>t, <2>1, MoveType, MainMoves DEF MainReceiveSeed, MainAtType, MainPc
    <2>3. [b EXCEPT !.translation = TRUE] \in BucketType
      BY <2>1, BucketsTyped, BucketEdits, SomeCircuit
    <2>4. bucket' \in [Party -> [Exec -> BucketType]]
      BY <1>3, <2>1, <2>3, SetBucketType DEF MainReceiveSeed
    <2>5. net' \in [Ends -> Seq(Msg)] /\ Head(net[MainEnd(p)]).ex \in Exec
      BY <1>3, EndsType, ConsumeType DEF MainReceiveSeed, Msg
    <2>6. outLabels' \in [Party -> Exec \cup {NoExec}]
      BY <1>3, <2>5 DEF MainReceiveSeed, TypeOK
    <2> QED BY <1>3, <2>2, <2>4, <2>5, <2>6 DEF MainReceiveSeed, TypeOK
  <1>4. CASE MainReturn(p)
    <2>1. CASE /\ main' = [main EXCEPT ![p] = Repeat(@, "idle")]
               /\ UNCHANGED <<loop, sub, eval, bucket, net, labels, outLabels, aborted>>
      <3>1. k < NumExe
        BY <1>4, <1>t, MoveType DEF MainReturn, MainAt, MainAtType, MainPc
      <3>2. main' \in [Party -> MainAtType]
        BY <2>1, <3>1, <1>t, MoveType, MainMoves DEF MainAtType, MainPc
      <3> QED BY <2>1, <3>2 DEF TypeOK
    <2> QED BY <1>4, <2>1, AbortType DEF MainReturn
  <1>5. CASE MainClose(p)
    <2>1. main' \in [Party -> MainAtType]
      BY <1>5, <1>t, MoveType, MainMoves DEF MainClose, MainAtType, MainPc
    <2> QED BY <1>5, <2>1 DEF MainClose, TypeOK
  <1> QED BY <1>1, <1>2, <1>3, <1>4, <1>5 DEF MainStep

LEMMA LoopStepType ==
    ASSUME TypeOK, NEW p \in Party, LoopStep(p)
    PROVE  TypeOK'
  <1> DEFINE k == loop[p].ex
             b == bucket[p][k]
  <1>t. loop[p] \in LoopAtType /\ k \in 0..NumExe
    BY ThreadsTyped
  <1>1. CASE LoopReceiveCorrection(p)
    <2>1. k < NumExe /\ k \in Exec
      BY <1>1, <1>t, InExec DEF LoopReceiveCorrection, LoopAt
    <2>2. loop' \in [Party -> LoopAtType]
      BY <1>1, <1>t, <2>1, MoveType, LoopMoves DEF LoopReceiveCorrection, LoopAtType, LoopPc
    <2>3. [b EXCEPT !.correction = TRUE] \in BucketType
      BY <2>1, BucketsTyped, BucketEdits, SomeCircuit
    <2>4. bucket' \in [Party -> [Exec -> BucketType]]
      BY <1>1, <2>1, <2>3, SetBucketType DEF LoopReceiveCorrection
    <2>5. net' \in [Ends -> Seq(Msg)]
      BY <1>1, EndsType, ConsumeType DEF LoopReceiveCorrection
    <2> QED BY <1>1, <2>2, <2>4, <2>5 DEF LoopReceiveCorrection, TypeOK
  <1>2. CASE LoopSendSeed(p)
    <2>1. k < NumExe /\ k \in Exec
      BY <1>2, <1>t, InExec DEF LoopSendSeed, LoopAt
    <2>2. loop' \in [Party -> LoopAtType]
      BY <1>2, <1>t, <2>1, MoveType, LoopMoves DEF LoopSendSeed, LoopAtType, LoopPc
    <2>3. <<Plain("seed", k, 0)>> \in Seq(Msg)
      BY <2>1, PlainType
    <2>4. net' \in [Ends -> Seq(Msg)]
      BY <1>2, <2>3, EndsType, SendType DEF LoopSendSeed
    <2> QED BY <1>2, <2>2, <2>4 DEF LoopSendSeed, TypeOK
  <1> QED BY <1>1, <1>2 DEF LoopStep

LEMMA ThreadIsCircuit == Thread \subseteq Circuit /\ Thread \subseteq Nat
  BY SizeAssumption DEF Thread, Circuit

LEMMA SubStepType ==
    ASSUME TypeOK, NEW p \in Party, NEW i \in Thread, SubStep(p, i)
    PROVE  TypeOK'
  <1> DEFINE k == sub[p][i].ex
             b == bucket[p][k]
  <1>t. sub[p][i] \in SubAtType /\ k \in 0..NumExe
    BY ThreadsTyped
  <1>k. k < NumExe /\ k \in Exec
    BY <1>t, InExec DEF SubStep, SubSendLabels, SubReceivePermute, SubCommit, SubOpen, SubAt
  <1>b. b \in BucketType /\ i \in Circuit /\ i \in Nat
    BY <1>k, BucketsTyped, ThreadIsCircuit
  <1>e. EvalEnd(Other(p), i) \in Ends /\ SubEnd(p, i) \in Ends
    BY EndsType
  <1>m. ASSUME NEW pc \in SubPc, \/ sub' = [sub EXCEPT ![p][i] = Go(@, pc)]
                                 \/ pc = "labels" /\ sub' = [sub EXCEPT ![p][i] = Repeat(@, pc)]
        PROVE  sub' \in [Party -> [Thread -> SubAtType]]
    BY <1>m, <1>t, <1>k, MoveType, SubMoves DEF SubAtType
  <1>1. CASE SubSendLabels(p, i)
    <2>1. sub' \in [Party -> [Thread -> SubAtType]]
      BY <1>1, <1>m DEF SubSendLabels, SubPc
    <2>2. net' \in [Ends -> Seq(Msg)]
      BY <1>1, <1>k, <1>e, LabelMessagesType, SendType DEF SubSendLabels
    <2> QED BY <1>1, <2>1, <2>2 DEF SubSendLabels, TypeOK
  <1>2. CASE SubReceivePermute(p, i)
    <2>1. sub' \in [Party -> [Thread -> SubAtType]]
      BY <1>2, <1>m DEF SubReceivePermute, SubPc
    <2>2. net' \in [Ends -> Seq(Msg)]
      BY <1>2, <1>e, ConsumeType DEF SubReceivePermute
    <2>3. bucket' \in [Party -> [Exec -> BucketType]]
      BY <1>2, <1>k, <1>b, BucketEdits, SetBucketType DEF SubReceivePermute, PermuteReceived
    <2> QED BY <1>2, <2>1, <2>2, <2>3 DEF SubReceivePermute, TypeOK
  <1>3. CASE SubCommit(p, i)
    <2>1. sub' \in [Party -> [Thread -> SubAtType]]
      BY <1>3, <1>m DEF SubCommit, SubPc
    <2>2. <<Plain("commits", k, i)>> \in Seq(Msg)
      BY <1>k, <1>b, PlainType
    <2>3. net' \in [Ends -> Seq(Msg)]
      BY <1>3, <2>2, <1>e, SendType DEF SubCommit
    <2> DEFINE v == IF b.permutes = Circuit THEN b.psi[i] ELSE "fresh"
               c == [b EXCEPT !.pse[i] = v, !.pseLeft = @ - 1]
    <2>4. v \in PsiVal
      BY <1>b DEF BucketType, PsiVal
    <2>5. c \in BucketType
      BY <2>4, <1>b, BucketEdits
    <2>6. SetBucket(p, k, c)
      BY <1>3 DEF SubCommit
    <2>7. bucket' \in [Party -> [Exec -> BucketType]]
      BY <2>5, <2>6, <1>k, SetBucketType
    <2> QED BY <1>3, <2>1, <2>3, <2>7 DEF SubCommit, TypeOK
  <1>4. CASE SubOpen(p, i)
    <2>1. sub' \in [Party -> [Thread -> SubAtType]]
      BY <1>4, <1>m DEF SubOpen, SubPc
    <2>2. b.pse \in [Circuit -> PsiVal]
      BY <1>b DEF BucketType
    <2>3. <<Message("open", k, i, 0, b.pse)>> \in Seq(Msg)
      BY <1>k, <1>b, <2>2 DEF Message, Msg
    <2>4. net' \in [Ends -> Seq(Msg)]
      BY <1>4, <2>3, <1>e, SendType DEF SubOpen
    <2> QED BY <1>4, <2>1, <2>4 DEF SubOpen, TypeOK
  <1> QED BY <1>1, <1>2, <1>3, <1>4 DEF SubStep

LEMMA EvalStepType ==
    ASSUME TypeOK, NEW p \in Party, NEW i \in Thread, EvalStep(p, i)
    PROVE  TypeOK'
  <1> DEFINE k == eval[p][i].ex
             b == bucket[p][k]
  <1>t. eval[p][i] \in EvalAtType /\ k \in 0..NumExe
    BY ThreadsTyped
  <1>k. k < NumExe /\ k \in Exec
    BY <1>t, InExec DEF EvalStep, EvalReceiveTheirLabels, EvalReceiveOwnLabels, EvalDraw,
       EvalSendPermute, EvalReceiveCommits, EvalCheckTranslation, EvalOpen, EvalAt
  <1>b. b \in BucketType /\ i \in Circuit /\ i \in Nat
    BY <1>k, BucketsTyped, ThreadIsCircuit
  <1>e. EvalEnd(p, i) \in Ends /\ SubEnd(Other(p), i) \in Ends
    BY EndsType
  <1>m. ASSUME NEW pc \in EvalPc, \/ eval' = [eval EXCEPT ![p][i] = Go(@, pc)]
                                  \/ pc = "their" /\ eval' = [eval EXCEPT ![p][i] = Repeat(@, pc)]
        PROVE  eval' \in [Party -> [Thread -> EvalAtType]]
    BY <1>m, <1>t, <1>k, MoveType, EvalMoves DEF EvalAtType
  <1> SUFFICES ASSUME ~Abort(p) PROVE TypeOK'
    BY AbortType
  <1>1. CASE EvalReceiveTheirLabels(p, i)
    <2>1. eval' \in [Party -> [Thread -> EvalAtType]]
      BY <1>1, <1>m DEF EvalReceiveTheirLabels, EvalPc
    <2>2. net' \in [Ends -> Seq(Msg)] /\ Head(net[EvalEnd(p, i)]).ex \in Exec
      BY <1>1, <1>e, ConsumeType DEF EvalReceiveTheirLabels, Msg
    <2>3. bucket' \in [Party -> [Exec -> BucketType]]
      BY <1>1, <1>k, <1>b, BucketEdits, SetBucketType DEF EvalReceiveTheirLabels
    <2>4. labels' \in [Party -> [Circuit -> Exec \cup {NoExec}]]
      <3>1. PICK x \in Exec \cup {NoExec} : labels' = [labels EXCEPT ![p][i] = x]
        BY <1>1, <2>2 DEF EvalReceiveTheirLabels
      <3>2. labels \in [Party -> [Circuit -> Exec \cup {NoExec}]]
        BY DEF TypeOK
      <3> QED BY <3>1, <3>2, <1>b
    <2> QED BY <1>1, <2>1, <2>2, <2>3, <2>4 DEF EvalReceiveTheirLabels, TypeOK
  <1>2. CASE EvalReceiveOwnLabels(p, i)
    <2>1. eval' \in [Party -> [Thread -> EvalAtType]]
      BY <1>2, <1>m DEF EvalReceiveOwnLabels, EvalPc
    <2>2. net' \in [Ends -> Seq(Msg)]
      BY <1>2, <1>e, ConsumeType DEF EvalReceiveOwnLabels
    <2>3. PICK v \in {"good", "garbled"} : SetBucket(p, k, [b EXCEPT !.result[i] = v])
      BY <1>2 DEF EvalReceiveOwnLabels
    <2>4. [b EXCEPT !.result[i] = v] \in BucketType
      BY <1>b, BucketEdits DEF Value
    <2>5. bucket' \in [Party -> [Exec -> BucketType]]
      BY <2>3, <2>4, <1>k, SetBucketType
    <2> QED BY <1>2, <2>1, <2>2, <2>5 DEF EvalReceiveOwnLabels, TypeOK
  <1>3. CASE EvalDraw(p, i)
    <2>1. eval' \in [Party -> [Thread -> EvalAtType]]
      BY <1>3, <1>m DEF EvalDraw, EvalPc
    <2>2. PICK place \in Circuit, v \in {"common", "fresh"} :
              SetBucket(p, k, [b EXCEPT !.psi[place] = v])
      BY <1>3 DEF EvalDraw, ValueToDraw
    <2>3. [b EXCEPT !.psi[place] = v] \in BucketType
      BY <1>b, BucketEdits DEF PsiVal
    <2>4. bucket' \in [Party -> [Exec -> BucketType]]
      BY <2>2, <2>3, <1>k, SetBucketType
    <2> QED BY <1>3, <2>1, <2>4 DEF EvalDraw, TypeOK
  <1>4. CASE EvalSendPermute(p, i)
    <2>1. eval' \in [Party -> [Thread -> EvalAtType]]
      BY <1>4, <1>m DEF EvalSendPermute, EvalPc
    <2>2. <<Plain("permute", k, i)>> \in Seq(Msg)
      BY <1>k, <1>b, PlainType
    <2>3. net' \in [Ends -> Seq(Msg)]
      BY <1>4, <2>2, <1>e, SendType DEF EvalSendPermute
    <2> QED BY <1>4, <2>1, <2>3 DEF EvalSendPermute, TypeOK
  <1>5. CASE EvalReceiveCommits(p, i)
    <2>1. eval' \in [Party -> [Thread -> EvalAtType]]
      BY <1>5, <1>m DEF EvalReceiveCommits, EvalPc
    <2>2. net' \in [Ends -> Seq(Msg)]
      BY <1>5, <1>e, ConsumeType DEF EvalReceiveCommits
    <2>3. bucket' \in [Party -> [Exec -> BucketType]]
      BY <1>5, <1>k, <1>b, BucketEdits, SetBucketType DEF EvalReceiveCommits
    <2> QED BY <1>5, <2>1, <2>2, <2>3 DEF EvalReceiveCommits, TypeOK
  <1>6. CASE EvalCheckTranslation(p, i)
    <2>1. eval' \in [Party -> [Thread -> EvalAtType]]
      BY <1>6, <1>m DEF EvalCheckTranslation, EvalPc
    <2>2. bucket' \in [Party -> [Exec -> BucketType]]
      BY <1>6, <1>k, <1>b, BucketEdits, SetBucketType DEF EvalCheckTranslation
    <2> QED BY <1>6, <2>1, <2>2 DEF EvalCheckTranslation, TypeOK
  <1>7. CASE EvalOpen(p, i)
    <2>1. eval' \in [Party -> [Thread -> EvalAtType]]
      BY <1>7, <1>m DEF EvalOpen, EvalPc
    <2>2. net' \in [Ends -> Seq(Msg)]
      BY <1>7, <1>e, ConsumeType DEF EvalOpen
    <2>3. PICK c : /\ SetBucket(p, k, c)
                   /\ \/ c = [b EXCEPT !.output = b.result[i]]
                      \/ \E o \in {"exception", b.output} :
                            c = [b EXCEPT !.misses = @ + 1, !.output = o]
      BY <1>7 DEF EvalOpen, Missed
    <2>4. b.result[i] \in Value /\ b.output \in Value \cup {"exception"}
      BY <1>b DEF BucketType
    <2>5. c \in BucketType
      <3>1. CASE c = [b EXCEPT !.output = b.result[i]]
        BY <3>1, <2>4, <1>b, BucketEdits
      <3>2. ASSUME NEW o \in {"exception", b.output},
                   c = [b EXCEPT !.misses = @ + 1, !.output = o]
            PROVE  c \in BucketType
        <4>1. o \in Value \cup {"exception"}
          BY <2>4
        <4> QED BY <3>2, <4>1, <1>b, BucketEdits
      <3> QED BY <2>3, <3>1, <3>2
    <2>6. bucket' \in [Party -> [Exec -> BucketType]]
      BY <2>3, <2>5, <1>k, SetBucketType
    <2> QED BY <1>7, <2>1, <2>2, <2>6 DEF EvalOpen, TypeOK
  <1> QED BY <1>1, <1>2, <1>3, <1>4, <1>5, <1>6, <1>7 DEF EvalStep

\* Every variable of the online phase keeps its type, whatever the sizes.
THEOREM TypeCorrect == SafetySpec => []TypeOK
  <1>1. TypeOK /\ [Next]_vars => TypeOK'
    <2> SUFFICES ASSUME TypeOK, [Next]_vars
                 PROVE  TypeOK'
      OBVIOUS
    <2>1. CASE UNCHANGED vars
      BY <2>1 DEF vars, TypeOK
    <2>2. ASSUME NEW p \in Party, Fail(p) \/ LosePeer(p)
          PROVE  TypeOK'
      BY <2>2, AbortType DEF Fail, LosePeer
    <2> QED BY <2>1, <2>2, MainStepType, LoopStepType, SubStepType, EvalStepType DEF Next
  <1> QED BY <1>1, InitType, PTL DEF SafetySpec

-----------------------------------------------------------------------------
(* The countdowns.  A thread leaves each program counter of an execution at  *)
(* most once, so the set of threads past a counter grows by that thread      *)
(* exactly in the step that decrements the countdown.                        *)

LEMMA Orders ==
    /\ SubOrder["labels"] = 0 /\ SubOrder["permute"] = 1
    /\ SubOrder["commit"] = 2 /\ SubOrder["check"] = 3
    /\ EvalOrder["their"] = 0 /\ EvalOrder["own"] = 1 /\ EvalOrder["draw"] = 2
    /\ EvalOrder["permute"] = 3 /\ EvalOrder["commits"] = 4
    /\ EvalOrder["check"] = 5 /\ EvalOrder["open"] = 6
  BY DEF SubOrder, EvalOrder

LEMMA Successors ==
    /\ SubOrder["permute"] = SubOrder["labels"] + 1
    /\ SubOrder["commit"]  = SubOrder["permute"] + 1
    /\ SubOrder["check"]   = SubOrder["commit"] + 1
    /\ EvalOrder["own"]     = EvalOrder["their"] + 1
    /\ EvalOrder["draw"]    = EvalOrder["own"] + 1
    /\ EvalOrder["permute"] = EvalOrder["draw"] + 1
    /\ EvalOrder["commits"] = EvalOrder["permute"] + 1
    /\ EvalOrder["check"]   = EvalOrder["commits"] + 1
    /\ EvalOrder["open"]    = EvalOrder["check"] + 1
  BY Orders

\* A step of the sub thread that leaves program counter q, and the set of
\* threads past each counter before and after it.
SubGoes(p, i, q) ==
    /\ SubAt(p, i, q)
    /\ \/ q = "check" /\ sub' = [sub EXCEPT ![p][i] = Repeat(@, "labels")]
       \/ \E n \in SubPc : /\ SubOrder[n] = SubOrder[q] + 1
                          /\ sub' = [sub EXCEPT ![p][i] = Go(@, n)]

SubJoins(p, i, q) ==
    /\ i \notin SubsPast(p, sub[p][i].ex, q)
    /\ \A r \in Party, l \in Exec, pc \in SubPc :
          SubsPast(r, l, pc)' =
              IF r = p /\ l = sub[p][i].ex /\ pc = q
              THEN SubsPast(r, l, pc) \cup {i} ELSE SubsPast(r, l, pc)

LEMMA SubLeaves ==
    ASSUME TypeOK, NEW p \in Party, NEW i \in Thread, NEW q \in SubPc, SubGoes(p, i, q)
    PROVE  SubJoins(p, i, q)
  <1> DEFINE t == sub[p][i]
  <1>1. t \in SubAtType /\ t.pc = q /\ t.ex < NumExe
    BY ThreadsTyped DEF SubAt, SubGoes
  <1>2. PICK n \in SubPc : /\ q # "check" => SubOrder[n] = SubOrder[q] + 1
                         /\ sub' = [sub EXCEPT ![p][i] =
                                       IF q = "check" THEN Repeat(t, "labels") ELSE Go(t, n)]
    BY Orders DEF SubGoes, SubPc
  <1>m. /\ sub'[p][i] = IF q = "check" THEN Repeat(t, "labels") ELSE Go(t, n)
        /\ \A r \in Party, j \in Thread : r # p \/ j # i => sub'[r][j] = sub[r][j]
    BY <1>2 DEF TypeOK
  <1>3. \A l \in Exec, pc \in SubPc :
            /\ Past(sub'[p][i], SubOrder, l, pc)
                <=> Past(t, SubOrder, l, pc) \/ (l = t.ex /\ pc = q)
            /\ ~Past(t, SubOrder, t.ex, q)
    BY <1>1, <1>2, <1>m, Orders, SizeAssumption DEF Past, SubAtType, At, Repeat, Go, SubPc, Exec
  <1>4. i \notin SubsPast(p, t.ex, q)
    BY <1>1, <1>3, InExec, ThreadsTyped DEF SubJoins, SubsPast, SubPast
  <1>5. ASSUME NEW r \in Party, NEW l \in Exec, NEW pc \in SubPc, NEW j \in Thread
        PROVE  Past(sub'[r][j], SubOrder, l, pc)
                <=> \/ Past(sub[r][j], SubOrder, l, pc)
                    \/ j = i /\ r = p /\ l = t.ex /\ pc = q
    BY <1>m, <1>3
  <1> QED BY <1>4, <1>5 DEF SubJoins, SubsPast, SubPast

\* A step of the eval thread that leaves program counter q, and the set of
\* threads past each counter before and after it.
EvalGoes(p, i, q) ==
    /\ EvalAt(p, i, q)
    /\ \/ q = "open" /\ eval' = [eval EXCEPT ![p][i] = Repeat(@, "their")]
       \/ \E n \in EvalPc : /\ EvalOrder[n] = EvalOrder[q] + 1
                          /\ eval' = [eval EXCEPT ![p][i] = Go(@, n)]

EvalJoins(p, i, q) ==
    /\ i \notin EvalsPast(p, eval[p][i].ex, q)
    /\ \A r \in Party, l \in Exec, pc \in EvalPc :
          EvalsPast(r, l, pc)' =
              IF r = p /\ l = eval[p][i].ex /\ pc = q
              THEN EvalsPast(r, l, pc) \cup {i} ELSE EvalsPast(r, l, pc)

LEMMA EvalLeaves ==
    ASSUME TypeOK, NEW p \in Party, NEW i \in Thread, NEW q \in EvalPc, EvalGoes(p, i, q)
    PROVE  EvalJoins(p, i, q)
  <1> DEFINE t == eval[p][i]
  <1>1. t \in EvalAtType /\ t.pc = q /\ t.ex < NumExe
    BY ThreadsTyped DEF EvalAt, EvalGoes
  <1>2. PICK n \in EvalPc : /\ q # "open" => EvalOrder[n] = EvalOrder[q] + 1
                         /\ eval' = [eval EXCEPT ![p][i] =
                                       IF q = "open" THEN Repeat(t, "their") ELSE Go(t, n)]
    BY Orders DEF EvalGoes, EvalPc
  <1>m. /\ eval'[p][i] = IF q = "open" THEN Repeat(t, "their") ELSE Go(t, n)
        /\ \A r \in Party, j \in Thread : r # p \/ j # i => eval'[r][j] = eval[r][j]
    BY <1>2 DEF TypeOK
  <1>3. \A l \in Exec, pc \in EvalPc :
            /\ Past(eval'[p][i], EvalOrder, l, pc)
                <=> Past(t, EvalOrder, l, pc) \/ (l = t.ex /\ pc = q)
            /\ ~Past(t, EvalOrder, t.ex, q)
    BY <1>1, <1>2, <1>m, Orders, SizeAssumption DEF Past, EvalAtType, At, Repeat, Go, EvalPc, Exec
  <1>4. i \notin EvalsPast(p, t.ex, q)
    BY <1>1, <1>3, InExec, ThreadsTyped DEF EvalJoins, EvalsPast, EvalPast
  <1>5. ASSUME NEW r \in Party, NEW l \in Exec, NEW pc \in EvalPc, NEW j \in Thread
        PROVE  Past(eval'[r][j], EvalOrder, l, pc)
                <=> \/ Past(eval[r][j], EvalOrder, l, pc)
                    \/ j = i /\ r = p /\ l = t.ex /\ pc = q
    BY <1>m, <1>3
  <1> QED BY <1>4, <1>5 DEF EvalJoins, EvalsPast, EvalPast

LEMMA CountFacts ==
    ASSUME NEW S \in SUBSET Thread
    PROVE  /\ Count(S) \in Int
           /\ \A i \in Thread \ S : Count(S \cup {i}) = Count(S) - 1
           /\ Count(S) = 0 => S = Thread
  <1>1. IsFiniteSet(Thread) /\ Cardinality(Thread) = NumThreads
    BY FS_Interval, SizeAssumption DEF Thread
  <1>2. IsFiniteSet(S) /\ Cardinality(S) <= NumThreads
        /\ (Cardinality(S) = NumThreads => S = Thread)
    BY <1>1, FS_Subset
  <1>3. Cardinality(S) \in Nat
    BY <1>2, FS_CardinalityType
  <1>4. \A i \in Thread \ S : Cardinality(S \cup {i}) = Cardinality(S) + 1
    BY <1>2, FS_AddElement
  <1>5. Count(S) = 0 => Cardinality(S) = NumThreads
    BY <1>2, <1>3, SizeAssumption DEF Count
  <1> QED BY <1>2, <1>3, <1>4, <1>5, SizeAssumption DEF Count

LEMMA SubsPastIsSet ==
    ASSUME NEW p, NEW k, NEW pc
    PROVE  SubsPast(p, k, pc) \in SUBSET Thread /\ EvalsPast(p, k, pc) \in SUBSET Thread
  BY DEF SubsPast, EvalsPast

\* The countdowns of a bucket, and the threads each one has counted.
Counters(b) == <<b.permuteLeft, b.pseLeft, b.commitLeft, b.transLeft>>

Counted(p, k) == <<SubsPast(p, k, "permute"), SubsPast(p, k, "commit"),
                   EvalsPast(p, k, "commits"), EvalsPast(p, k, "check")>>

LEMMA BucketFrame ==
    ASSUME TypeOK, NEW p \in Party, NEW k \in Exec, NEW c, SetBucket(p, k, c)
    PROVE  \A r \in Party, l \in Exec :
             bucket'[r][l] = IF r = p /\ l = k THEN c ELSE bucket[r][l]
  BY DEF TypeOK, SetBucket

\* A step that moves no countdown and no counted thread.
LEMMA SameCounters ==
    ASSUME CountersExact,
           \A r \in Party, l \in Exec : /\ Counters(bucket'[r][l]) = Counters(bucket[r][l])
                                        /\ Counted(r, l)' = Counted(r, l)
    PROVE  CountersExact'
  <1> SUFFICES ASSUME NEW r \in Party, NEW l \in Exec
               PROVE  LET b == bucket'[r][l] IN
                      /\ b.permuteLeft = Count(SubsPast(r, l, "permute")')
                      /\ b.pseLeft     = Count(SubsPast(r, l, "commit")')
                      /\ b.commitLeft  = Count(EvalsPast(r, l, "commits")')
                      /\ b.transLeft   = Count(EvalsPast(r, l, "check")')
    BY DEF CountersExact, Count
  <1>1. /\ bucket'[r][l].permuteLeft = bucket[r][l].permuteLeft
        /\ bucket'[r][l].pseLeft = bucket[r][l].pseLeft
        /\ bucket'[r][l].commitLeft = bucket[r][l].commitLeft
        /\ bucket'[r][l].transLeft = bucket[r][l].transLeft
    BY DEF Counters
  <1>2. /\ SubsPast(r, l, "permute")' = SubsPast(r, l, "permute")
        /\ SubsPast(r, l, "commit")' = SubsPast(r, l, "commit")
        /\ EvalsPast(r, l, "commits")' = EvalsPast(r, l, "commits")
        /\ EvalsPast(r, l, "check")' = EvalsPast(r, l, "check")
    BY DEF Counted
  <1> QED BY <1>1, <1>2 DEF CountersExact

LEMMA SubsStay ==
    ASSUME UNCHANGED sub, NEW r \in Party, NEW l \in Exec, NEW pc
    PROVE  SubsPast(r, l, pc)' = SubsPast(r, l, pc)
  BY DEF SubsPast, SubPast, Past
LEMMA EvalsStay ==
    ASSUME UNCHANGED eval, NEW r \in Party, NEW l \in Exec, NEW pc
    PROVE  EvalsPast(r, l, pc)' = EvalsPast(r, l, pc)
  BY DEF EvalsPast, EvalPast, Past

\* Edits of a bucket that leave its countdowns alone.
LEMMA QuietEdits ==
    ASSUME NEW b \in BucketType, NEW i \in Circuit
    PROVE  /\ Counters([b EXCEPT !.input = TRUE]) = Counters(b)
           /\ Counters([b EXCEPT !.correction = TRUE]) = Counters(b)
           /\ Counters([b EXCEPT !.translation = TRUE]) = Counters(b)
           /\ Counters([b EXCEPT !.labelsIn = @ \cup {i}]) = Counters(b)
  <1>1. /\ Counters([b EXCEPT !.input = TRUE]) = Counters(b)
        /\ Counters([b EXCEPT !.correction = TRUE]) = Counters(b)
        /\ Counters([b EXCEPT !.translation = TRUE]) = Counters(b)
    BY DEF BucketType, Counters
  <1>2. Counters([b EXCEPT !.labelsIn = @ \cup {i}]) = Counters(b)
    BY DEF BucketType, Counters
  <1> QED BY <1>1, <1>2

\* A quiet edit of one bucket by a step that moves neither sub nor eval threads,
\* or moves one past a counter nobody counts.
LEMMA QuietStep ==
    ASSUME TypeOK, CountersExact,
           \/ UNCHANGED bucket
           \/ \E p \in Party, k \in Exec : \E c : SetBucket(p, k, c)
                                             /\ Counters(c) = Counters(bucket[p][k]),
           \A r \in Party, l \in Exec : Counted(r, l)' = Counted(r, l)
    PROVE  CountersExact'
  <1>1. CASE UNCHANGED bucket
    BY <1>1, SameCounters
  <1>2. ASSUME NEW p \in Party, NEW k \in Exec, NEW c, SetBucket(p, k, c),
               Counters(c) = Counters(bucket[p][k])
        PROVE  CountersExact'
    <2>1. \A r \in Party, l \in Exec : Counters(bucket'[r][l]) = Counters(bucket[r][l])
      BY <1>2, BucketFrame
    <2> QED BY <2>1, SameCounters
  <1> QED BY <1>1, <1>2

LEMMA MainCounters ==
    ASSUME TypeOK, CountersExact, NEW p \in Party, MainStep(p)
    PROVE  CountersExact'
  <1> DEFINE k == main[p].ex
             b == bucket[p][k]
  <1>1. UNCHANGED <<sub, eval>>
    BY DEF MainStep, MainCall, MainCheckLabels, MainReceiveSeed, MainReturn, MainClose, Abort
  <1>2. \A r \in Party, l \in Exec : Counted(r, l)' = Counted(r, l)
    BY <1>1, SubsStay, EvalsStay DEF Counted
  <1>3. CASE UNCHANGED bucket
    BY <1>2, <1>3, QuietStep
  <1>4. CASE MainCall(p)
    <2>1. k \in Exec
      BY <1>4, ThreadsTyped, InExec DEF MainCall
    <2>2. Counters([b EXCEPT !.input = TRUE]) = Counters(b)
      BY <2>1, BucketsTyped, SomeCircuit, QuietEdits
    <2>3. SetBucket(p, k, [b EXCEPT !.input = TRUE])
      BY <1>4 DEF MainCall
    <2> QED BY <2>1, <2>2, <2>3, <1>2, QuietStep
  <1>5. CASE MainReceiveSeed(p)
    <2>1. k \in Exec
      BY <1>5, ThreadsTyped, MoveType, InExec DEF MainReceiveSeed, MainAt, MainAtType, At
    <2>2. Counters([b EXCEPT !.translation = TRUE]) = Counters(b)
      BY <2>1, BucketsTyped, SomeCircuit, QuietEdits
    <2>3. SetBucket(p, k, [b EXCEPT !.translation = TRUE])
      BY <1>5 DEF MainReceiveSeed
    <2> QED BY <2>1, <2>2, <2>3, <1>2, QuietStep
  <1> QED BY <1>3, <1>4, <1>5 DEF MainStep, MainCheckLabels, MainReturn, MainClose, Abort

LEMMA LoopCounters ==
    ASSUME TypeOK, CountersExact, NEW p \in Party, LoopStep(p)
    PROVE  CountersExact'
  <1> DEFINE k == loop[p].ex
             b == bucket[p][k]
  <1>1. UNCHANGED <<sub, eval>>
    BY DEF LoopStep, LoopReceiveCorrection, LoopSendSeed
  <1>2. \A r \in Party, l \in Exec : Counted(r, l)' = Counted(r, l)
    BY <1>1, SubsStay, EvalsStay DEF Counted
  <1>3. CASE LoopReceiveCorrection(p)
    <2>1. k \in Exec
      BY <1>3, ThreadsTyped, InExec DEF LoopReceiveCorrection, LoopAt
    <2>2. Counters([b EXCEPT !.correction = TRUE]) = Counters(b)
      BY <2>1, BucketsTyped, SomeCircuit, QuietEdits
    <2>3. SetBucket(p, k, [b EXCEPT !.correction = TRUE])
      BY <1>3 DEF LoopReceiveCorrection
    <2> QED BY <2>1, <2>2, <2>3, <1>2, QuietStep
  <1>4. CASE LoopSendSeed(p)
    BY <1>4, <1>2, QuietStep DEF LoopSendSeed
  <1> QED BY <1>3, <1>4 DEF LoopStep

\* What an exact countdown is, one bucket at a time.
ExactIn(r, l) ==
    /\ bucket[r][l].permuteLeft = Count(SubsPast(r, l, "permute"))
    /\ bucket[r][l].pseLeft     = Count(SubsPast(r, l, "commit"))
    /\ bucket[r][l].commitLeft  = Count(EvalsPast(r, l, "commits"))
    /\ bucket[r][l].transLeft   = Count(EvalsPast(r, l, "check"))

LEMMA ExactEverywhere == /\ CountersExact <=> \A r \in Party, l \in Exec : ExactIn(r, l)
                         /\ CountersExact' <=> \A r \in Party, l \in Exec : ExactIn(r, l)'
  BY DEF CountersExact, ExactIn, Count

\* A bucket whose countdowns and counted threads stay is counted exactly.
LEMMA OtherBuckets ==
    ASSUME NEW r \in Party, NEW l \in Exec, ExactIn(r, l),
           bucket'[r][l] = bucket[r][l], Counted(r, l)' = Counted(r, l)
    PROVE  ExactIn(r, l)'
  <1>1. /\ SubsPast(r, l, "permute")' = SubsPast(r, l, "permute")
        /\ SubsPast(r, l, "commit")' = SubsPast(r, l, "commit")
        /\ EvalsPast(r, l, "commits")' = EvalsPast(r, l, "commits")
        /\ EvalsPast(r, l, "check")' = EvalsPast(r, l, "check")
    BY DEF Counted
  <1> QED BY <1>1 DEF ExactIn, Count

\* A thread that receives a masked input lowers the countdown it leaves.
LEMMA PermuteCounted ==
    ASSUME TypeOK, CountersExact, NEW p \in Party, NEW k \in Exec, NEW i \in Thread, NEW c,
           SetBucket(p, k, c),
           c.permuteLeft = bucket[p][k].permuteLeft - 1,
           c.pseLeft = bucket[p][k].pseLeft,
           c.commitLeft = bucket[p][k].commitLeft,
           c.transLeft = bucket[p][k].transLeft,
           \A r \in Party, l \in Exec : \A pc : EvalsPast(r, l, pc)' = EvalsPast(r, l, pc),
           i \notin SubsPast(p, k, "permute"),
           \A r \in Party, l \in Exec, pc \in SubPc :
              SubsPast(r, l, pc)' =
                  IF r = p /\ l = k /\ pc = "permute"
                        THEN SubsPast(r, l, pc) \cup {i} ELSE SubsPast(r, l, pc)
    PROVE  CountersExact'
  <1>1. ASSUME NEW r \in Party, NEW l \in Exec, ~(r = p /\ l = k)
        PROVE  ExactIn(r, l)'
    <2>1. bucket'[r][l] = bucket[r][l]
      BY <1>1, BucketFrame
    <2>2. Counted(r, l)' = Counted(r, l)
      BY <1>1 DEF Counted, SubPc
    <2> QED BY <2>1, <2>2, ExactEverywhere, OtherBuckets
  <1>2. ExactIn(p, k)'
    <2>1. bucket'[p][k] = c
      BY BucketFrame
    <2>2. /\ SubsPast(p, k, "permute")' = SubsPast(p, k, "permute") \cup {i}
          /\ SubsPast(p, k, "commit")' = SubsPast(p, k, "commit")
          /\ EvalsPast(p, k, "commits")' = EvalsPast(p, k, "commits")
          /\ EvalsPast(p, k, "check")' = EvalsPast(p, k, "check")
      BY DEF SubPc
    <2>3. Count(SubsPast(p, k, "permute") \cup {i}) = Count(SubsPast(p, k, "permute")) - 1
      BY SubsPastIsSet, CountFacts
    <2>4. ExactIn(p, k)
      BY ExactEverywhere
    <2> QED BY <2>1, <2>2, <2>3, <2>4 DEF ExactIn, Count
  <1> QED BY <1>1, <1>2, ExactEverywhere

\* So does one that commits to its column of encodings, ...
LEMMA CommitCounted ==
    ASSUME TypeOK, CountersExact, NEW p \in Party, NEW k \in Exec, NEW i \in Thread, NEW c,
           SetBucket(p, k, c),
           c.permuteLeft = bucket[p][k].permuteLeft,
           c.pseLeft = bucket[p][k].pseLeft - 1,
           c.commitLeft = bucket[p][k].commitLeft,
           c.transLeft = bucket[p][k].transLeft,
           \A r \in Party, l \in Exec : \A pc : EvalsPast(r, l, pc)' = EvalsPast(r, l, pc),
           i \notin SubsPast(p, k, "commit"),
           \A r \in Party, l \in Exec, pc \in SubPc :
              SubsPast(r, l, pc)' =
                  IF r = p /\ l = k /\ pc = "commit"
                        THEN SubsPast(r, l, pc) \cup {i} ELSE SubsPast(r, l, pc)
    PROVE  CountersExact'
  <1>1. ASSUME NEW r \in Party, NEW l \in Exec, ~(r = p /\ l = k)
        PROVE  ExactIn(r, l)'
    <2>1. bucket'[r][l] = bucket[r][l]
      BY <1>1, BucketFrame
    <2>2. Counted(r, l)' = Counted(r, l)
      BY <1>1 DEF Counted, SubPc
    <2> QED BY <2>1, <2>2, ExactEverywhere, OtherBuckets
  <1>2. ExactIn(p, k)'
    <2>1. bucket'[p][k] = c
      BY BucketFrame
    <2>2. /\ SubsPast(p, k, "permute")' = SubsPast(p, k, "permute")
          /\ SubsPast(p, k, "commit")' = SubsPast(p, k, "commit") \cup {i}
          /\ EvalsPast(p, k, "commits")' = EvalsPast(p, k, "commits")
          /\ EvalsPast(p, k, "check")' = EvalsPast(p, k, "check")
      BY DEF SubPc
    <2>3. Count(SubsPast(p, k, "commit") \cup {i}) = Count(SubsPast(p, k, "commit")) - 1
      BY SubsPastIsSet, CountFacts
    <2>4. ExactIn(p, k)
      BY ExactEverywhere
    <2> QED BY <2>1, <2>2, <2>3, <2>4 DEF ExactIn, Count
  <1> QED BY <1>1, <1>2, ExactEverywhere

\* ... one that receives the peer's commitments, ...
LEMMA CommitsCounted ==
    ASSUME TypeOK, CountersExact, NEW p \in Party, NEW k \in Exec, NEW i \in Thread, NEW c,
           SetBucket(p, k, c),
           c.permuteLeft = bucket[p][k].permuteLeft,
           c.pseLeft = bucket[p][k].pseLeft,
           c.commitLeft = bucket[p][k].commitLeft - 1,
           c.transLeft = bucket[p][k].transLeft,
           \A r \in Party, l \in Exec : \A pc : SubsPast(r, l, pc)' = SubsPast(r, l, pc),
           i \notin EvalsPast(p, k, "commits"),
           \A r \in Party, l \in Exec, pc \in EvalPc :
              EvalsPast(r, l, pc)' =
                  IF r = p /\ l = k /\ pc = "commits"
                        THEN EvalsPast(r, l, pc) \cup {i} ELSE EvalsPast(r, l, pc)
    PROVE  CountersExact'
  <1>1. ASSUME NEW r \in Party, NEW l \in Exec, ~(r = p /\ l = k)
        PROVE  ExactIn(r, l)'
    <2>1. bucket'[r][l] = bucket[r][l]
      BY <1>1, BucketFrame
    <2>2. Counted(r, l)' = Counted(r, l)
      BY <1>1 DEF Counted, EvalPc
    <2> QED BY <2>1, <2>2, ExactEverywhere, OtherBuckets
  <1>2. ExactIn(p, k)'
    <2>1. bucket'[p][k] = c
      BY BucketFrame
    <2>2. /\ SubsPast(p, k, "permute")' = SubsPast(p, k, "permute")
          /\ SubsPast(p, k, "commit")' = SubsPast(p, k, "commit")
          /\ EvalsPast(p, k, "commits")' = EvalsPast(p, k, "commits") \cup {i}
          /\ EvalsPast(p, k, "check")' = EvalsPast(p, k, "check")
      BY DEF EvalPc
    <2>3. Count(EvalsPast(p, k, "commits") \cup {i}) = Count(EvalsPast(p, k, "commits")) - 1
      BY SubsPastIsSet, CountFacts
    <2>4. ExactIn(p, k)
      BY ExactEverywhere
    <2> QED BY <2>1, <2>2, <2>3, <2>4 DEF ExactIn, Count
  <1> QED BY <1>1, <1>2, ExactEverywhere

\* ... and one that checks an output translation.
LEMMA CheckCounted ==
    ASSUME TypeOK, CountersExact, NEW p \in Party, NEW k \in Exec, NEW i \in Thread, NEW c,
           SetBucket(p, k, c),
           c.permuteLeft = bucket[p][k].permuteLeft,
           c.pseLeft = bucket[p][k].pseLeft,
           c.commitLeft = bucket[p][k].commitLeft,
           c.transLeft = bucket[p][k].transLeft - 1,
           \A r \in Party, l \in Exec : \A pc : SubsPast(r, l, pc)' = SubsPast(r, l, pc),
           i \notin EvalsPast(p, k, "check"),
           \A r \in Party, l \in Exec, pc \in EvalPc :
              EvalsPast(r, l, pc)' =
                  IF r = p /\ l = k /\ pc = "check"
                        THEN EvalsPast(r, l, pc) \cup {i} ELSE EvalsPast(r, l, pc)
    PROVE  CountersExact'
  <1>1. ASSUME NEW r \in Party, NEW l \in Exec, ~(r = p /\ l = k)
        PROVE  ExactIn(r, l)'
    <2>1. bucket'[r][l] = bucket[r][l]
      BY <1>1, BucketFrame
    <2>2. Counted(r, l)' = Counted(r, l)
      BY <1>1 DEF Counted, EvalPc
    <2> QED BY <2>1, <2>2, ExactEverywhere, OtherBuckets
  <1>2. ExactIn(p, k)'
    <2>1. bucket'[p][k] = c
      BY BucketFrame
    <2>2. /\ SubsPast(p, k, "permute")' = SubsPast(p, k, "permute")
          /\ SubsPast(p, k, "commit")' = SubsPast(p, k, "commit")
          /\ EvalsPast(p, k, "commits")' = EvalsPast(p, k, "commits")
          /\ EvalsPast(p, k, "check")' = EvalsPast(p, k, "check") \cup {i}
      BY DEF EvalPc
    <2>3. Count(EvalsPast(p, k, "check") \cup {i}) = Count(EvalsPast(p, k, "check")) - 1
      BY SubsPastIsSet, CountFacts
    <2>4. ExactIn(p, k)
      BY ExactEverywhere
    <2> QED BY <2>1, <2>2, <2>3, <2>4 DEF ExactIn, Count
  <1> QED BY <1>1, <1>2, ExactEverywhere

LEMMA SubCounters ==
    ASSUME TypeOK, CountersExact, NEW p \in Party, NEW i \in Thread, SubStep(p, i)
    PROVE  CountersExact'
  <1> DEFINE k == sub[p][i].ex
             b == bucket[p][k]
  <1>k. k \in Exec
    BY ThreadsTyped, InExec
       DEF SubStep, SubSendLabels, SubReceivePermute, SubCommit, SubOpen, SubAt
  <1>b. b \in BucketType /\ i \in Circuit
    BY <1>k, BucketsTyped, ThreadIsCircuit
  <1>e. \A r \in Party, l \in Exec : \A pc : EvalsPast(r, l, pc)' = EvalsPast(r, l, pc)
    BY EvalsStay DEF SubStep, SubSendLabels, SubReceivePermute, SubCommit, SubOpen
  <1>p. "labels" \in SubPc /\ "permute" \in SubPc /\ "commit" \in SubPc /\ "check" \in SubPc
    BY DEF SubPc
  <1>1. CASE SubSendLabels(p, i)
    <2>1. /\ SubAt(p, i, "labels")
          /\ sub' = [sub EXCEPT ![p][i] = Go(@, "permute")]
      BY <1>1 DEF SubSendLabels
    <2>g. SubGoes(p, i, "labels")
      BY <2>1, <1>p, Successors DEF SubGoes
    <2>2. SubJoins(p, i, "labels")
      BY <2>g, <1>p, SubLeaves
    <2>3. \A r \in Party, l \in Exec : Counted(r, l)' = Counted(r, l)
      BY <2>2, <1>p, <1>e DEF Counted, SubJoins
    <2> QED BY <1>1, <2>3, QuietStep DEF SubSendLabels
  <1>2. CASE SubReceivePermute(p, i)
    <2> DEFINE c == [b EXCEPT !.permutes = @ \cup {i}, !.permuteLeft = @ - 1]
    <2>1. /\ SubAt(p, i, "permute")
          /\ sub' = [sub EXCEPT ![p][i] = Go(@, "commit")]
          /\ SetBucket(p, k, c)
      BY <1>2 DEF SubReceivePermute, PermuteReceived
    <2>g. SubGoes(p, i, "permute")
      BY <2>1, <1>p, Successors DEF SubGoes
    <2>2. SubJoins(p, i, "permute")
      BY <2>g, <1>p, SubLeaves
    <2>3. /\ c.permuteLeft = b.permuteLeft - 1 /\ c.pseLeft = b.pseLeft
          /\ c.commitLeft = b.commitLeft /\ c.transLeft = b.transLeft
      BY <1>b DEF BucketType
    <2> QED BY <1>k, <1>e, <1>p, <2>1, <2>2, <2>3, PermuteCounted DEF SubJoins
  <1>3. CASE SubCommit(p, i)
    <2> DEFINE v == IF b.permutes = Circuit THEN b.psi[i] ELSE "fresh"
               c == [b EXCEPT !.pse[i] = v, !.pseLeft = @ - 1]
    <2>1. /\ SubAt(p, i, "commit")
          /\ sub' = [sub EXCEPT ![p][i] = Go(@, "check")]
          /\ SetBucket(p, k, c)
      BY <1>3 DEF SubCommit
    <2>g. SubGoes(p, i, "commit")
      BY <2>1, <1>p, Successors DEF SubGoes
    <2>2. SubJoins(p, i, "commit")
      BY <2>g, <1>p, SubLeaves
    <2> HIDE DEF v
    <2>3. /\ c.pseLeft = b.pseLeft - 1 /\ c.permuteLeft = b.permuteLeft
          /\ c.commitLeft = b.commitLeft /\ c.transLeft = b.transLeft
      BY <1>b DEF BucketType
    <2> QED BY <1>k, <1>e, <1>p, <2>1, <2>2, <2>3, CommitCounted DEF SubJoins
  <1>4. CASE SubOpen(p, i)
    <2>1. SubGoes(p, i, "check")
      BY <1>4 DEF SubOpen, SubGoes
    <2>2. SubJoins(p, i, "check")
      BY <2>1, <1>p, SubLeaves
    <2>3. \A r \in Party, l \in Exec : Counted(r, l)' = Counted(r, l)
      BY <2>2, <1>p, <1>e DEF Counted, SubJoins
    <2> QED BY <1>4, <2>3, QuietStep DEF SubOpen
  <1> QED BY <1>1, <1>2, <1>3, <1>4 DEF SubStep

LEMMA AbortCounters ==
    ASSUME TypeOK, CountersExact, NEW p \in Party, Abort(p)
    PROVE  CountersExact'
  <1>1. UNCHANGED <<sub, eval, bucket>>
    BY DEF Abort
  <1>2. \A r \in Party, l \in Exec : Counted(r, l)' = Counted(r, l)
    BY <1>1, SubsStay, EvalsStay DEF Counted
  <1> QED BY <1>1, <1>2, QuietStep

\* An eval thread that leaves a counter nobody counts leaves the threads of
\* every countdown where they were.
LEMMA QuietEval ==
    ASSUME TypeOK, CountersExact, NEW p \in Party, NEW i \in Thread,
           NEW q \in {"their", "own", "draw", "permute", "open"},
           UNCHANGED sub, EvalGoes(p, i, q),
           \/ UNCHANGED bucket
           \/ \E c : /\ SetBucket(p, eval[p][i].ex, c)
                    /\ Counters(c) = Counters(bucket[p][eval[p][i].ex])
    PROVE  CountersExact'
  <1>1. q \in EvalPc /\ {"commits", "check"} \subseteq EvalPc
    BY DEF EvalPc
  <1>2. EvalJoins(p, i, q)
    BY <1>1, EvalLeaves
  <1>3. \A r \in Party, l \in Exec :
            /\ SubsPast(r, l, "permute")' = SubsPast(r, l, "permute")
            /\ SubsPast(r, l, "commit")' = SubsPast(r, l, "commit")
    BY SubsStay
  <1>4. \A r \in Party, l \in Exec :
            /\ EvalsPast(r, l, "commits")' = EvalsPast(r, l, "commits")
            /\ EvalsPast(r, l, "check")' = EvalsPast(r, l, "check")
    BY <1>1, <1>2 DEF EvalJoins
  <1>5. \A r \in Party, l \in Exec : Counted(r, l)' = Counted(r, l)
    BY <1>3, <1>4 DEF Counted
  <1>6. eval[p][i].ex \in Exec
    BY ThreadsTyped, InExec DEF EvalGoes, EvalAt
  <1> QED BY <1>5, <1>6, QuietStep

LEMMA EvalCounters ==
    ASSUME TypeOK, CountersExact, NEW p \in Party, NEW i \in Thread, EvalStep(p, i)
    PROVE  CountersExact'
  <1> SUFFICES ASSUME ~Abort(p)
               PROVE  CountersExact'
    BY AbortCounters
  <1> DEFINE k == eval[p][i].ex
             b == bucket[p][k]
  <1>k. k \in Exec
    BY ThreadsTyped, InExec
       DEF EvalStep, EvalReceiveTheirLabels, EvalReceiveOwnLabels, EvalDraw, EvalSendPermute,
           EvalReceiveCommits, EvalCheckTranslation, EvalOpen, EvalAt
  <1>b. b \in BucketType /\ i \in Circuit
    BY <1>k, BucketsTyped, ThreadIsCircuit
  <1>s. UNCHANGED sub
    BY DEF EvalStep, EvalReceiveTheirLabels, EvalReceiveOwnLabels, EvalDraw, EvalSendPermute,
           EvalReceiveCommits, EvalCheckTranslation, EvalOpen
  <1>e. \A r \in Party, l \in Exec : \A pc : SubsPast(r, l, pc)' = SubsPast(r, l, pc)
    BY <1>s, SubsStay
  <1>p. /\ "their" \in EvalPc /\ "own" \in EvalPc /\ "draw" \in EvalPc
        /\ "permute" \in EvalPc /\ "commits" \in EvalPc /\ "check" \in EvalPc
        /\ "open" \in EvalPc
    BY DEF EvalPc
  <1>1. CASE EvalReceiveTheirLabels(p, i)
    <2> DEFINE c == [b EXCEPT !.labelsIn = @ \cup {i}]
    <2>1. /\ EvalAt(p, i, "their")
          /\ eval' = [eval EXCEPT ![p][i] = Go(@, "own")]
          /\ SetBucket(p, k, c)
      BY <1>1 DEF EvalReceiveTheirLabels
    <2>2. EvalGoes(p, i, "their")
      BY <2>1, <1>p, Successors DEF EvalGoes
    <2>3. Counters(c) = Counters(b)
      BY <1>b, QuietEdits
    <2> QED BY <1>s, <2>1, <2>2, <2>3, QuietEval
  <1>2. CASE EvalReceiveOwnLabels(p, i)
    <2>1. PICK v : /\ EvalAt(p, i, "own")
                   /\ eval' = [eval EXCEPT ![p][i] = Go(@, "draw")]
                   /\ SetBucket(p, k, [b EXCEPT !.result[i] = v])
      BY <1>2 DEF EvalReceiveOwnLabels
    <2>2. EvalGoes(p, i, "own")
      BY <2>1, <1>p, Successors DEF EvalGoes
    <2>3. Counters([b EXCEPT !.result[i] = v]) = Counters(b)
      BY <1>b DEF BucketType, Counters
    <2> QED BY <1>s, <2>1, <2>2, <2>3, QuietEval
  <1>3. CASE EvalDraw(p, i)
    <2> DEFINE v == ValueToDraw(b, i)
    <2>1. PICK place \in Circuit :
              /\ EvalAt(p, i, "draw")
              /\ eval' = [eval EXCEPT ![p][i] = Go(@, "permute")]
              /\ SetBucket(p, k, [b EXCEPT !.psi[place] = v])
      BY <1>3 DEF EvalDraw
    <2>2. EvalGoes(p, i, "draw")
      BY <2>1, <1>p, Successors DEF EvalGoes
    <2>3. Counters([b EXCEPT !.psi[place] = v]) = Counters(b)
      BY <1>b DEF BucketType, Counters
    <2> QED BY <1>s, <2>1, <2>2, <2>3, QuietEval
  <1>4. CASE EvalSendPermute(p, i)
    <2>1. /\ EvalAt(p, i, "permute") /\ UNCHANGED bucket
          /\ eval' = [eval EXCEPT ![p][i] = Go(@, "commits")]
      BY <1>4 DEF EvalSendPermute
    <2>2. EvalGoes(p, i, "permute")
      BY <2>1, <1>p, Successors DEF EvalGoes
    <2> QED BY <1>s, <2>1, <2>2, QuietEval
  <1>5. CASE EvalReceiveCommits(p, i)
    <2> DEFINE c == [b EXCEPT !.commits = @ \cup {i}, !.commitLeft = @ - 1]
    <2>1. /\ EvalAt(p, i, "commits")
          /\ eval' = [eval EXCEPT ![p][i] = Go(@, "check")]
          /\ SetBucket(p, k, c)
      BY <1>5 DEF EvalReceiveCommits
    <2>2. EvalGoes(p, i, "commits")
      BY <2>1, <1>p, Successors DEF EvalGoes
    <2>3. EvalJoins(p, i, "commits")
      BY <2>2, <1>p, EvalLeaves
    <2>4. /\ c.commitLeft = b.commitLeft - 1 /\ c.permuteLeft = b.permuteLeft
          /\ c.pseLeft = b.pseLeft /\ c.transLeft = b.transLeft
      BY <1>b DEF BucketType
    <2> QED BY <1>k, <1>e, <1>p, <2>1, <2>3, <2>4, CommitsCounted DEF EvalJoins
  <1>6. CASE EvalCheckTranslation(p, i)
    <2> DEFINE c == [b EXCEPT !.transLeft = @ - 1]
    <2>1. /\ EvalAt(p, i, "check")
          /\ eval' = [eval EXCEPT ![p][i] = Go(@, "open")]
          /\ SetBucket(p, k, c)
      BY <1>6 DEF EvalCheckTranslation
    <2>2. EvalGoes(p, i, "check")
      BY <2>1, <1>p, Successors DEF EvalGoes
    <2>3. EvalJoins(p, i, "check")
      BY <2>2, <1>p, EvalLeaves
    <2>4. /\ c.transLeft = b.transLeft - 1 /\ c.permuteLeft = b.permuteLeft
          /\ c.pseLeft = b.pseLeft /\ c.commitLeft = b.commitLeft
      BY <1>b DEF BucketType
    <2> QED BY <1>k, <1>e, <1>p, <2>1, <2>3, <2>4, CheckCounted DEF EvalJoins
  <1>7. CASE EvalOpen(p, i)
    <2>1. PICK c : /\ EvalAt(p, i, "open")
                   /\ eval' = [eval EXCEPT ![p][i] = Repeat(@, "their")]
                   /\ SetBucket(p, k, c)
                   /\ \/ c = [b EXCEPT !.output = b.result[i]]
                      \/ \E o : c = [b EXCEPT !.misses = @ + 1, !.output = o]
      BY <1>7 DEF EvalOpen, Missed
    <2>2. EvalGoes(p, i, "open")
      BY <2>1 DEF EvalGoes
    <2>3. Counters(c) = Counters(b)
      <3>1. CASE c = [b EXCEPT !.output = b.result[i]]
        BY <3>1, <1>b DEF BucketType, Counters
      <3>2. ASSUME NEW o, c = [b EXCEPT !.misses = @ + 1, !.output = o]
            PROVE  Counters(c) = Counters(b)
        BY <3>2, <1>b DEF BucketType, Counters
      <3> QED BY <2>1, <3>1, <3>2
    <2> QED BY <1>s, <2>1, <2>2, <2>3, QuietEval
  <1> QED BY <1>1, <1>2, <1>3, <1>4, <1>5, <1>6, <1>7 DEF EvalStep

LEMMA InitCounters == Init => CountersExact
  <1> SUFFICES ASSUME Init PROVE CountersExact
    OBVIOUS
  <1>1. ASSUME NEW p \in Party, NEW k \in Exec
        PROVE  /\ SubsPast(p, k, "permute") = {} /\ SubsPast(p, k, "commit") = {}
               /\ EvalsPast(p, k, "commits") = {} /\ EvalsPast(p, k, "check") = {}
    BY Orders DEF Init, SubsPast, EvalsPast, SubPast, EvalPast, Past, Exec
  <1>2. Count({}) = BucketSize
    BY FS_EmptySet, SizeAssumption DEF Count
  <1>3. \A p \in Party, k \in Exec :
            LET b == bucket[p][k] IN
            /\ b.permuteLeft = BucketSize /\ b.pseLeft = BucketSize
            /\ b.commitLeft = BucketSize /\ b.transLeft = BucketSize
    BY DEF Init, NewBucket
  <1> QED BY <1>1, <1>2, <1>3, ExactEverywhere DEF ExactIn

\* Every countdown of every execution counts what it stands for, however the
\* threads of the two parties interleave.
THEOREM CountdownsCorrect == SafetySpec => []CountersExact
  <1>1. TypeOK /\ CountersExact /\ [Next]_vars => CountersExact'
    <2> SUFFICES ASSUME TypeOK, CountersExact, [Next]_vars
                 PROVE  CountersExact'
      OBVIOUS
    <2>1. CASE UNCHANGED vars
      <3>1. UNCHANGED <<sub, eval, bucket>>
        BY <2>1 DEF vars
      <3>2. \A r \in Party, l \in Exec : Counted(r, l)' = Counted(r, l)
        BY <3>1, SubsStay, EvalsStay DEF Counted
      <3> QED BY <3>1, <3>2, QuietStep
    <2>2. ASSUME NEW p \in Party, Fail(p) \/ LosePeer(p)
          PROVE  CountersExact'
      BY <2>2, AbortCounters DEF Fail, LosePeer
    <2> QED BY <2>1, <2>2, MainCounters, LoopCounters, SubCounters, EvalCounters DEF Next
  <1> QED BY <1>1, InitCounters, TypeCorrect, PTL DEF SafetySpec

-----------------------------------------------------------------------------
(* The order of the openings.  The countdown transLeft is exact, so a sub    *)
(* thread that finds it at zero finds every eval thread past its check; a    *)
(* thread never comes back to a counter of an execution it has left.         *)

\* Some sub thread has opened: then every eval thread has checked.
OpenedChecked(r, l) == SubsPast(r, l, "check") # {} => EvalsPast(r, l, "check") = Thread

LEMMA OpenedBySets ==
    /\ OpenAfterChecks <=> \A r \in Party, l \in Exec : OpenedChecked(r, l)
    /\ OpenAfterChecks' <=> \A r \in Party, l \in Exec : OpenedChecked(r, l)'
  BY DEF OpenAfterChecks, OpenedChecked, SubsPast, EvalsPast

\* Which program counter a sub or an eval thread leaves in its step.
LEMMA SubStepLeaves ==
    ASSUME TypeOK, NEW p \in Party, NEW i \in Thread, SubStep(p, i)
    PROVE  \E q \in SubPc : SubGoes(p, i, q) /\ (q = "check" => SubOpen(p, i))
  <1>p. "labels" \in SubPc /\ "permute" \in SubPc /\ "commit" \in SubPc /\ "check" \in SubPc
    BY DEF SubPc
  <1>1. CASE SubSendLabels(p, i)
    <2>1. SubGoes(p, i, "labels")
      BY <1>1, <1>p, Successors DEF SubSendLabels, SubGoes
    <2> QED BY <2>1, <1>p
  <1>2. CASE SubReceivePermute(p, i)
    <2>1. SubGoes(p, i, "permute")
      BY <1>2, <1>p, Successors DEF SubReceivePermute, SubGoes
    <2> QED BY <2>1, <1>p
  <1>3. CASE SubCommit(p, i)
    <2>1. SubGoes(p, i, "commit")
      BY <1>3, <1>p, Successors DEF SubCommit, SubGoes
    <2> QED BY <2>1, <1>p
  <1>4. CASE SubOpen(p, i)
    <2>1. SubGoes(p, i, "check")
      BY <1>4 DEF SubOpen, SubGoes
    <2> QED BY <2>1, <1>p, <1>4
  <1> QED BY <1>1, <1>2, <1>3, <1>4 DEF SubStep

LEMMA EvalStepGoes ==
    ASSUME TypeOK, NEW p \in Party, NEW i \in Thread, EvalStep(p, i), ~Abort(p)
    PROVE  \E q \in EvalPc : EvalGoes(p, i, q)
  <1>p. /\ "their" \in EvalPc /\ "own" \in EvalPc /\ "draw" \in EvalPc
        /\ "permute" \in EvalPc /\ "commits" \in EvalPc /\ "check" \in EvalPc
        /\ "open" \in EvalPc
    BY DEF EvalPc
  <1>1. CASE EvalReceiveTheirLabels(p, i)
    <2>1. EvalGoes(p, i, "their")
      BY <1>1, <1>p, Successors DEF EvalReceiveTheirLabels, EvalGoes
    <2> QED BY <2>1, <1>p
  <1>2. CASE EvalReceiveOwnLabels(p, i)
    <2>1. EvalGoes(p, i, "own")
      BY <1>2, <1>p, Successors DEF EvalReceiveOwnLabels, EvalGoes
    <2> QED BY <2>1, <1>p
  <1>3. CASE EvalDraw(p, i)
    <2>1. EvalGoes(p, i, "draw")
      BY <1>3, <1>p, Successors DEF EvalDraw, EvalGoes
    <2> QED BY <2>1, <1>p
  <1>4. CASE EvalSendPermute(p, i)
    <2>1. EvalGoes(p, i, "permute")
      BY <1>4, <1>p, Successors DEF EvalSendPermute, EvalGoes
    <2> QED BY <2>1, <1>p
  <1>5. CASE EvalReceiveCommits(p, i)
    <2>1. EvalGoes(p, i, "commits")
      BY <1>5, <1>p, Successors DEF EvalReceiveCommits, EvalGoes
    <2> QED BY <2>1, <1>p
  <1>6. CASE EvalCheckTranslation(p, i)
    <2>1. EvalGoes(p, i, "check")
      BY <1>6, <1>p, Successors DEF EvalCheckTranslation, EvalGoes
    <2> QED BY <2>1, <1>p
  <1>7. CASE EvalOpen(p, i)
    <2>1. EvalGoes(p, i, "open")
      BY <1>7 DEF EvalOpen, EvalGoes
    <2> QED BY <2>1, <1>p
  <1> QED BY <1>1, <1>2, <1>3, <1>4, <1>5, <1>6, <1>7 DEF EvalStep

LEMMA SubOpened ==
    ASSUME TypeOK, CountersExact, OpenAfterChecks,
           NEW p \in Party, NEW i \in Thread, SubStep(p, i)
    PROVE  OpenAfterChecks'
  <1>1. PICK q \in SubPc : SubGoes(p, i, q) /\ (q = "check" => SubOpen(p, i))
    BY SubStepLeaves
  <1>2. SubJoins(p, i, q) /\ "check" \in SubPc
    BY <1>1, SubLeaves DEF SubPc
  <1>3. \A r \in Party, l \in Exec : EvalsPast(r, l, "check")' = EvalsPast(r, l, "check")
    BY EvalsStay DEF SubStep, SubSendLabels, SubReceivePermute, SubCommit, SubOpen
  <1>4. ASSUME NEW r \in Party, NEW l \in Exec,
               SubsPast(r, l, "check")' # {}, SubsPast(r, l, "check") = {}
        PROVE  EvalsPast(r, l, "check") = Thread
    <2>1. r = p /\ l = sub[p][i].ex /\ q = "check"
      BY <1>2, <1>4 DEF SubJoins
    <2>2. bucket[r][l].transLeft = 0
      BY <1>1, <2>1 DEF SubOpen, MayOpen
    <2>3. Count(EvalsPast(r, l, "check")) = 0
      BY <2>2, ExactEverywhere DEF ExactIn
    <2> QED BY <2>3, SubsPastIsSet, CountFacts
  <1>5. ASSUME NEW r \in Party, NEW l \in Exec
        PROVE  OpenedChecked(r, l)'
    BY <1>3, <1>4, OpenedBySets DEF OpenedChecked
  <1> QED BY <1>5, OpenedBySets

LEMMA EvalOpened ==
    ASSUME TypeOK, OpenAfterChecks, NEW p \in Party, NEW i \in Thread,
           EvalStep(p, i), ~Abort(p)
    PROVE  OpenAfterChecks'
  <1>1. PICK q \in EvalPc : EvalGoes(p, i, q)
    BY EvalStepGoes
  <1>2. EvalJoins(p, i, q) /\ "check" \in EvalPc
    BY <1>1, EvalLeaves DEF EvalPc
  <1>3. UNCHANGED sub
    BY DEF EvalStep, EvalReceiveTheirLabels, EvalReceiveOwnLabels, EvalDraw, EvalSendPermute,
           EvalReceiveCommits, EvalCheckTranslation, EvalOpen, Abort
  <1>4. ASSUME NEW r \in Party, NEW l \in Exec
        PROVE  OpenedChecked(r, l)'
    <2>1. SubsPast(r, l, "check")' = SubsPast(r, l, "check")
      BY <1>3, SubsStay
    <2>2. EvalsPast(r, l, "check") \subseteq EvalsPast(r, l, "check")'
      BY <1>2 DEF EvalJoins
    <2>3. EvalsPast(r, l, "check")' \subseteq Thread
      BY DEF EvalsPast
    <2> QED BY <2>1, <2>2, <2>3, OpenedBySets DEF OpenedChecked
  <1> QED BY <1>4, OpenedBySets

\* No party opens a row of the intersection before all its eval threads have
\* checked the peer's output translation, for every size of the instance.
THEOREM OpenedAfterChecks == SafetySpec => []OpenAfterChecks
  <1>1. Init => OpenAfterChecks
    BY Orders DEF Init, OpenAfterChecks, SubPast, Past, Exec
  <1>2. TypeOK /\ CountersExact /\ OpenAfterChecks /\ [Next]_vars => OpenAfterChecks'
    <2> SUFFICES ASSUME TypeOK, CountersExact, OpenAfterChecks, [Next]_vars
                 PROVE  OpenAfterChecks'
      OBVIOUS
    <2>1. CASE UNCHANGED <<sub, eval>>
      BY <2>1 DEF OpenAfterChecks, SubPast, EvalPast, Past
    <2>2. CASE UNCHANGED vars
      BY <2>1, <2>2 DEF vars
    <2>3. ASSUME NEW p \in Party, MainStep(p) \/ LoopStep(p) \/ Fail(p) \/ LosePeer(p)
          PROVE  UNCHANGED <<sub, eval>>
      BY <2>3 DEF MainStep, MainCall, MainCheckLabels, MainReceiveSeed, MainReturn, MainClose,
                  LoopStep, LoopReceiveCorrection, LoopSendSeed, Fail, LosePeer, Abort
    <2>4. ASSUME NEW p \in Party, NEW i \in Thread, EvalStep(p, i)
          PROVE  OpenAfterChecks'
      <3>1. CASE Abort(p)
        BY <2>1, <3>1 DEF Abort
      <3> QED BY <2>4, <3>1, EvalOpened
    <2> QED BY <2>1, <2>2, <2>3, <2>4, SubOpened DEF Next
  <1> QED BY <1>1, <1>2, TypeCorrect, CountdownsCorrect, PTL DEF SafetySpec

-----------------------------------------------------------------------------
(* What is on the wire.  Every channel carries, per execution, the same      *)
(* kinds of messages in the same order.  So the position of its sender and   *)
(* that of its receiver, counted in messages, say what is under way.         *)

\* s holds the messages from the from-th up to, but not including, the to-th one.
Stream(s, from, to, expect) ==
    /\ from \in Nat /\ to \in Nat /\ Len(s) = to - from
    /\ \A n \in 1..Len(s) : <<s[n].kind, s[n].ex>> = expect[from + n - 1]

Each(kind) == [x \in Nat |-> <<kind, x>>]
RowKinds   == <<"own", "their", "commits", "open">>
EachRow    == [x \in Nat |-> <<RowKinds[(x % 4) + 1], x \div 4>>]

\* Messages a thread has sent or received on one of its channels.
CorrectionsSent(t) == t.ex + IF t.pc \in {"labels", "seed", "output"} THEN 1 ELSE 0
SeedsIn(t)         == t.ex + IF t.pc = "output" THEN 1 ELSE 0
CorrectionsIn(t)   == t.ex + IF t.pc = "commits" THEN 1 ELSE 0
PermutesRead(t)    == t.ex + IF t.pc \in {"commit", "check"} THEN 1 ELSE 0
RowsOfSub          == [labels |-> 0, permute |-> 2, commit |-> 2, check |-> 3]
RowsSent(t)        == 4 * t.ex + RowsOfSub[t.pc]
PermutesSent(t)    == t.ex + IF t.pc \in {"commits", "check", "open"} THEN 1 ELSE 0
RowsOfEval         == [their |-> 0, own |-> 1, draw |-> 2, permute |-> 2, commits |-> 2,
                       check |-> 3, open |-> 3]
RowsIn(t)          == 4 * t.ex + RowsOfEval[t.pc]

MainWire(p) == Stream(net[MainEnd(p)], SeedsIn(main[p]), loop[Other(p)].ex, Each("seed"))
LoopWire(p) == Stream(net[LoopEnd(p)], CorrectionsIn(loop[p]), CorrectionsSent(main[Other(p)]),
                      Each("correction"))
SubWire(p, i)  == Stream(net[SubEnd(p, i)], PermutesRead(sub[p][i]), PermutesSent(eval[Other(p)][i]),
                         Each("permute"))
EvalWire(p, i) == Stream(net[EvalEnd(p, i)], RowsIn(eval[p][i]), RowsSent(sub[Other(p)][i]), EachRow)

WireInv ==
    \A p \in Party :
        /\ MainWire(p) /\ LoopWire(p)
        /\ \A i \in Thread : SubWire(p, i) /\ (NumThreads = BucketSize => EvalWire(p, i))

LEMMA StreamSend ==
    ASSUME NEW s \in Seq(Msg), NEW from, NEW to, NEW expect, Stream(s, from, to, expect),
           NEW m \in Msg, <<m.kind, m.ex>> = expect[to]
    PROVE  Stream(s \o <<m>>, from, to + 1, expect)
  <1> DEFINE u == s \o <<m>>
  <1>1. Len(u) = Len(s) + 1 /\ u[Len(s) + 1] = m /\ \A n \in 1..Len(s) : u[n] = s[n]
    OBVIOUS
  <1>2. from \in Nat /\ to \in Nat /\ Len(s) = to - from /\ Len(s) \in Nat
    BY DEF Stream
  <1>3. ASSUME NEW n \in 1..Len(u)
        PROVE  <<u[n].kind, u[n].ex>> = expect[from + n - 1]
    <2>1. CASE n \in 1..Len(s)
      BY <1>1, <2>1 DEF Stream
    <2>2. CASE n = Len(s) + 1
      <3>1. from + n - 1 = to
        BY <1>2, <2>2
      <3> QED BY <1>1, <2>2, <3>1
    <2> QED BY <1>1, <1>2, <2>1, <2>2
  <1> HIDE DEF u
  <1>4. Len(u) = to + 1 - from
    BY <1>1, <1>2
  <1> QED BY <1>2, <1>3, <1>4 DEF Stream, u

LEMMA StreamReceive ==
    ASSUME NEW s \in Seq(Msg), NEW from, NEW to, NEW expect, Stream(s, from, to, expect), s # <<>>
    PROVE  /\ Stream(Tail(s), from + 1, to, expect)
           /\ <<Head(s).kind, Head(s).ex>> = expect[from]
  <1>1. /\ Len(Tail(s)) = Len(s) - 1 /\ Len(s) \in Nat \ {0} /\ Head(s) = s[1]
        /\ \A n \in 1..Len(Tail(s)) : Tail(s)[n] = s[n+1]
    OBVIOUS
  <1>2. from \in Nat /\ to \in Nat /\ Len(s) = to - from
    BY DEF Stream
  <1>3. ASSUME NEW n \in 1..Len(Tail(s))
        PROVE  <<Tail(s)[n].kind, Tail(s)[n].ex>> = expect[from + 1 + n - 1]
    <2>1. n + 1 \in 1..Len(s) /\ from + (n + 1) - 1 = from + 1 + n - 1
      BY <1>1, <1>2
    <2>2. <<s[n+1].kind, s[n+1].ex>> = expect[from + (n + 1) - 1]
      BY <2>1 DEF Stream
    <2> QED BY <1>1, <2>1, <2>2
  <1>4. <<s[1].kind, s[1].ex>> = expect[from + 1 - 1] /\ from + 1 - 1 = from
    BY <1>1, <1>2 DEF Stream
  <1>5. Len(Tail(s)) = to - (from + 1) /\ from + 1 \in Nat
    BY <1>1, <1>2
  <1> QED BY <1>1, <1>2, <1>3, <1>4, <1>5 DEF Stream

LEMMA EndsDiffer ==
    ASSUME NEW p \in Party, NEW q \in Party, NEW i \in Thread, NEW j \in Thread
    PROVE  /\ MainEnd(p) # LoopEnd(q) /\ MainEnd(p) # SubEnd(q, j) /\ MainEnd(p) # EvalEnd(q, j)
           /\ LoopEnd(p) # SubEnd(q, j) /\ LoopEnd(p) # EvalEnd(q, j)
           /\ SubEnd(p, i) # EvalEnd(q, j)
           /\ MainEnd(p) = MainEnd(q) => p = q
           /\ LoopEnd(p) = LoopEnd(q) => p = q
           /\ SubEnd(p, i) = SubEnd(q, j) => p = q /\ i = j
           /\ EvalEnd(p, i) = EvalEnd(q, j) => p = q /\ i = j
  BY DEF MainEnd, LoopEnd, SubEnd, EvalEnd

LEMMA OthersDiffer ==
    ASSUME NEW p \in Party, NEW q \in Party
    PROVE  Other(Other(p)) = p /\ (Other(p) = Other(q) => p = q)
  BY DEF Party, Other

LEMMA ZeroThread == 0 \in Thread
  BY SizeAssumption DEF Thread

LEMMA InitWire == Init => WireInv
  <1> SUFFICES ASSUME Init PROVE WireInv
    OBVIOUS
  <1>1. ASSUME NEW expect PROVE Stream(<<>>, 0, 0, expect)
    BY DEF Stream
  <1>2. ASSUME NEW p \in Party
        PROVE  /\ MainWire(p) /\ LoopWire(p)
               /\ \A i \in Thread : SubWire(p, i) /\ EvalWire(p, i)
    <2>1. Other(p) \in Party /\ \A ch \in Ends : net[ch] = <<>>
      BY EndsType DEF Init
    <2>2. /\ SeedsIn(main[p]) = 0 /\ loop[Other(p)].ex = 0
          /\ CorrectionsIn(loop[p]) = 0 /\ CorrectionsSent(main[Other(p)]) = 0
      BY <2>1 DEF Init, SeedsIn, CorrectionsIn, CorrectionsSent
    <2>3. \A i \in Thread : /\ PermutesRead(sub[p][i]) = 0 /\ PermutesSent(eval[Other(p)][i]) = 0
                            /\ RowsIn(eval[p][i]) = 0 /\ RowsSent(sub[Other(p)][i]) = 0
      BY <2>1 DEF Init, PermutesRead, PermutesSent, RowsIn, RowsSent, RowsOfSub, RowsOfEval
    <2> QED BY <1>1, <2>1, <2>2, <2>3, EndsType DEF MainWire, LoopWire, SubWire, EvalWire
  <1> QED BY <1>2 DEF WireInv

\* A step leaves the positions of a channel where they are.
MainStill(r)    == SeedsIn(main'[r]) = SeedsIn(main[r]) /\ loop'[Other(r)].ex = loop[Other(r)].ex
LoopStill(r)    == /\ CorrectionsIn(loop'[r]) = CorrectionsIn(loop[r])
                   /\ CorrectionsSent(main'[Other(r)]) = CorrectionsSent(main[Other(r)])
SubStill(r, i)  == /\ PermutesRead(sub'[r][i]) = PermutesRead(sub[r][i])
                   /\ PermutesSent(eval'[Other(r)][i]) = PermutesSent(eval[Other(r)][i])
EvalStill(r, i) == /\ RowsIn(eval'[r][i]) = RowsIn(eval[r][i])
                   /\ RowsSent(sub'[Other(r)][i]) = RowsSent(sub[Other(r)][i])

\* Then it leaves the channel as it says, unless it uses it.
LEMMA StillWires ==
    ASSUME WireInv, NEW r \in Party
    PROVE  /\ MainStill(r) /\ net'[MainEnd(r)] = net[MainEnd(r)] => MainWire(r)'
           /\ LoopStill(r) /\ net'[LoopEnd(r)] = net[LoopEnd(r)] => LoopWire(r)'
           /\ \A i \in Thread :
                /\ SubStill(r, i) /\ net'[SubEnd(r, i)] = net[SubEnd(r, i)] => SubWire(r, i)'
                /\ EvalStill(r, i) /\ net'[EvalEnd(r, i)] = net[EvalEnd(r, i)] /\ NumThreads = BucketSize
                     => EvalWire(r, i)'
  <1>1. MainStill(r) /\ net'[MainEnd(r)] = net[MainEnd(r)] => MainWire(r)'
    BY DEF WireInv, MainWire, MainStill
  <1>2. LoopStill(r) /\ net'[LoopEnd(r)] = net[LoopEnd(r)] => LoopWire(r)'
    BY DEF WireInv, LoopWire, LoopStill
  <1>3. ASSUME NEW i \in Thread
        PROVE  SubStill(r, i) /\ net'[SubEnd(r, i)] = net[SubEnd(r, i)] => SubWire(r, i)'
    BY DEF WireInv, SubWire, SubStill
  <1>4. ASSUME NEW i \in Thread
        PROVE  EvalStill(r, i) /\ net'[EvalEnd(r, i)] = net[EvalEnd(r, i)] /\ NumThreads = BucketSize
                 => EvalWire(r, i)'
    BY DEF WireInv, EvalWire, EvalStill
  <1> QED BY <1>1, <1>2, <1>3, <1>4

AllStill == \A r \in Party : /\ MainStill(r) /\ LoopStill(r)
                             /\ \A i \in Thread : SubStill(r, i) /\ EvalStill(r, i)

LEMMA QuietWires ==
    ASSUME WireInv, UNCHANGED net, AllStill
    PROVE  WireInv'
  BY StillWires DEF WireInv, AllStill

LEMMA MainFrame ==
    ASSUME WireInv, NEW p \in Party, MainWire(p)',
           \A c \in Ends \ {MainEnd(p)} : net'[c] = net[c],
           \A r \in Party : r # p => MainStill(r),
           \A r \in Party : LoopStill(r),
           \A r \in Party, i \in Thread : SubStill(r, i) /\ EvalStill(r, i)
    PROVE  WireInv'
  BY StillWires, EndsType, EndsDiffer, ZeroThread DEF WireInv

LEMMA LoopFrame ==
    ASSUME WireInv, NEW p \in Party, LoopWire(p)',
           \A c \in Ends \ {LoopEnd(p)} : net'[c] = net[c],
           \A r \in Party : r # p => LoopStill(r),
           \A r \in Party : MainStill(r),
           \A r \in Party, i \in Thread : SubStill(r, i) /\ EvalStill(r, i)
    PROVE  WireInv'
  BY StillWires, EndsType, EndsDiffer, ZeroThread DEF WireInv

LEMMA SubFrame ==
    ASSUME WireInv, NEW p \in Party, NEW j \in Thread, SubWire(p, j)',
           \A c \in Ends \ {SubEnd(p, j)} : net'[c] = net[c],
           \A r \in Party, i \in Thread : r # p \/ i # j => SubStill(r, i),
           \A r \in Party : MainStill(r) /\ LoopStill(r),
           \A r \in Party, i \in Thread : EvalStill(r, i)
    PROVE  WireInv'
  BY StillWires, EndsType, EndsDiffer DEF WireInv

LEMMA EvalFrame ==
    ASSUME WireInv, NEW p \in Party, NEW j \in Thread, NumThreads = BucketSize => EvalWire(p, j)',
           \A c \in Ends \ {EvalEnd(p, j)} : net'[c] = net[c],
           \A r \in Party, i \in Thread : r # p \/ i # j => EvalStill(r, i),
           \A r \in Party : MainStill(r) /\ LoopStill(r),
           \A r \in Party, i \in Thread : SubStill(r, i)
    PROVE  WireInv'
  BY StillWires, EndsType, EndsDiffer DEF WireInv

\* Where a thread goes, and that the others of its kind stay.
LEMMA Moved ==
    ASSUME TypeOK, NEW p \in Party
    PROVE  /\ \A t : main' = [main EXCEPT ![p] = t] =>
                /\ main'[p] = t /\ \A r \in Party : r # p => main'[r] = main[r]
           /\ \A t : loop' = [loop EXCEPT ![p] = t] =>
                /\ loop'[p] = t /\ \A r \in Party : r # p => loop'[r] = loop[r]
  BY DEF TypeOK

LEMMA NetMoved ==
    ASSUME TypeOK, NEW ch \in Ends
    PROVE  /\ \A msgs : Send(ch, msgs) =>
                net'[ch] = net[ch] \o msgs /\ \A c \in Ends \ {ch} : net'[c] = net[c]
           /\ Consume(ch) => net'[ch] = Tail(net[ch]) /\ \A c \in Ends \ {ch} : net'[c] = net[c]
           /\ net[ch] \in Seq(Msg)
  BY DEF TypeOK, Send, Consume

LEMMA MainWires ==
    ASSUME TypeOK, WireInv, NEW p \in Party, MainStep(p), ~Abort(p)
    PROVE  WireInv'
  <1> DEFINE q == Other(p)
             k == main[p].ex
  <1>q. q \in Party /\ Other(q) = p /\ \A r \in Party : r # q => Other(r) # p
    BY OthersDiffer, EndsType
  <1>o. \A r \in Party : Other(r) \in Party
    BY EndsType
  <1>s. UNCHANGED <<loop, sub, eval>>
    BY DEF MainStep, MainCall, MainCheckLabels, MainReceiveSeed, MainReturn, MainClose
  <1>e. \A r \in Party, i \in Thread : SubStill(r, i) /\ EvalStill(r, i)
    BY <1>s DEF SubStill, EvalStill
  <1>t. main[p] \in MainAtType /\ k \in Nat
    BY ThreadsTyped
  <1>1. CASE MainCall(p)
    <2> DEFINE m == Plain("correction", k, 0)
    <2>1. /\ main[p].pc = "idle" /\ main'[p] = Go(main[p], "labels")
          /\ \A r \in Party : r # p => main'[r] = main[r]
      BY <1>1, Moved DEF MainCall, Calling, MainAt
    <2>2. CorrectionsSent(main[p]) = k /\ CorrectionsSent(main'[p]) = k + 1
          /\ SeedsIn(main'[p]) = SeedsIn(main[p])
      BY <2>1, <1>t DEF CorrectionsSent, SeedsIn, Go
    <2>3. k \in Exec
      BY <1>1, ThreadsTyped, InExec DEF MainCall
    <2>4. m \in Msg /\ <<m.kind, m.ex>> = Each("correction")[k]
      BY <2>3, <1>t, PlainType DEF Plain, Message, Each
    <2>5. net[LoopEnd(q)] \in Seq(Msg) /\ net'[LoopEnd(q)] = net[LoopEnd(q)] \o <<m>>
          /\ \A c \in Ends \ {LoopEnd(q)} : net'[c] = net[c]
      BY <1>1, <1>q, EndsType, NetMoved DEF MainCall
    <2> HIDE DEF m
    <2>6. LoopWire(q)'
      <3>1. Stream(net[LoopEnd(q)], CorrectionsIn(loop[q]), CorrectionsSent(main[p]), Each("correction"))
        BY <1>q DEF WireInv, LoopWire
      <3>2. Stream(net'[LoopEnd(q)], CorrectionsIn(loop[q]), k + 1, Each("correction"))
        BY <2>2, <2>4, <2>5, <3>1, StreamSend
      <3> QED BY <1>q, <1>s, <2>2, <3>2 DEF LoopWire
    <2>7. \A r \in Party : MainStill(r) /\ (r # q => LoopStill(r))
      BY <1>q, <1>o, <1>s, <2>1, <2>2 DEF MainStill, LoopStill
    <2> QED
      BY <1>q, <1>e, <2>5, <2>6, <2>7, LoopFrame
  <1>2. CASE MainReceiveSeed(p)
    <2>1. /\ main[p].pc = "seed" /\ main'[p] = Go(main[p], "output")
          /\ \A r \in Party : r # p => main'[r] = main[r]
      BY <1>2, Moved DEF MainReceiveSeed, MainAt
    <2>2. SeedsIn(main[p]) = k /\ SeedsIn(main'[p]) = k + 1
          /\ CorrectionsSent(main'[p]) = CorrectionsSent(main[p])
      BY <2>1, <1>t DEF CorrectionsSent, SeedsIn, Go
    <2>3. /\ net[MainEnd(p)] \in Seq(Msg) /\ net[MainEnd(p)] # <<>>
          /\ net'[MainEnd(p)] = Tail(net[MainEnd(p)])
          /\ \A c \in Ends \ {MainEnd(p)} : net'[c] = net[c]
      BY <1>2, <1>q, EndsType, NetMoved DEF MainReceiveSeed, Receivable
    <2>4. MainWire(p)'
      BY <1>q, <1>s, <2>2, <2>3, StreamReceive DEF WireInv, MainWire
    <2>5. \A r \in Party : LoopStill(r) /\ (r # p => MainStill(r))
      BY <1>q, <1>o, <1>s, <2>1, <2>2 DEF MainStill, LoopStill
    <2> QED
      BY <1>q, <1>e, <2>3, <2>4, <2>5, MainFrame
  <1>3. CASE /\ UNCHANGED net
             /\ \/ main[p].pc = "labels" /\ main' = [main EXCEPT ![p] = Go(@, "seed")]
                \/ main[p].pc = "output" /\ main' = [main EXCEPT ![p] = Repeat(@, "idle")]
                \/ main[p].pc = "idle" /\ main' = [main EXCEPT ![p] = Go(@, "closed")]
    <2>1. \A r \in Party : /\ SeedsIn(main'[r]) = SeedsIn(main[r])
                           /\ CorrectionsSent(main'[r]) = CorrectionsSent(main[r])
      BY <1>3, <1>t, Moved DEF CorrectionsSent, SeedsIn, Go, Repeat
    <2> QED BY <1>3, <1>o, <1>s, <1>e, <2>1, QuietWires DEF AllStill, MainStill, LoopStill
  <1> QED BY <1>1, <1>2, <1>3 DEF MainStep, MainCheckLabels, MainReturn, MainClose, MainAt

LEMMA LoopWires ==
    ASSUME TypeOK, WireInv, NEW p \in Party, LoopStep(p)
    PROVE  WireInv'
  <1> DEFINE q == Other(p)
             k == loop[p].ex
  <1>q. q \in Party /\ Other(q) = p /\ \A r \in Party : r # q => Other(r) # p
    BY OthersDiffer, EndsType
  <1>o. \A r \in Party : Other(r) \in Party
    BY EndsType
  <1>s. UNCHANGED <<main, sub, eval>>
    BY DEF LoopStep, LoopReceiveCorrection, LoopSendSeed
  <1>e. \A r \in Party, i \in Thread : SubStill(r, i) /\ EvalStill(r, i)
    BY <1>s DEF SubStill, EvalStill
  <1>t. loop[p] \in LoopAtType /\ k \in Nat
    BY ThreadsTyped
  <1>1. CASE LoopReceiveCorrection(p)
    <2>1. /\ loop[p].pc = "correction" /\ loop'[p] = Go(loop[p], "commits")
          /\ \A r \in Party : r # p => loop'[r] = loop[r]
      BY <1>1, Moved DEF LoopReceiveCorrection, LoopAt
    <2>2. CorrectionsIn(loop[p]) = k /\ CorrectionsIn(loop'[p]) = k + 1 /\ loop'[p].ex = loop[p].ex
      BY <2>1, <1>t DEF CorrectionsIn, Go
    <2>3. /\ net[LoopEnd(p)] \in Seq(Msg) /\ net[LoopEnd(p)] # <<>>
          /\ net'[LoopEnd(p)] = Tail(net[LoopEnd(p)])
          /\ \A c \in Ends \ {LoopEnd(p)} : net'[c] = net[c]
      BY <1>1, EndsType, NetMoved DEF LoopReceiveCorrection, Receivable
    <2>4. LoopWire(p)'
      BY <1>q, <1>s, <2>2, <2>3, StreamReceive DEF WireInv, LoopWire
    <2>5. \A r \in Party : MainStill(r) /\ (r # p => LoopStill(r))
      BY <1>q, <1>o, <1>s, <2>1, <2>2 DEF MainStill, LoopStill
    <2> QED
      BY <1>q, <1>e, <2>3, <2>4, <2>5, LoopFrame
  <1>2. CASE LoopSendSeed(p)
    <2> DEFINE m == Plain("seed", k, 0)
    <2>1. /\ loop[p].pc = "commits" /\ loop'[p] = Repeat(loop[p], "correction")
          /\ \A r \in Party : r # p => loop'[r] = loop[r]
      BY <1>2, Moved DEF LoopSendSeed, LoopAt
    <2>2. CorrectionsIn(loop'[p]) = CorrectionsIn(loop[p]) /\ loop'[p].ex = k + 1
      BY <2>1, <1>t DEF CorrectionsIn, Repeat
    <2>3. k \in Exec
      BY <1>2, ThreadsTyped, InExec DEF LoopSendSeed, LoopAt
    <2>4. m \in Msg /\ <<m.kind, m.ex>> = Each("seed")[k]
      BY <2>3, <1>t, PlainType DEF Plain, Message, Each
    <2>5. net[MainEnd(q)] \in Seq(Msg) /\ net'[MainEnd(q)] = net[MainEnd(q)] \o <<m>>
          /\ \A c \in Ends \ {MainEnd(q)} : net'[c] = net[c]
      BY <1>2, <1>q, EndsType, NetMoved DEF LoopSendSeed
    <2> HIDE DEF m
    <2>6. MainWire(q)'
      <3>1. Stream(net[MainEnd(q)], SeedsIn(main[q]), loop[p].ex, Each("seed"))
        BY <1>q DEF WireInv, MainWire
      <3>2. Stream(net'[MainEnd(q)], SeedsIn(main[q]), k + 1, Each("seed"))
        BY <2>2, <2>4, <2>5, <3>1, StreamSend
      <3> QED BY <1>q, <1>s, <2>2, <3>2 DEF MainWire
    <2>7. \A r \in Party : LoopStill(r) /\ (r # q => MainStill(r))
      BY <1>q, <1>o, <1>s, <2>1, <2>2 DEF MainStill, LoopStill
    <2> QED
      BY <1>q, <1>e, <2>5, <2>6, <2>7, MainFrame
  <1> QED BY <1>1, <1>2 DEF LoopStep

LEMMA RowTables ==
    /\ RowsOfSub["labels"] = 0 /\ RowsOfSub["permute"] = 2
    /\ RowsOfSub["commit"] = 2 /\ RowsOfSub["check"] = 3
    /\ RowsOfEval["their"] = 0 /\ RowsOfEval["own"] = 1 /\ RowsOfEval["draw"] = 2
    /\ RowsOfEval["permute"] = 2 /\ RowsOfEval["commits"] = 2
    /\ RowsOfEval["check"] = 3 /\ RowsOfEval["open"] = 3
  BY DEF RowsOfSub, RowsOfEval

LEMMA RowAt ==
    ASSUME NEW x \in Nat
    PROVE  /\ EachRow[4 * x] = <<"own", x>> /\ EachRow[4 * x + 1] = <<"their", x>>
           /\ EachRow[4 * x + 2] = <<"commits", x>> /\ EachRow[4 * x + 3] = <<"open", x>>
  <1>1. \A d \in 0..3 : (4 * x + d) % 4 = d /\ (4 * x + d) \div 4 = x /\ 4 * x + d \in Nat
    OBVIOUS
  <1>2. \A d \in 0..3 : EachRow[4 * x + d] = <<RowKinds[d + 1], x>>
    BY <1>1 DEF EachRow
  <1>3. EachRow[4 * x + 0] = <<"own", x>> /\ 4 * x + 0 = 4 * x
    BY <1>2 DEF RowKinds
  <1>4. EachRow[4 * x + 1] = <<"their", x>>
    BY <1>2 DEF RowKinds
  <1>5. EachRow[4 * x + 2] = <<"commits", x>>
    BY <1>2 DEF RowKinds
  <1>6. EachRow[4 * x + 3] = <<"open", x>>
    BY <1>2 DEF RowKinds
  <1> QED BY <1>3, <1>4, <1>5, <1>6

\* With as many threads as circuits each thread sends two messages of labels.
LabelsMessage(p, i, k, kind) == Message(kind, k, i, InputLen[p], NoRow)

LEMMA TwoLabels ==
    ASSUME NumThreads = BucketSize, NEW p \in Party, NEW i \in Thread, NEW k \in Exec
    PROVE  /\ LabelMessages(p, i, k) =
                 <<LabelsMessage(p, i, k, "own")>> \o <<LabelsMessage(p, i, k, "their")>>
           /\ \A kind \in {"own", "their"} :
                /\ LabelsMessage(p, i, k, kind) \in Msg
                /\ LabelsMessage(p, i, k, kind).kind = kind /\ LabelsMessage(p, i, k, kind).ex = k
  <1>1. (BucketSize - i + NumThreads - 1) \div NumThreads = 1
    BY SizeAssumption DEF Thread
  <1>2. CircuitsOf(i) = [n \in 1..1 |-> i + (n - 1) * NumThreads]
    BY <1>1 DEF CircuitsOf
  <1>3. i \in Nat /\ NumThreads \in Nat
    BY SizeAssumption DEF Thread
  <1>4. DOMAIN CircuitsOf(i) = 1..1 /\ CircuitsOf(i)[1] = i
    BY <1>2, <1>3
  <1>5. ASSUME NEW kind \in {"own", "their"}
        PROVE  /\ LabelsOf(p, i, k, kind) = <<LabelsMessage(p, i, k, kind)>>
               /\ LabelsMessage(p, i, k, kind) \in Msg
               /\ LabelsMessage(p, i, k, kind).kind = kind /\ LabelsMessage(p, i, k, kind).ex = k
    <2>1. LabelsOf(p, i, k, kind) = [n \in 1..1 |-> LabelsMessage(p, i, k, kind)]
      BY <1>4 DEF LabelsOf, LabelsMessage
    <2>2. LabelsMessage(p, i, k, kind) \in Msg
      BY <1>3, SizeAssumption DEF LabelsMessage, Message, Msg, NoRow, PsiVal
    <2> QED BY <2>1, <2>2 DEF LabelsMessage, Message
  <1> QED BY <1>5 DEF LabelMessages

LEMMA SendLabels ==
    ASSUME NumThreads = BucketSize, NEW p \in Party, NEW i \in Thread, NEW k \in Exec,
           NEW s \in Seq(Msg), NEW from, Stream(s, from, 4 * k, EachRow)
    PROVE  Stream(s \o LabelMessages(p, i, k), from, 4 * k + 1 + 1, EachRow)
  <1> DEFINE own == LabelsMessage(p, i, k, "own")
             their == LabelsMessage(p, i, k, "their")
             u == s \o <<own>>
  <1>1. /\ LabelMessages(p, i, k) = <<own>> \o <<their>> /\ own \in Msg /\ their \in Msg
        /\ own.kind = "own" /\ own.ex = k /\ their.kind = "their" /\ their.ex = k
    BY TwoLabels
  <1> HIDE DEF own, their
  <1>2. u \in Seq(Msg) /\ s \o LabelMessages(p, i, k) = u \o <<their>>
    BY <1>1
  <1>3. k \in Nat
    BY DEF Exec
  <1>4. EachRow[4 * k] = <<"own", k>> /\ EachRow[4 * k + 1] = <<"their", k>>
    BY <1>3, RowAt
  <1>5. Stream(u, from, 4 * k + 1, EachRow)
    BY <1>1, <1>4, StreamSend
  <1> HIDE DEF u
  <1> QED BY <1>1, <1>2, <1>4, <1>5, StreamSend

\* A step of a sub thread that changes only its position on the channel of rows.
LEMMA SubMovesRows ==
    ASSUME TypeOK, WireInv, NEW p \in Party, NEW i \in Thread, UNCHANGED <<main, loop, eval>>,
           \A r \in Party, j \in Thread : r # p \/ j # i => sub'[r][j] = sub[r][j],
           PermutesRead(sub'[p][i]) = PermutesRead(sub[p][i]),
           NumThreads = BucketSize => EvalWire(Other(p), i)',
           \A c \in Ends \ {EvalEnd(Other(p), i)} : net'[c] = net[c]
    PROVE  WireInv'
  <1> DEFINE q == Other(p)
  <1>q. q \in Party /\ Other(q) = p /\ \A r \in Party : r # q => Other(r) # p
    BY OthersDiffer, EndsType
  <1>o. \A r \in Party : Other(r) \in Party
    BY EndsType
  <1>1. \A r \in Party : MainStill(r) /\ LoopStill(r)
    BY DEF MainStill, LoopStill
  <1>2. \A r \in Party, j \in Thread : SubStill(r, j) /\ (r # q \/ j # i => EvalStill(r, j))
    BY <1>q, <1>o DEF SubStill, EvalStill
  <1> QED BY <1>q, <1>1, <1>2, EvalFrame

LEMMA SubWires ==
    ASSUME TypeOK, WireInv, NEW p \in Party, NEW i \in Thread, SubStep(p, i)
    PROVE  WireInv'
  <1> DEFINE q == Other(p)
             k == sub[p][i].ex
             ch == EvalEnd(q, i)
  <1>q. q \in Party /\ Other(q) = p /\ \A r \in Party : r # q => Other(r) # p
    BY OthersDiffer, EndsType
  <1>o. \A r \in Party : Other(r) \in Party
    BY EndsType
  <1>s. UNCHANGED <<main, loop, eval>>
    BY DEF SubStep, SubSendLabels, SubReceivePermute, SubCommit, SubOpen
  <1>k. k \in Exec
    BY ThreadsTyped, InExec DEF SubStep, SubSendLabels, SubReceivePermute, SubCommit, SubOpen, SubAt
  <1>n. k \in Nat /\ i \in Nat
    BY ThreadsTyped, ThreadIsCircuit
  <1>c. ch \in Ends /\ net[ch] \in Seq(Msg)
        /\ \A msgs : Send(ch, msgs) =>
             net'[ch] = net[ch] \o msgs /\ \A c \in Ends \ {ch} : net'[c] = net[c]
    BY <1>q, EndsType, NetMoved
  <1>w. NumThreads = BucketSize => Stream(net[ch], RowsIn(eval[q][i]), RowsSent(sub[p][i]), EachRow)
    BY <1>q DEF WireInv, EvalWire
  <1>v. ASSUME NumThreads = BucketSize =>
                 Stream(net'[ch], RowsIn(eval[q][i]), RowsSent(sub'[p][i]), EachRow)
        PROVE  NumThreads = BucketSize => EvalWire(q, i)'
    BY <1>q, <1>s, <1>v DEF EvalWire
  <1>1. CASE SubSendLabels(p, i)
    <2>0. sub[p][i].pc = "labels" /\ sub' = [sub EXCEPT ![p][i] = Go(sub[p][i], "permute")]
      BY <1>1 DEF SubSendLabels, SubAt
    <2>1. /\ sub[p][i].pc = "labels" /\ sub'[p][i] = Go(sub[p][i], "permute")
          /\ \A r \in Party, j \in Thread : r # p \/ j # i => sub'[r][j] = sub[r][j]
      BY <2>0 DEF TypeOK
    <2>2. /\ PermutesRead(sub'[p][i]) = PermutesRead(sub[p][i])
          /\ RowsSent(sub[p][i]) = 4 * k /\ RowsSent(sub'[p][i]) = 4 * k + 1 + 1
      BY <2>1, <1>n, RowTables DEF PermutesRead, RowsSent, Go
    <2>3. /\ net'[ch] = net[ch] \o LabelMessages(p, i, k)
          /\ \A c \in Ends \ {ch} : net'[c] = net[c]
      BY <1>1, <1>c DEF SubSendLabels
    <2>4. ASSUME NumThreads = BucketSize
          PROVE  Stream(net'[ch], RowsIn(eval[q][i]), RowsSent(sub'[p][i]), EachRow)
      BY <1>c, <1>k, <1>w, <2>2, <2>3, <2>4, SendLabels
    <2> QED BY <1>s, <1>v, <2>1, <2>2, <2>3, <2>4, SubMovesRows
  <1>2. CASE SubReceivePermute(p, i)
    <2>0. sub[p][i].pc = "permute" /\ sub' = [sub EXCEPT ![p][i] = Go(sub[p][i], "commit")]
      BY <1>2 DEF SubReceivePermute, SubAt
    <2>1. /\ sub[p][i].pc = "permute" /\ sub'[p][i] = Go(sub[p][i], "commit")
          /\ \A r \in Party, j \in Thread : r # p \/ j # i => sub'[r][j] = sub[r][j]
      BY <2>0 DEF TypeOK
    <2>2. /\ PermutesRead(sub[p][i]) = k /\ PermutesRead(sub'[p][i]) = k + 1
          /\ RowsSent(sub'[p][i]) = RowsSent(sub[p][i])
      BY <2>1, <1>n, RowTables DEF PermutesRead, RowsSent, Go
    <2>3. /\ net[SubEnd(p, i)] \in Seq(Msg) /\ net[SubEnd(p, i)] # <<>>
          /\ net'[SubEnd(p, i)] = Tail(net[SubEnd(p, i)])
          /\ \A c \in Ends \ {SubEnd(p, i)} : net'[c] = net[c]
      BY <1>2, EndsType, NetMoved DEF SubReceivePermute, Receivable
    <2>4. SubWire(p, i)'
      BY <1>q, <1>s, <2>2, <2>3, StreamReceive DEF WireInv, SubWire
    <2>5. \A r \in Party : MainStill(r) /\ LoopStill(r)
      BY <1>s DEF MainStill, LoopStill
    <2>6. \A r \in Party, j \in Thread : EvalStill(r, j) /\ (r # p \/ j # i => SubStill(r, j))
      BY <1>s, <1>o, <2>1, <2>2 DEF SubStill, EvalStill
    <2> QED BY <2>3, <2>4, <2>5, <2>6, SubFrame
  <1>3. CASE SubCommit(p, i)
    <2> DEFINE m == Plain("commits", k, i)
    <2>0. sub[p][i].pc = "commit" /\ sub' = [sub EXCEPT ![p][i] = Go(sub[p][i], "check")]
      BY <1>3 DEF SubCommit, SubAt
    <2>1. /\ sub[p][i].pc = "commit" /\ sub'[p][i] = Go(sub[p][i], "check")
          /\ \A r \in Party, j \in Thread : r # p \/ j # i => sub'[r][j] = sub[r][j]
      BY <2>0 DEF TypeOK
    <2>2. /\ PermutesRead(sub'[p][i]) = PermutesRead(sub[p][i])
          /\ RowsSent(sub[p][i]) = 4 * k + 2 /\ RowsSent(sub'[p][i]) = 4 * k + 2 + 1
      BY <2>1, <1>n, RowTables DEF PermutesRead, RowsSent, Go
    <2>3. net'[ch] = net[ch] \o <<m>> /\ \A c \in Ends \ {ch} : net'[c] = net[c]
      BY <1>3, <1>c DEF SubCommit
    <2>4. m \in Msg /\ <<m.kind, m.ex>> = EachRow[4 * k + 2]
      BY <1>k, <1>n, PlainType, RowAt DEF Plain, Message
    <2> HIDE DEF m
    <2>5. NumThreads = BucketSize =>
            Stream(net'[ch], RowsIn(eval[q][i]), RowsSent(sub'[p][i]), EachRow)
      BY <1>c, <1>w, <2>2, <2>3, <2>4, StreamSend
    <2> QED BY <1>s, <1>v, <2>1, <2>2, <2>3, <2>5, SubMovesRows
  <1>4. CASE SubOpen(p, i)
    <2> DEFINE m == Message("open", k, i, 0, bucket[p][k].pse)
    <2>0. sub[p][i].pc = "check" /\ sub' = [sub EXCEPT ![p][i] = Repeat(sub[p][i], "labels")]
      BY <1>4 DEF SubOpen, SubAt
    <2>1. /\ sub[p][i].pc = "check" /\ sub'[p][i] = Repeat(sub[p][i], "labels")
          /\ \A r \in Party, j \in Thread : r # p \/ j # i => sub'[r][j] = sub[r][j]
      BY <2>0 DEF TypeOK
    <2>2. /\ PermutesRead(sub'[p][i]) = PermutesRead(sub[p][i])
          /\ RowsSent(sub[p][i]) = 4 * k + 3 /\ RowsSent(sub'[p][i]) = 4 * k + 3 + 1
      BY <2>1, <1>n, RowTables DEF PermutesRead, RowsSent, Repeat
    <2>3. net'[ch] = net[ch] \o <<m>> /\ \A c \in Ends \ {ch} : net'[c] = net[c]
      BY <1>4, <1>c DEF SubOpen
    <2>4. m \in Msg /\ <<m.kind, m.ex>> = EachRow[4 * k + 3]
      BY <1>k, <1>n, BucketsTyped, RowAt DEF Message, Msg, BucketType
    <2> HIDE DEF m
    <2>5. NumThreads = BucketSize =>
            Stream(net'[ch], RowsIn(eval[q][i]), RowsSent(sub'[p][i]), EachRow)
      BY <1>c, <1>w, <2>2, <2>3, <2>4, StreamSend
    <2> QED BY <1>s, <1>v, <2>1, <2>2, <2>3, <2>5, SubMovesRows
  <1> QED BY <1>1, <1>2, <1>3, <1>4 DEF SubStep

\* A step of an eval thread that is quiet, or takes the next message of its channel.
LEMMA EvalMovesRows ==
    ASSUME TypeOK, WireInv, NEW p \in Party, NEW i \in Thread, UNCHANGED <<main, loop, sub>>,
           \A r \in Party, j \in Thread : r # p \/ j # i => eval'[r][j] = eval[r][j],
           PermutesSent(eval'[p][i]) = PermutesSent(eval[p][i]),
           \/ UNCHANGED net /\ RowsIn(eval'[p][i]) = RowsIn(eval[p][i])
           \/ /\ Receivable(EvalEnd(p, i)) /\ Consume(EvalEnd(p, i))
              /\ RowsIn(eval'[p][i]) = RowsIn(eval[p][i]) + 1
    PROVE  WireInv'
  <1> DEFINE ch == EvalEnd(p, i)
  <1>q. \A r \in Party : Other(r) \in Party
    BY EndsType
  <1>1. \A r \in Party : MainStill(r) /\ LoopStill(r)
    BY DEF MainStill, LoopStill
  <1>2. \A r \in Party, j \in Thread : SubStill(r, j) /\ (r # p \/ j # i => EvalStill(r, j))
    BY <1>q DEF SubStill, EvalStill
  <1>3. CASE UNCHANGED net /\ RowsIn(eval'[p][i]) = RowsIn(eval[p][i])
    <2>1. \A r \in Party, j \in Thread : EvalStill(r, j)
      BY <1>2, <1>3 DEF EvalStill
    <2> QED BY <1>1, <1>2, <1>3, <2>1, QuietWires DEF AllStill
  <1>4. CASE /\ Receivable(ch) /\ Consume(ch)
             /\ RowsIn(eval'[p][i]) = RowsIn(eval[p][i]) + 1
    <2>1. /\ net[ch] \in Seq(Msg) /\ net[ch] # <<>> /\ net'[ch] = Tail(net[ch])
          /\ \A c \in Ends \ {ch} : net'[c] = net[c]
      BY <1>4, EndsType, NetMoved DEF Receivable
    <2>2. NumThreads = BucketSize => EvalWire(p, i)'
      BY <1>4, <2>1, StreamReceive DEF WireInv, EvalWire
    <2> QED BY <1>1, <1>2, <2>1, <2>2, EvalFrame
  <1> QED BY <1>3, <1>4

LEMMA EvalWires ==
    ASSUME TypeOK, WireInv, NEW p \in Party, NEW i \in Thread, EvalStep(p, i), ~Abort(p)
    PROVE  WireInv'
  <1> DEFINE q == Other(p)
             k == eval[p][i].ex
  <1>q. q \in Party /\ Other(q) = p /\ \A r \in Party : r # q => Other(r) # p
    BY OthersDiffer, EndsType
  <1>o. \A r \in Party : Other(r) \in Party
    BY EndsType
  <1>s. UNCHANGED <<main, loop, sub>>
    BY DEF EvalStep, EvalReceiveTheirLabels, EvalReceiveOwnLabels, EvalDraw, EvalSendPermute,
           EvalReceiveCommits, EvalCheckTranslation, EvalOpen
  <1>k. k \in Exec
    BY ThreadsTyped, InExec
       DEF EvalStep, EvalReceiveTheirLabels, EvalReceiveOwnLabels, EvalDraw, EvalSendPermute,
           EvalReceiveCommits, EvalCheckTranslation, EvalOpen, EvalAt
  <1>n. k \in Nat /\ i \in Nat
    BY ThreadsTyped, ThreadIsCircuit
  <1>1. CASE EvalReceiveTheirLabels(p, i)
    <2>1. /\ eval[p][i].pc = "their" /\ eval' = [eval EXCEPT ![p][i] = Go(eval[p][i], "own")]
          /\ Receivable(EvalEnd(p, i)) /\ Consume(EvalEnd(p, i))
      BY <1>1 DEF EvalReceiveTheirLabels, EvalAt
    <2>2. /\ eval'[p][i] = Go(eval[p][i], "own")
          /\ \A r \in Party, j \in Thread : r # p \/ j # i => eval'[r][j] = eval[r][j]
      BY <2>1 DEF TypeOK
    <2>3. /\ PermutesSent(eval'[p][i]) = PermutesSent(eval[p][i])
          /\ RowsIn(eval'[p][i]) = RowsIn(eval[p][i]) + 1
      BY <1>n, <2>1, <2>2, RowTables DEF PermutesSent, RowsIn, Go
    <2> QED BY <1>s, <2>1, <2>2, <2>3, EvalMovesRows
  <1>2. CASE EvalReceiveOwnLabels(p, i)
    <2>1. /\ eval[p][i].pc = "own" /\ eval' = [eval EXCEPT ![p][i] = Go(eval[p][i], "draw")]
          /\ Receivable(EvalEnd(p, i)) /\ Consume(EvalEnd(p, i))
      BY <1>2 DEF EvalReceiveOwnLabels, EvalAt
    <2>2. /\ eval'[p][i] = Go(eval[p][i], "draw")
          /\ \A r \in Party, j \in Thread : r # p \/ j # i => eval'[r][j] = eval[r][j]
      BY <2>1 DEF TypeOK
    <2>3. /\ PermutesSent(eval'[p][i]) = PermutesSent(eval[p][i])
          /\ RowsIn(eval'[p][i]) = RowsIn(eval[p][i]) + 1
      BY <1>n, <2>1, <2>2, RowTables DEF PermutesSent, RowsIn, Go
    <2> QED BY <1>s, <2>1, <2>2, <2>3, EvalMovesRows
  <1>3. CASE EvalDraw(p, i)
    <2>1. /\ eval[p][i].pc = "draw" /\ eval' = [eval EXCEPT ![p][i] = Go(eval[p][i], "permute")]
          /\ UNCHANGED net
      BY <1>3 DEF EvalDraw, EvalAt
    <2>2. /\ eval'[p][i] = Go(eval[p][i], "permute")
          /\ \A r \in Party, j \in Thread : r # p \/ j # i => eval'[r][j] = eval[r][j]
      BY <2>1 DEF TypeOK
    <2>3. /\ PermutesSent(eval'[p][i]) = PermutesSent(eval[p][i])
          /\ RowsIn(eval'[p][i]) = RowsIn(eval[p][i])
      BY <1>n, <2>1, <2>2, RowTables DEF PermutesSent, RowsIn, Go
    <2> QED BY <1>s, <2>1, <2>2, <2>3, EvalMovesRows
  <1>4. CASE EvalSendPermute(p, i)
    <2> DEFINE m == Plain("permute", k, i)
    <2>1. eval[p][i].pc = "permute" /\ eval' = [eval EXCEPT ![p][i] = Go(eval[p][i], "commits")]
      BY <1>4 DEF EvalSendPermute, EvalAt
    <2>2. /\ eval'[p][i] = Go(eval[p][i], "commits")
          /\ \A r \in Party, j \in Thread : r # p \/ j # i => eval'[r][j] = eval[r][j]
      BY <2>1 DEF TypeOK
    <2>3. /\ PermutesSent(eval[p][i]) = k /\ PermutesSent(eval'[p][i]) = k + 1
          /\ RowsIn(eval'[p][i]) = RowsIn(eval[p][i])
      BY <1>n, <2>1, <2>2, RowTables DEF PermutesSent, RowsIn, Go
    <2>4. net[SubEnd(q, i)] \in Seq(Msg) /\ net'[SubEnd(q, i)] = net[SubEnd(q, i)] \o <<m>>
          /\ \A c \in Ends \ {SubEnd(q, i)} : net'[c] = net[c]
      BY <1>4, <1>q, EndsType, NetMoved DEF EvalSendPermute
    <2>5. m \in Msg /\ <<m.kind, m.ex>> = Each("permute")[k]
      BY <1>k, <1>n, PlainType DEF Plain, Message, Each
    <2> HIDE DEF m
    <2>6. SubWire(q, i)'
      BY <1>q, <1>s, <2>3, <2>4, <2>5, StreamSend DEF WireInv, SubWire
    <2>7. \A r \in Party : MainStill(r) /\ LoopStill(r)
      BY <1>s DEF MainStill, LoopStill
    <2>8. \A r \in Party, j \in Thread : EvalStill(r, j) /\ (r # q \/ j # i => SubStill(r, j))
      BY <1>q, <1>o, <1>s, <2>2, <2>3 DEF SubStill, EvalStill
    <2> QED BY <1>q, <2>4, <2>6, <2>7, <2>8, SubFrame
  <1>5. CASE EvalReceiveCommits(p, i)
    <2>1. /\ eval[p][i].pc = "commits" /\ eval' = [eval EXCEPT ![p][i] = Go(eval[p][i], "check")]
          /\ Receivable(EvalEnd(p, i)) /\ Consume(EvalEnd(p, i))
      BY <1>5 DEF EvalReceiveCommits, EvalAt
    <2>2. /\ eval'[p][i] = Go(eval[p][i], "check")
          /\ \A r \in Party, j \in Thread : r # p \/ j # i => eval'[r][j] = eval[r][j]
      BY <2>1 DEF TypeOK
    <2>3. /\ PermutesSent(eval'[p][i]) = PermutesSent(eval[p][i])
          /\ RowsIn(eval'[p][i]) = RowsIn(eval[p][i]) + 1
      BY <1>n, <2>1, <2>2, RowTables DEF PermutesSent, RowsIn, Go
    <2> QED BY <1>s, <2>1, <2>2, <2>3, EvalMovesRows
  <1>6. CASE EvalCheckTranslation(p, i)
    <2>1. /\ eval[p][i].pc = "check" /\ eval' = [eval EXCEPT ![p][i] = Go(eval[p][i], "open")]
          /\ UNCHANGED net
      BY <1>6 DEF EvalCheckTranslation, EvalAt
    <2>2. /\ eval'[p][i] = Go(eval[p][i], "open")
          /\ \A r \in Party, j \in Thread : r # p \/ j # i => eval'[r][j] = eval[r][j]
      BY <2>1 DEF TypeOK
    <2>3. /\ PermutesSent(eval'[p][i]) = PermutesSent(eval[p][i])
          /\ RowsIn(eval'[p][i]) = RowsIn(eval[p][i])
      BY <1>n, <2>1, <2>2, RowTables DEF PermutesSent, RowsIn, Go
    <2> QED BY <1>s, <2>1, <2>2, <2>3, EvalMovesRows
  <1>7. CASE EvalOpen(p, i)
    <2>1. /\ eval[p][i].pc = "open" /\ eval' = [eval EXCEPT ![p][i] = Repeat(eval[p][i], "their")]
          /\ Receivable(EvalEnd(p, i)) /\ Consume(EvalEnd(p, i))
      BY <1>7 DEF EvalOpen, EvalAt
    <2>2. /\ eval'[p][i] = Repeat(eval[p][i], "their")
          /\ \A r \in Party, j \in Thread : r # p \/ j # i => eval'[r][j] = eval[r][j]
      BY <2>1 DEF TypeOK
    <2>3. /\ PermutesSent(eval'[p][i]) = PermutesSent(eval[p][i])
          /\ RowsIn(eval'[p][i]) = RowsIn(eval[p][i]) + 1
      BY <1>n, <2>1, <2>2, RowTables DEF PermutesSent, RowsIn, Repeat
    <2> QED BY <1>s, <2>1, <2>2, <2>3, EvalMovesRows
  <1> QED BY <1>1, <1>2, <1>3, <1>4, <1>5, <1>6, <1>7 DEF EvalStep

\* What is in flight on every channel follows from where its two threads are.
THEOREM WiresCorrect == SafetySpec => []WireInv
  <1>1. TypeOK /\ WireInv /\ [Next]_vars => WireInv'
    <2> SUFFICES ASSUME TypeOK, WireInv, [Next]_vars
                 PROVE  WireInv'
      OBVIOUS
    <2>1. CASE UNCHANGED <<main, loop, sub, eval, net>>
      BY <2>1, QuietWires DEF AllStill, MainStill, LoopStill, SubStill, EvalStill
    <2>2. CASE UNCHANGED vars
      BY <2>1, <2>2 DEF vars
    <2>3. ASSUME NEW p \in Party, Abort(p)
          PROVE  WireInv'
      BY <2>1, <2>3 DEF Abort
    <2>4. ASSUME NEW p \in Party, Fail(p) \/ LosePeer(p)
          PROVE  WireInv'
      BY <2>3, <2>4 DEF Fail, LosePeer
    <2> QED BY <2>2, <2>3, <2>4, MainWires, LoopWires, SubWires, EvalWires DEF Next
  <1> QED BY <1>1, InitWire, TypeCorrect, PTL DEF SafetySpec

-----------------------------------------------------------------------------
(* What a thread's position says about how far it is, and the other way round. *)

LEMMA SubPositions ==
    ASSUME NEW t \in SubAtType, NEW k \in Exec
    PROVE  /\ Past(t, SubOrder, k, "permute") <=> PermutesRead(t) > k
           /\ Past(t, SubOrder, k, "commit") <=> RowsSent(t) >= 4 * k + 3
           /\ Past(t, SubOrder, k, "commit") => Past(t, SubOrder, k, "labels")
           /\ Past(t, SubOrder, k, "permute") => Past(t, SubOrder, k, "labels")
           /\ Past(t, SubOrder, k, "labels") => t.ex >= k
  <1>1. t.ex \in Nat /\ t.pc \in SubPc /\ k \in Nat
    BY DEF SubAtType, At, Exec
  <1>2. CASE t.pc = "labels"
    BY <1>1, <1>2, Orders, RowTables DEF Past, PermutesRead, RowsSent
  <1>3. CASE t.pc = "permute"
    BY <1>1, <1>3, Orders, RowTables DEF Past, PermutesRead, RowsSent
  <1>4. CASE t.pc = "commit"
    BY <1>1, <1>4, Orders, RowTables DEF Past, PermutesRead, RowsSent
  <1>5. CASE t.pc = "check"
    BY <1>1, <1>5, Orders, RowTables DEF Past, PermutesRead, RowsSent
  <1> QED BY <1>1, <1>2, <1>3, <1>4, <1>5 DEF SubPc

LEMMA EvalPositions ==
    ASSUME NEW t \in EvalAtType, NEW k \in Exec
    PROVE  /\ Past(t, EvalOrder, k, "permute") <=> PermutesSent(t) > k
           /\ Past(t, EvalOrder, k, "commits") <=> RowsIn(t) >= 4 * k + 3
           /\ Past(t, EvalOrder, k, "commits") => t.ex >= k
           /\ Past(t, EvalOrder, k, "permute") => t.ex >= k
  <1>1. t.ex \in Nat /\ t.pc \in EvalPc /\ k \in Nat
    BY DEF EvalAtType, At, Exec
  <1>2. ASSUME NEW pc \in {"their", "own", "draw", "permute"}, t.pc = pc
        PROVE  /\ Past(t, EvalOrder, k, "permute") <=> PermutesSent(t) > k
               /\ Past(t, EvalOrder, k, "commits") <=> RowsIn(t) >= 4 * k + 3
    BY <1>1, <1>2, Orders, RowTables DEF Past, PermutesSent, RowsIn
  <1>3. ASSUME NEW pc \in {"commits", "check", "open"}, t.pc = pc
        PROVE  /\ Past(t, EvalOrder, k, "permute") <=> PermutesSent(t) > k
               /\ Past(t, EvalOrder, k, "commits") <=> RowsIn(t) >= 4 * k + 3
    BY <1>1, <1>3, Orders, RowTables DEF Past, PermutesSent, RowsIn
  <1>4. \A pc : Past(t, EvalOrder, k, pc) => t.ex >= k
    BY <1>1 DEF Past
  <1> QED BY <1>1, <1>2, <1>3, <1>4 DEF EvalPc

\* Only its own step moves a thread.
LEMMA StepMoves ==
    ASSUME [Next]_vars
    PROVE  /\ UNCHANGED main \/ \E p \in Party : MainStep(p) /\ ~Abort(p)
           /\ UNCHANGED loop \/ \E p \in Party : LoopStep(p)
  <1>1. CASE UNCHANGED vars
    BY <1>1 DEF vars
  <1>2. ASSUME NEW p \in Party, MainStep(p)
        PROVE  UNCHANGED loop
    BY <1>2 DEF MainStep, MainCall, MainCheckLabels, MainReceiveSeed, MainReturn, MainClose, Abort
  <1>3. ASSUME NEW p \in Party, LoopStep(p)
        PROVE  UNCHANGED main
    BY <1>3 DEF LoopStep, LoopReceiveCorrection, LoopSendSeed
  <1>4. ASSUME NEW p \in Party, NEW i \in Thread, SubStep(p, i)
        PROVE  UNCHANGED <<main, loop>>
    BY <1>4 DEF SubStep, SubSendLabels, SubReceivePermute, SubCommit, SubOpen
  <1>5. ASSUME NEW p \in Party, NEW i \in Thread, EvalStep(p, i)
        PROVE  UNCHANGED <<main, loop>>
    BY <1>5 DEF EvalStep, EvalReceiveTheirLabels, EvalReceiveOwnLabels, EvalDraw, EvalSendPermute,
                EvalReceiveCommits, EvalCheckTranslation, EvalOpen, Abort
  <1>6. ASSUME NEW p \in Party, Fail(p) \/ LosePeer(p) \/ Abort(p)
        PROVE  UNCHANGED <<main, loop>>
    BY <1>6 DEF Fail, LosePeer, Abort
  <1> QED BY <1>1, <1>2, <1>3, <1>4, <1>5, <1>6 DEF Next

\* A thread never comes back to what it has left.
LEMMA PastStays ==
    ASSUME TypeOK, [Next]_vars, NEW r \in Party, NEW l \in Exec, NEW i \in Thread
    PROVE  /\ \A pc \in SubPc : SubPast(r, i, l, pc) => SubPast(r, i, l, pc)'
           /\ \A pc \in EvalPc : EvalPast(r, i, l, pc) => EvalPast(r, i, l, pc)'
  <1>1. /\ UNCHANGED sub => \A pc \in SubPc : SubPast(r, i, l, pc) => SubPast(r, i, l, pc)'
        /\ UNCHANGED eval => \A pc \in EvalPc : EvalPast(r, i, l, pc) => EvalPast(r, i, l, pc)'
    BY DEF SubPast, EvalPast, Past
  <1>2. ASSUME NEW p \in Party, NEW j \in Thread, SubStep(p, j)
        PROVE  UNCHANGED eval /\ \A pc \in SubPc : SubPast(r, i, l, pc) => SubPast(r, i, l, pc)'
    <2>1. UNCHANGED eval
      BY <1>2 DEF SubStep, SubSendLabels, SubReceivePermute, SubCommit, SubOpen
    <2>2. PICK q \in SubPc : SubGoes(p, j, q)
      BY <1>2, SubStepLeaves
    <2>3. SubJoins(p, j, q)
      BY <2>2, SubLeaves
    <2>4. \A pc \in SubPc : SubsPast(r, l, pc) \subseteq SubsPast(r, l, pc)'
      BY <2>3 DEF SubJoins
    <2> QED BY <2>1, <2>4 DEF SubsPast
  <1>3. ASSUME NEW p \in Party, NEW j \in Thread, EvalStep(p, j), ~Abort(p)
        PROVE  UNCHANGED sub /\ \A pc \in EvalPc : EvalPast(r, i, l, pc) => EvalPast(r, i, l, pc)'
    <2>1. UNCHANGED sub
      BY <1>3 DEF EvalStep, EvalReceiveTheirLabels, EvalReceiveOwnLabels, EvalDraw, EvalSendPermute,
                  EvalReceiveCommits, EvalCheckTranslation, EvalOpen
    <2>2. PICK q \in EvalPc : EvalGoes(p, j, q)
      BY <1>3, EvalStepGoes
    <2>3. EvalJoins(p, j, q)
      BY <2>2, EvalLeaves
    <2>4. \A pc \in EvalPc : EvalsPast(r, l, pc) \subseteq EvalsPast(r, l, pc)'
      BY <2>3 DEF EvalJoins
    <2> QED BY <2>1, <2>4 DEF EvalsPast
  <1>4. ASSUME NEW p \in Party,
               Abort(p) \/ MainStep(p) \/ LoopStep(p) \/ Fail(p) \/ LosePeer(p)
        PROVE  UNCHANGED <<sub, eval>>
    BY <1>4 DEF MainStep, MainCall, MainCheckLabels, MainReceiveSeed, MainReturn, MainClose,
                LoopStep, LoopReceiveCorrection, LoopSendSeed, Fail, LosePeer, Abort
  <1>5. CASE UNCHANGED vars
    BY <1>1, <1>5 DEF vars
  <1> QED BY <1>1, <1>2, <1>3, <1>4, <1>5 DEF Next

-----------------------------------------------------------------------------
(* The seed.  sendLoop reveals it only with both countdowns at zero: they are *)
(* exact, so every sub thread of the party has the peer's masked input and    *)
(* every eval thread the peer's commitments.  The wire then says that the     *)
(* peer's threads have sent them.                                             *)

SeedSent(p, k) ==
    loop[p].ex > k =>
        /\ NumThreads = BucketSize
        /\ \A i \in Thread :
            /\ EvalPast(Other(p), i, k, "permute") /\ SubPast(Other(p), i, k, "commit")
            /\ SubPast(p, i, k, "permute") /\ EvalPast(p, i, k, "commits")

SeedInv == \A p \in Party, k \in Exec : SeedSent(p, k)

LEMMA FullCountdown ==
    Count(Thread) = 0 => NumThreads = BucketSize
  <1>1. Cardinality(Thread) = NumThreads
    BY FS_Interval, SizeAssumption DEF Thread
  <1> QED BY <1>1, SizeAssumption DEF Count

LEMMA SeedRevealed ==
    ASSUME TypeOK, CountersExact, WireInv, NEW p \in Party, LoopSendSeed(p), NEW i \in Thread
    PROVE  LET k == loop[p].ex IN
           /\ k \in Exec /\ NumThreads = BucketSize
           /\ EvalPast(Other(p), i, k, "permute") /\ SubPast(Other(p), i, k, "commit")
           /\ SubPast(p, i, k, "permute") /\ EvalPast(p, i, k, "commits")
  <1> DEFINE k == loop[p].ex
             q == Other(p)
  <1>1. k \in Exec /\ k \in Nat
    <2>1. k \in Exec
      BY ThreadsTyped, InExec DEF LoopSendSeed, LoopAt
    <2> QED BY <2>1, ThreadsTyped
  <1>2. bucket[p][k].permuteLeft = 0 /\ bucket[p][k].commitLeft = 0
    BY DEF LoopSendSeed, InputsCommitted
  <1>3. Count(SubsPast(p, k, "permute")) = 0 /\ Count(EvalsPast(p, k, "commits")) = 0
    BY <1>1, <1>2, ExactEverywhere DEF ExactIn
  <1>4. SubsPast(p, k, "permute") = Thread /\ EvalsPast(p, k, "commits") = Thread
    BY <1>3, SubsPastIsSet, CountFacts
  <1>5. NumThreads = BucketSize
    BY <1>3, <1>4, FullCountdown
  <1>6. SubPast(p, i, k, "permute") /\ EvalPast(p, i, k, "commits")
    BY <1>4 DEF SubsPast, EvalsPast
  <1>7. q \in Party /\ Other(q) = p
    BY EndsType, OthersDiffer
  <1>8. /\ sub[p][i] \in SubAtType /\ sub[q][i] \in SubAtType
        /\ eval[p][i] \in EvalAtType /\ eval[q][i] \in EvalAtType
    BY <1>7, ThreadsTyped
  <1>9. PermutesRead(sub[p][i]) > k /\ RowsIn(eval[p][i]) >= 4 * k + 3
    BY <1>1, <1>6, <1>8, SubPositions, EvalPositions DEF SubPast, EvalPast
  <1>10. PermutesSent(eval[q][i]) > k
    <2>1. Stream(net[SubEnd(p, i)], PermutesRead(sub[p][i]), PermutesSent(eval[q][i]), Each("permute"))
      BY DEF WireInv, SubWire
    <2>2. net[SubEnd(p, i)] \in Seq(Msg)
      BY EndsType DEF TypeOK
    <2> QED BY <1>1, <1>9, <2>1, <2>2, LenProperties DEF Stream
  <1>11. RowsSent(sub[q][i]) >= 4 * k + 3
    <2>1. Stream(net[EvalEnd(p, i)], RowsIn(eval[p][i]), RowsSent(sub[q][i]), EachRow)
      BY <1>5 DEF WireInv, EvalWire
    <2>2. net[EvalEnd(p, i)] \in Seq(Msg)
      BY EndsType DEF TypeOK
    <2> QED BY <1>1, <1>9, <2>1, <2>2, LenProperties DEF Stream
  <1>12. EvalPast(q, i, k, "permute") /\ SubPast(q, i, k, "commit")
    BY <1>1, <1>8, <1>10, <1>11, SubPositions, EvalPositions DEF SubPast, EvalPast
  <1> QED BY <1>1, <1>5, <1>6, <1>12

LEMMA SeedStays ==
    ASSUME TypeOK, CountersExact, WireInv, SeedInv, [Next]_vars
    PROVE  SeedInv'
  <1> SUFFICES ASSUME NEW p \in Party, NEW k \in Exec, loop'[p].ex > k, NEW i \in Thread
               PROVE  /\ NumThreads = BucketSize
                      /\ EvalPast(Other(p), i, k, "permute")' /\ SubPast(Other(p), i, k, "commit")'
                      /\ SubPast(p, i, k, "permute")' /\ EvalPast(p, i, k, "commits")'
    BY ZeroThread DEF SeedInv, SeedSent
  <1>1. Other(p) \in Party /\ {"permute", "commit"} \subseteq SubPc
        /\ {"permute", "commits"} \subseteq EvalPc
    BY EndsType DEF SubPc, EvalPc
  <1>2. SUFFICES /\ NumThreads = BucketSize
                 /\ EvalPast(Other(p), i, k, "permute") /\ SubPast(Other(p), i, k, "commit")
                 /\ SubPast(p, i, k, "permute") /\ EvalPast(p, i, k, "commits")
    BY <1>1, PastStays
  <1>3. CASE loop[p].ex > k
    BY <1>3 DEF SeedInv, SeedSent
  <1>4. CASE ~(loop[p].ex > k)
    <2>1. LoopSendSeed(p) /\ k = loop[p].ex
      <3>1. loop[p].ex \in Nat /\ loop[p] \in LoopAtType
        BY ThreadsTyped
      <3>2. PICK q \in Party : LoopStep(q)
        BY <1>4, StepMoves
      <3>3. PICK t : /\ loop' = [loop EXCEPT ![q] = t]
                     /\ \/ t = Go(loop[q], "commits")
                        \/ LoopSendSeed(q) /\ t = Repeat(loop[q], "correction")
        BY <3>2 DEF LoopStep, LoopReceiveCorrection, LoopSendSeed
      <3>4. q = p /\ loop'[p] = t
        BY <1>4, <3>3, Moved
      <3>5. k \in Nat
        BY DEF Exec
      <3> QED BY <1>4, <3>1, <3>3, <3>4, <3>5 DEF Go, Repeat
    <2> QED BY <2>1, SeedRevealed
  <1> QED BY <1>3, <1>4

LEMMA SeedHolds == SafetySpec => []SeedInv
  <1>1. Init => SeedInv
    BY DEF Init, SeedInv, SeedSent, Exec
  <1> QED BY <1>1, SeedStays, TypeCorrect, CountdownsCorrect, WiresCorrect, PTL DEF SafetySpec

\* sendLoop reveals the seed of a party's output labels only when the peer has
\* sent all its masked receiver inputs and all its commitments, for every size.
THEOREM SeedAfterCommits == SafetySpec => []SeedAfterCommit
  <1>1. SeedInv => SeedAfterCommit
    BY DEF SeedInv, SeedSent, SeedAfterCommit
  <1> QED BY <1>1, SeedHolds, PTL

\* When execute returns no sub thread of the execution will read the caller's
\* input any more: the seed it received was sent after they committed to it.
THEOREM InputStaysPinned == SafetySpec => []InputPinned
  <1>1. TypeOK /\ WireInv /\ SeedInv => InputPinned
    <2> SUFFICES ASSUME TypeOK, WireInv, SeedInv, NEW p \in Party, NEW k \in Exec, main[p].ex > k,
                        NEW i \in Thread
                 PROVE  SubPast(p, i, k, "labels")
      BY DEF InputPinned
    <2>1. Other(p) \in Party /\ Other(Other(p)) = p
      BY EndsType, OthersDiffer
    <2>2. loop[Other(p)].ex > k
      <3>1. Stream(net[MainEnd(p)], SeedsIn(main[p]), loop[Other(p)].ex, Each("seed"))
        BY DEF WireInv, MainWire
      <3>2. net[MainEnd(p)] \in Seq(Msg)
        BY EndsType DEF TypeOK
      <3>3. main[p].ex \in Nat /\ k \in Nat
        BY ThreadsTyped DEF Exec
      <3>4. SeedsIn(main[p]) >= main[p].ex
        BY <3>3 DEF SeedsIn
      <3> QED BY <3>1, <3>2, <3>3, <3>4, LenProperties DEF Stream
    <2>3. SubPast(p, i, k, "commit")
      BY <2>1, <2>2 DEF SeedInv, SeedSent
    <2> QED BY <2>3, ThreadsTyped, SubPositions DEF SubPast
  <1> QED BY <1>1, TypeCorrect, WiresCorrect, SeedHolds, PTL

-----------------------------------------------------------------------------
(* Lockstep.  A promise of a bucket is set by a thread that is that far, and  *)
(* a thread that waited for it is past the wait: so no thread is ahead of the *)
(* main and loop threads it depends on.                                       *)

FlagsOf(p, k) ==
    /\ bucket[p][k].input => CorrectionsSent(main[p]) > k
    /\ bucket[p][k].correction => CorrectionsIn(loop[p]) > k
    /\ bucket[p][k].translation => SeedsIn(main[p]) > k

WaitsOf(p, k) ==
    \A i \in Thread :
        /\ SubPast(p, i, k, "labels") => CorrectionsSent(main[p]) > k /\ CorrectionsIn(loop[p]) > k
        /\ EvalPast(p, i, k, "check") => SeedsIn(main[p]) > k

WaitInv == \A p \in Party, k \in Exec : FlagsOf(p, k) /\ WaitsOf(p, k)

LEMMA MainGoes ==
    ASSUME TypeOK, NEW p \in Party, MainStep(p), ~Abort(p)
    PROVE  /\ \A r \in Party : r # p => main'[r] = main[r]
           /\ \/ main[p].pc = "idle" /\ main'[p] = Go(main[p], "labels")
              \/ main[p].pc = "labels" /\ main'[p] = Go(main[p], "seed")
              \/ main[p].pc = "seed" /\ main'[p] = Go(main[p], "output")
              \/ main[p].pc = "output" /\ main'[p] = Repeat(main[p], "idle")
              \/ main[p].pc = "idle" /\ main'[p] = Go(main[p], "closed")
  <1>1. PICK t : /\ main' = [main EXCEPT ![p] = t]
                 /\ \/ main[p].pc = "idle" /\ t = Go(main[p], "labels")
                    \/ main[p].pc = "labels" /\ t = Go(main[p], "seed")
                    \/ main[p].pc = "seed" /\ t = Go(main[p], "output")
                    \/ main[p].pc = "output" /\ t = Repeat(main[p], "idle")
                    \/ main[p].pc = "idle" /\ t = Go(main[p], "closed")
    BY DEF MainStep, MainCall, MainCheckLabels, MainReceiveSeed, MainReturn, MainClose, MainAt, Calling
  <1> QED BY <1>1, Moved

LEMMA LoopGoes ==
    ASSUME TypeOK, NEW p \in Party, LoopStep(p)
    PROVE  /\ \A r \in Party : r # p => loop'[r] = loop[r]
           /\ \/ loop[p].pc = "correction" /\ loop'[p] = Go(loop[p], "commits")
              \/ loop[p].pc = "commits" /\ loop'[p] = Repeat(loop[p], "correction")
  <1>1. PICK t : /\ loop' = [loop EXCEPT ![p] = t]
                 /\ \/ loop[p].pc = "correction" /\ t = Go(loop[p], "commits")
                    \/ loop[p].pc = "commits" /\ t = Repeat(loop[p], "correction")
    BY DEF LoopStep, LoopReceiveCorrection, LoopSendSeed, LoopAt
  <1> QED BY <1>1, Moved

\* What a party has sent and received only grows.
LEMMA CountsGrow ==
    ASSUME TypeOK, [Next]_vars, NEW p \in Party
    PROVE  /\ CorrectionsSent(main'[p]) >= CorrectionsSent(main[p])
           /\ SeedsIn(main'[p]) >= SeedsIn(main[p])
           /\ CorrectionsIn(loop'[p]) >= CorrectionsIn(loop[p])
           /\ CorrectionsSent(main[p]) \in Nat /\ SeedsIn(main[p]) \in Nat
           /\ CorrectionsIn(loop[p]) \in Nat
           /\ CorrectionsSent(main'[p]) \in Nat /\ SeedsIn(main'[p]) \in Nat
           /\ CorrectionsIn(loop'[p]) \in Nat
  <1>1. main[p].ex \in Nat /\ loop[p].ex \in Nat
    BY ThreadsTyped
  <1>2. \/ main'[p] = main[p]
        \/ main[p].pc = "idle" /\ main'[p] = Go(main[p], "labels")
        \/ main[p].pc = "labels" /\ main'[p] = Go(main[p], "seed")
        \/ main[p].pc = "seed" /\ main'[p] = Go(main[p], "output")
        \/ main[p].pc = "output" /\ main'[p] = Repeat(main[p], "idle")
        \/ main[p].pc = "idle" /\ main'[p] = Go(main[p], "closed")
    BY StepMoves, MainGoes
  <1>3. \/ loop'[p] = loop[p]
        \/ loop[p].pc = "correction" /\ loop'[p] = Go(loop[p], "commits")
        \/ loop[p].pc = "commits" /\ loop'[p] = Repeat(loop[p], "correction")
    BY StepMoves, LoopGoes
  <1>4. /\ CorrectionsSent(main'[p]) >= CorrectionsSent(main[p])
        /\ SeedsIn(main'[p]) >= SeedsIn(main[p])
        /\ CorrectionsSent(main[p]) \in Nat /\ SeedsIn(main[p]) \in Nat
        /\ CorrectionsSent(main'[p]) \in Nat /\ SeedsIn(main'[p]) \in Nat
    BY <1>1, <1>2 DEF CorrectionsSent, SeedsIn, Go, Repeat
  <1>5. /\ CorrectionsIn(loop'[p]) >= CorrectionsIn(loop[p])
        /\ CorrectionsIn(loop[p]) \in Nat /\ CorrectionsIn(loop'[p]) \in Nat
    BY <1>1, <1>3 DEF CorrectionsIn, Go, Repeat
  <1> QED BY <1>4, <1>5

\* Sub and eval threads leave the promises of the other threads alone.
Flags(b) == <<b.input, b.correction, b.translation>>

\* Eval threads leave the sender's encodings alone too.
Kept(b) == <<Flags(b), b.pse>>

LEMMA FlagEdits ==
    ASSUME NEW b \in BucketType, NEW i \in Circuit
    PROVE  /\ Kept([b EXCEPT !.labelsIn = @ \cup {i}]) = Kept(b)
           /\ Kept([b EXCEPT !.permutes = @ \cup {i}, !.permuteLeft = @ - 1]) = Kept(b)
           /\ Kept([b EXCEPT !.commits = @ \cup {i}, !.commitLeft = @ - 1]) = Kept(b)
           /\ Kept([b EXCEPT !.transLeft = @ - 1]) = Kept(b)
  BY Zenon DEF BucketType, Flags, Kept

LEMMA FlagsFrame ==
    ASSUME TypeOK, NEW p \in Party, NEW k \in Exec, NEW c, SetBucket(p, k, c),
           Flags(c) = Flags(bucket[p][k])
    PROVE  \A r \in Party, l \in Exec : Flags(bucket'[r][l]) = Flags(bucket[r][l])
  BY BucketFrame

LEMMA KeptFrame ==
    ASSUME TypeOK, NEW p \in Party, NEW k \in Exec, NEW c, SetBucket(p, k, c),
           Kept(c) = Kept(bucket[p][k])
    PROVE  \A r \in Party, l \in Exec : Kept(bucket'[r][l]) = Kept(bucket[r][l])
  BY BucketFrame

LEMMA SubFlags ==
    ASSUME TypeOK, NEW p \in Party, NEW i \in Thread, SubStep(p, i)
    PROVE  \A r \in Party, l \in Exec : Flags(bucket'[r][l]) = Flags(bucket[r][l])
  <1> DEFINE k == sub[p][i].ex
             b == bucket[p][k]
  <1>k. k \in Exec
    BY ThreadsTyped, InExec DEF SubStep, SubSendLabels, SubReceivePermute, SubCommit, SubOpen, SubAt
  <1>b. b \in BucketType /\ i \in Circuit
    BY <1>k, BucketsTyped, ThreadIsCircuit
  <1>1. CASE SubReceivePermute(p, i)
    <2>1. SetBucket(p, k, [b EXCEPT !.permutes = @ \cup {i}, !.permuteLeft = @ - 1])
      BY <1>1 DEF SubReceivePermute, PermuteReceived
    <2>2. Flags([b EXCEPT !.permutes = @ \cup {i}, !.permuteLeft = @ - 1]) = Flags(b)
      BY <1>b, FlagEdits DEF Kept
    <2> QED BY <1>k, <2>1, <2>2, FlagsFrame
  <1>2. CASE SubCommit(p, i)
    <2>1. PICK v : SetBucket(p, k, [b EXCEPT !.pse[i] = v, !.pseLeft = @ - 1])
      BY <1>2 DEF SubCommit
    <2>2. Flags([b EXCEPT !.pse[i] = v, !.pseLeft = @ - 1]) = Flags(b)
      BY <1>b DEF BucketType, Flags
    <2> QED BY <1>k, <2>1, <2>2, FlagsFrame
  <1>3. CASE SubSendLabels(p, i) \/ SubOpen(p, i)
    BY <1>3 DEF SubSendLabels, SubOpen
  <1> QED BY <1>1, <1>2, <1>3 DEF SubStep

LEMMA EvalFlags ==
    ASSUME TypeOK, NEW p \in Party, NEW i \in Thread, EvalStep(p, i)
    PROVE  \A r \in Party, l \in Exec : Kept(bucket'[r][l]) = Kept(bucket[r][l])
  <1> DEFINE k == eval[p][i].ex
             b == bucket[p][k]
  <1>k. k \in Exec
    BY ThreadsTyped, InExec
       DEF EvalStep, EvalReceiveTheirLabels, EvalReceiveOwnLabels, EvalDraw, EvalSendPermute,
           EvalReceiveCommits, EvalCheckTranslation, EvalOpen, EvalAt
  <1>b. b \in BucketType /\ i \in Circuit
    BY <1>k, BucketsTyped, ThreadIsCircuit
  <1>0. CASE UNCHANGED bucket
    BY <1>0
  <1> SUFFICES ASSUME ~(UNCHANGED bucket)
               PROVE  \A r \in Party, l \in Exec : Kept(bucket'[r][l]) = Kept(bucket[r][l])
    BY <1>0
  <1>a. ~Abort(p)
    BY DEF Abort
  <1>1. CASE EvalReceiveTheirLabels(p, i)
    <2>1. SetBucket(p, k, [b EXCEPT !.labelsIn = @ \cup {i}])
      BY <1>a, <1>1 DEF EvalReceiveTheirLabels
    <2> QED BY <1>k, <1>b, <2>1, FlagEdits, KeptFrame
  <1>2. CASE EvalReceiveOwnLabels(p, i)
    <2>1. PICK v : SetBucket(p, k, [b EXCEPT !.result[i] = v])
      BY <1>a, <1>2 DEF EvalReceiveOwnLabels
    <2>2. Kept([b EXCEPT !.result[i] = v]) = Kept(b)
      BY <1>b DEF BucketType, Flags, Kept
    <2> QED BY <1>k, <2>1, <2>2, KeptFrame
  <1>3. CASE EvalDraw(p, i)
    <2> DEFINE v == ValueToDraw(b, i)
    <2>1. PICK place \in Circuit : SetBucket(p, k, [b EXCEPT !.psi[place] = v])
      BY <1>3 DEF EvalDraw
    <2>2. Kept([b EXCEPT !.psi[place] = v]) = Kept(b)
      BY <1>b DEF BucketType, Flags, Kept
    <2> QED BY <1>k, <2>1, <2>2, KeptFrame
  <1>4. CASE EvalReceiveCommits(p, i)
    <2>1. SetBucket(p, k, [b EXCEPT !.commits = @ \cup {i}, !.commitLeft = @ - 1])
      BY <1>a, <1>4 DEF EvalReceiveCommits
    <2> QED BY <1>k, <1>b, <2>1, FlagEdits, KeptFrame
  <1>5. CASE EvalCheckTranslation(p, i)
    <2>1. SetBucket(p, k, [b EXCEPT !.transLeft = @ - 1])
      BY <1>a, <1>5 DEF EvalCheckTranslation
    <2> QED BY <1>k, <1>b, <2>1, FlagEdits, KeptFrame
  <1>6. CASE EvalOpen(p, i)
    <2>1. PICK c : /\ SetBucket(p, k, c)
                   /\ \/ c = [b EXCEPT !.output = b.result[i]]
                      \/ \E o : c = [b EXCEPT !.misses = @ + 1, !.output = o]
      BY <1>a, <1>6 DEF EvalOpen, Missed
    <2>2. Kept(c) = Kept(b)
      <3>1. CASE c = [b EXCEPT !.output = b.result[i]]
        BY <3>1, <1>b DEF BucketType, Flags, Kept
      <3>2. ASSUME NEW o, c = [b EXCEPT !.misses = @ + 1, !.output = o]
            PROVE  Kept(c) = Kept(b)
        BY <3>2, <1>b DEF BucketType, Flags, Kept
      <3> QED BY <2>1, <3>1, <3>2
    <2> QED BY <1>k, <2>1, <2>2, KeptFrame
  <1> QED BY <1>1, <1>2, <1>3, <1>4, <1>5, <1>6 DEF EvalStep, EvalSendPermute

\* Who sets the promise of a bucket.
LEMMA FlagsSet ==
    ASSUME TypeOK, [Next]_vars, NEW p \in Party, NEW k \in Exec
    PROVE  /\ bucket'[p][k].input => bucket[p][k].input \/ (MainCall(p) /\ k = main[p].ex)
           /\ bucket'[p][k].correction =>
                bucket[p][k].correction \/ (LoopReceiveCorrection(p) /\ k = loop[p].ex)
           /\ bucket'[p][k].translation =>
                bucket[p][k].translation \/ (MainReceiveSeed(p) /\ k = main[p].ex)
  <1>1. CASE Flags(bucket'[p][k]) = Flags(bucket[p][k])
    BY <1>1 DEF Flags
  <1>2. CASE UNCHANGED bucket
    BY <1>2
  <1>b. \A r \in Party, l \in Exec : bucket[r][l] \in BucketType
    BY BucketsTyped
  <1>3. ASSUME NEW q \in Party, MainCall(q)
        PROVE  \/ Flags(bucket'[p][k]) = Flags(bucket[p][k])
               \/ /\ p = q /\ k = main[p].ex
                  /\ bucket'[p][k].correction = bucket[p][k].correction
                  /\ bucket'[p][k].translation = bucket[p][k].translation
    <2>1. main[q].ex \in Exec
      BY <1>3, ThreadsTyped, InExec DEF MainCall
    <2> DEFINE c == [bucket[q][main[q].ex] EXCEPT !.input = TRUE]
    <2>2. SetBucket(q, main[q].ex, c)
      BY <1>3 DEF MainCall
    <2>3. bucket'[p][k] = IF p = q /\ k = main[q].ex THEN c ELSE bucket[p][k]
      <3> HIDE DEF c
      <3> QED BY <2>1, <2>2, BucketFrame
    <2>4. c.correction = bucket[q][main[q].ex].correction
          /\ c.translation = bucket[q][main[q].ex].translation
      BY <1>b, <2>1 DEF BucketType
    <2> HIDE DEF c
    <2> QED BY <2>3, <2>4
  <1>4. ASSUME NEW q \in Party, LoopReceiveCorrection(q)
        PROVE  \/ Flags(bucket'[p][k]) = Flags(bucket[p][k])
               \/ /\ p = q /\ k = loop[p].ex
                  /\ bucket'[p][k].input = bucket[p][k].input
                  /\ bucket'[p][k].translation = bucket[p][k].translation
    <2>1. loop[q].ex \in Exec
      BY <1>4, ThreadsTyped, InExec DEF LoopReceiveCorrection, LoopAt
    <2> DEFINE c == [bucket[q][loop[q].ex] EXCEPT !.correction = TRUE]
    <2>2. SetBucket(q, loop[q].ex, c)
      BY <1>4 DEF LoopReceiveCorrection
    <2>3. bucket'[p][k] = IF p = q /\ k = loop[q].ex THEN c ELSE bucket[p][k]
      <3> HIDE DEF c
      <3> QED BY <2>1, <2>2, BucketFrame
    <2>4. c.input = bucket[q][loop[q].ex].input /\ c.translation = bucket[q][loop[q].ex].translation
      BY <1>b, <2>1 DEF BucketType
    <2> HIDE DEF c
    <2> QED BY <2>3, <2>4
  <1>5. ASSUME NEW q \in Party, MainReceiveSeed(q)
        PROVE  \/ Flags(bucket'[p][k]) = Flags(bucket[p][k])
               \/ /\ p = q /\ k = main[p].ex
                  /\ bucket'[p][k].input = bucket[p][k].input
                  /\ bucket'[p][k].correction = bucket[p][k].correction
    <2>1. main[q].ex \in Exec
      BY <1>5, ThreadsTyped, MoveType, InExec DEF MainReceiveSeed, MainAt, MainAtType, At
    <2> DEFINE c == [bucket[q][main[q].ex] EXCEPT !.translation = TRUE]
    <2>2. SetBucket(q, main[q].ex, c)
      BY <1>5 DEF MainReceiveSeed
    <2>3. bucket'[p][k] = IF p = q /\ k = main[q].ex THEN c ELSE bucket[p][k]
      <3> HIDE DEF c
      <3> QED BY <2>1, <2>2, BucketFrame
    <2>4. c.input = bucket[q][main[q].ex].input /\ c.correction = bucket[q][main[q].ex].correction
      BY <1>b, <2>1 DEF BucketType
    <2> HIDE DEF c
    <2> QED BY <2>3, <2>4
  <1>6. ASSUME NEW q \in Party, MainStep(q) \/ LoopStep(q) \/ Fail(q) \/ LosePeer(q)
        PROVE  UNCHANGED bucket \/ MainCall(q) \/ MainReceiveSeed(q) \/ LoopReceiveCorrection(q)
    BY <1>6 DEF MainStep, MainCheckLabels, MainReturn, MainClose, LoopStep, LoopSendSeed,
                Fail, LosePeer, Abort
  <1>7. CASE UNCHANGED vars
    BY <1>2, <1>7 DEF vars
  <1>8. ASSUME NEW q \in Party, NEW i \in Thread, EvalStep(q, i)
        PROVE  Flags(bucket'[p][k]) = Flags(bucket[p][k])
    BY <1>8, EvalFlags DEF Kept
  <1> QED BY <1>1, <1>2, <1>3, <1>4, <1>5, <1>6, <1>7, <1>8, SubFlags DEF Next

LEMMA FlagsKept ==
    ASSUME TypeOK, WaitInv, [Next]_vars, NEW p \in Party, NEW k \in Exec
    PROVE  FlagsOf(p, k)'
  <1>0. k \in Nat /\ main[p].ex \in Nat /\ loop[p].ex \in Nat
    BY ThreadsTyped DEF Exec
  <1>1. bucket'[p][k].input => CorrectionsSent(main'[p]) > k
    <2>1. CASE bucket[p][k].input
      BY <1>0, <2>1, CountsGrow DEF WaitInv, FlagsOf
    <2>2. CASE MainCall(p) /\ k = main[p].ex
      <3>1. main' = [main EXCEPT ![p] = Go(main[p], "labels")]
        BY <2>2 DEF MainCall, Calling
      <3>2. main'[p] = Go(main[p], "labels")
        BY <3>1, Moved
      <3> QED BY <1>0, <2>2, <3>2 DEF CorrectionsSent, Go
    <2> QED BY <2>1, <2>2, FlagsSet
  <1>2. bucket'[p][k].correction => CorrectionsIn(loop'[p]) > k
    <2>1. CASE bucket[p][k].correction
      BY <1>0, <2>1, CountsGrow DEF WaitInv, FlagsOf
    <2>2. CASE LoopReceiveCorrection(p) /\ k = loop[p].ex
      <3>1. loop' = [loop EXCEPT ![p] = Go(loop[p], "commits")]
        BY <2>2 DEF LoopReceiveCorrection
      <3>2. loop'[p] = Go(loop[p], "commits")
        BY <3>1, Moved
      <3> QED BY <1>0, <2>2, <3>2 DEF CorrectionsIn, Go
    <2> QED BY <2>1, <2>2, FlagsSet
  <1>3. bucket'[p][k].translation => SeedsIn(main'[p]) > k
    <2>1. CASE bucket[p][k].translation
      BY <1>0, <2>1, CountsGrow DEF WaitInv, FlagsOf
    <2>2. CASE MainReceiveSeed(p) /\ k = main[p].ex
      <3>1. main' = [main EXCEPT ![p] = Go(main[p], "output")]
        BY <2>2 DEF MainReceiveSeed
      <3>2. main'[p] = Go(main[p], "output")
        BY <3>1, Moved
      <3> QED BY <1>0, <2>2, <3>2 DEF SeedsIn, Go
    <2> QED BY <2>1, <2>2, FlagsSet
  <1> QED BY <1>1, <1>2, <1>3 DEF FlagsOf

LEMMA SubWaited ==
    ASSUME TypeOK, WaitInv, [Next]_vars, NEW p \in Party, NEW k \in Exec, NEW i \in Thread,
           SubPast(p, i, k, "labels")', ~SubPast(p, i, k, "labels")
    PROVE  bucket[p][k].input /\ bucket[p][k].correction
  <1>1. "labels" \in SubPc
    BY DEF SubPc
  <1>2. PICK q \in Party, j \in Thread : SubStep(q, j)
    <2>1. UNCHANGED sub \/ \E q \in Party, j \in Thread : SubStep(q, j)
      <3>1. CASE UNCHANGED vars
        BY <3>1 DEF vars
      <3>2. ASSUME NEW q \in Party, MainStep(q) \/ LoopStep(q) \/ Fail(q) \/ LosePeer(q)
            PROVE  UNCHANGED sub
        BY <3>2 DEF MainStep, MainCall, MainCheckLabels, MainReceiveSeed, MainReturn, MainClose,
                    LoopStep, LoopReceiveCorrection, LoopSendSeed, Fail, LosePeer, Abort
      <3>3. ASSUME NEW q \in Party, NEW j \in Thread, EvalStep(q, j)
            PROVE  UNCHANGED sub
        BY <3>3 DEF EvalStep, EvalReceiveTheirLabels, EvalReceiveOwnLabels, EvalDraw, EvalSendPermute,
                    EvalReceiveCommits, EvalCheckTranslation, EvalOpen, Abort
      <3> QED BY <3>1, <3>2, <3>3 DEF Next
    <2> QED BY <2>1 DEF SubPast
  <1>3. PICK pc \in SubPc : SubGoes(q, j, pc)
    BY <1>2, SubStepLeaves
  <1>4. SubJoins(q, j, pc)
    BY <1>3, SubLeaves
  <1>5. i \in SubsPast(p, k, "labels")' /\ i \notin SubsPast(p, k, "labels")
    BY DEF SubsPast
  <1>6. q = p /\ j = i /\ pc = "labels" /\ k = sub[p][i].ex
    BY <1>1, <1>4, <1>5 DEF SubJoins
  <1>7. sub[p][i].pc = "labels"
    BY <1>3, <1>6 DEF SubGoes, SubAt
  <1>8. SubSendLabels(p, i)
    BY <1>2, <1>6, <1>7 DEF SubStep, SubReceivePermute, SubCommit, SubOpen, SubAt
  <1> QED BY <1>6, <1>8 DEF SubSendLabels

LEMMA EvalWaited ==
    ASSUME TypeOK, WaitInv, [Next]_vars, NEW p \in Party, NEW k \in Exec, NEW i \in Thread,
           EvalPast(p, i, k, "check")', ~EvalPast(p, i, k, "check")
    PROVE  bucket[p][k].translation
  <1>1. "check" \in EvalPc
    BY DEF EvalPc
  <1>2. PICK q \in Party, j \in Thread : EvalStep(q, j) /\ ~Abort(q)
    <2>1. UNCHANGED eval \/ \E q \in Party, j \in Thread : EvalStep(q, j) /\ ~Abort(q)
      <3>1. CASE UNCHANGED vars
        BY <3>1 DEF vars
      <3>2. ASSUME NEW q \in Party,
                   MainStep(q) \/ LoopStep(q) \/ Fail(q) \/ LosePeer(q) \/ Abort(q)
            PROVE  UNCHANGED eval
        BY <3>2 DEF MainStep, MainCall, MainCheckLabels, MainReceiveSeed, MainReturn, MainClose,
                    LoopStep, LoopReceiveCorrection, LoopSendSeed, Fail, LosePeer, Abort
      <3>3. ASSUME NEW q \in Party, NEW j \in Thread, SubStep(q, j)
            PROVE  UNCHANGED eval
        BY <3>3 DEF SubStep, SubSendLabels, SubReceivePermute, SubCommit, SubOpen
      <3> QED BY <3>1, <3>2, <3>3 DEF Next
    <2> QED BY <2>1 DEF EvalPast
  <1>3. PICK pc \in EvalPc : EvalGoes(q, j, pc)
    BY <1>2, EvalStepGoes
  <1>4. EvalJoins(q, j, pc)
    BY <1>3, EvalLeaves
  <1>5. i \in EvalsPast(p, k, "check")' /\ i \notin EvalsPast(p, k, "check")
    BY DEF EvalsPast
  <1>6. q = p /\ j = i /\ pc = "check" /\ k = eval[p][i].ex
    BY <1>1, <1>4, <1>5 DEF EvalJoins
  <1>7. eval[p][i].pc = "check"
    BY <1>3, <1>6 DEF EvalGoes, EvalAt
  <1>8. EvalCheckTranslation(p, i)
    BY <1>2, <1>6, <1>7 DEF EvalStep, EvalReceiveTheirLabels, EvalReceiveOwnLabels, EvalDraw,
                            EvalSendPermute, EvalReceiveCommits, EvalOpen, EvalAt
  <1> QED BY <1>6, <1>8 DEF EvalCheckTranslation, SeedExpanded

LEMMA WaitStays ==
    ASSUME TypeOK, WaitInv, [Next]_vars
    PROVE  WaitInv'
  <1> SUFFICES ASSUME NEW p \in Party, NEW k \in Exec
               PROVE  FlagsOf(p, k)' /\ WaitsOf(p, k)'
    BY DEF WaitInv
  <1>0. k \in Nat
    BY DEF Exec
  <1>1. FlagsOf(p, k)'
    BY FlagsKept
  <1>2. ASSUME NEW i \in Thread, SubPast(p, i, k, "labels")'
        PROVE  CorrectionsSent(main'[p]) > k /\ CorrectionsIn(loop'[p]) > k
    <2>1. CorrectionsSent(main[p]) > k /\ CorrectionsIn(loop[p]) > k
      BY <1>2, SubWaited DEF WaitInv, FlagsOf, WaitsOf
    <2> QED BY <1>0, <2>1, CountsGrow
  <1>3. ASSUME NEW i \in Thread, EvalPast(p, i, k, "check")'
        PROVE  SeedsIn(main'[p]) > k
    <2>1. SeedsIn(main[p]) > k
      BY <1>3, EvalWaited DEF WaitInv, FlagsOf, WaitsOf
    <2> QED BY <1>0, <2>1, CountsGrow
  <1> QED BY <1>1, <1>2, <1>3 DEF WaitsOf

LEMMA WaitHolds == SafetySpec => []WaitInv
  <1>1. Init => WaitInv
    BY Orders DEF Init, WaitInv, FlagsOf, WaitsOf, NewBucket, SubPast, EvalPast, Past, Exec
  <1> QED BY <1>1, WaitStays, TypeCorrect, PTL DEF SafetySpec

\* A thread past execution l has seen the seed of execution l revealed.
LEMMA AheadOfSeed ==
    ASSUME TypeOK, WireInv, WaitInv, OpenAfterChecks, NEW p \in Party, NEW l \in Exec,
           \/ main[p].ex > l \/ loop[p].ex > l
           \/ \E i \in Thread : sub[p][i].ex > l \/ eval[p][i].ex > l
    PROVE  \E q \in Party : loop[q].ex > l
  <1>0. l \in Nat /\ main[p].ex \in Nat /\ loop[p].ex \in Nat /\ Other(p) \in Party
    BY ThreadsTyped, EndsType DEF Exec
  <1>1. ASSUME SeedsIn(main[p]) > l
        PROVE  loop[Other(p)].ex > l
    <2>1. Stream(net[MainEnd(p)], SeedsIn(main[p]), loop[Other(p)].ex, Each("seed"))
      BY DEF WireInv, MainWire
    <2>2. net[MainEnd(p)] \in Seq(Msg)
      BY EndsType DEF TypeOK
    <2> QED BY <1>0, <1>1, <2>1, <2>2, LenProperties DEF Stream
  <1>2. CASE main[p].ex > l
    <2>1. SeedsIn(main[p]) > l
      BY <1>0, <1>2 DEF SeedsIn
    <2> QED BY <1>0, <1>1, <2>1
  <1>3. ASSUME NEW j \in Thread, EvalPast(p, j, l, "check")
        PROVE  \E q \in Party : loop[q].ex > l
    BY <1>0, <1>1, <1>3 DEF WaitInv, WaitsOf
  <1>4. ASSUME NEW i \in Thread, sub[p][i].ex > l
        PROVE  \E q \in Party : loop[q].ex > l
    <2>1. SubPast(p, i, l, "check")
      BY <1>4 DEF SubPast, Past
    <2> QED BY <2>1, <1>3 DEF OpenAfterChecks
  <1>5. ASSUME NEW i \in Thread, eval[p][i].ex > l
        PROVE  \E q \in Party : loop[q].ex > l
    <2>1. EvalPast(p, i, l, "check")
      BY <1>5 DEF EvalPast, Past
    <2> QED BY <2>1, <1>3
  <1> QED BY <1>2, <1>4, <1>5

\* Once a seed of execution l is revealed every thread has reached execution l.
LEMMA SeedReached ==
    ASSUME TypeOK, SeedInv, WaitInv, NEW q \in Party, NEW l \in Exec, loop[q].ex > l, NEW p \in Party
    PROVE  /\ main[p].ex >= l /\ loop[p].ex >= l
           /\ \A i \in Thread : sub[p][i].ex >= l /\ eval[p][i].ex >= l
  <1>0. /\ l \in Nat /\ main[p].ex \in Nat /\ loop[p].ex \in Nat
        /\ \A i \in Thread : sub[p][i] \in SubAtType /\ eval[p][i] \in EvalAtType
    BY ThreadsTyped DEF Exec
  <1>1. p = q \/ p = Other(q)
    BY DEF Party, Other
  <1>2. \A i \in Thread : /\ SubPast(p, i, l, "permute") \/ SubPast(p, i, l, "commit")
                          /\ EvalPast(p, i, l, "permute") \/ EvalPast(p, i, l, "commits")
    BY <1>1 DEF SeedInv, SeedSent
  <1>3. \A i \in Thread : /\ SubPast(p, i, l, "labels") /\ sub[p][i].ex >= l
                          /\ eval[p][i].ex >= l
    BY <1>0, <1>2, SubPositions, EvalPositions DEF SubPast, EvalPast
  <1>4. CorrectionsSent(main[p]) > l /\ CorrectionsIn(loop[p]) > l
    BY <1>3, ZeroThread DEF WaitInv, WaitsOf
  <1>5. main[p].ex >= l /\ loop[p].ex >= l
    BY <1>0, <1>4 DEF CorrectionsSent, CorrectionsIn
  <1> QED BY <1>3, <1>5

\* What a thread is about to receive is meant for it.
LEMMA NextInStream ==
    ASSUME TypeOK, NEW ch \in Ends, NEW from, NEW to, NEW expect, Stream(net[ch], from, to, expect),
           NEW kind, NEW k, expect[from] = <<kind, k>>
    PROVE  IsNext(ch, kind, k)
  <1>1. net[ch] \in Seq(Msg)
    BY DEF TypeOK
  <1> QED BY <1>1, StreamReceive DEF IsNext

LEMMA WiresInStep ==
    ASSUME NumThreads = BucketSize, TypeOK, WireInv
    PROVE  WireInStep
  <1> SUFFICES ASSUME NEW p \in Party
               PROVE  /\ main[p].pc = "seed" => IsNext(MainEnd(p), "seed", main[p].ex)
                      /\ loop[p].pc = "correction" => IsNext(LoopEnd(p), "correction", loop[p].ex)
                      /\ \A i \in Thread :
                          /\ sub[p][i].pc = "permute" => IsNext(SubEnd(p, i), "permute", sub[p][i].ex)
                          /\ LET e == eval[p][i] IN
                             /\ e.pc = "their" => IsNext(EvalEnd(p, i), "own", e.ex)
                             /\ e.pc = "own" => IsNext(EvalEnd(p, i), "their", e.ex)
                             /\ e.pc = "commits" => IsNext(EvalEnd(p, i), "commits", e.ex)
                             /\ e.pc = "open" => IsNext(EvalEnd(p, i), "open", e.ex)
    BY DEF WireInStep
  <1>0. /\ main[p].ex \in Nat /\ loop[p].ex \in Nat
        /\ \A i \in Thread : sub[p][i].ex \in Nat /\ eval[p][i].ex \in Nat
    BY ThreadsTyped
  <1>1. ASSUME main[p].pc = "seed" PROVE IsNext(MainEnd(p), "seed", main[p].ex)
    <2>1. SeedsIn(main[p]) = main[p].ex
      BY <1>0, <1>1 DEF SeedsIn
    <2>2. Each("seed")[main[p].ex] = <<"seed", main[p].ex>>
      BY <1>0 DEF Each
    <2> QED BY <2>1, <2>2, EndsType, NextInStream DEF WireInv, MainWire
  <1>2. ASSUME loop[p].pc = "correction" PROVE IsNext(LoopEnd(p), "correction", loop[p].ex)
    <2>1. CorrectionsIn(loop[p]) = loop[p].ex
      BY <1>0, <1>2 DEF CorrectionsIn
    <2>2. Each("correction")[loop[p].ex] = <<"correction", loop[p].ex>>
      BY <1>0 DEF Each
    <2> QED BY <2>1, <2>2, EndsType, NextInStream DEF WireInv, LoopWire
  <1>3. ASSUME NEW i \in Thread, sub[p][i].pc = "permute"
        PROVE  IsNext(SubEnd(p, i), "permute", sub[p][i].ex)
    <2>1. PermutesRead(sub[p][i]) = sub[p][i].ex
      BY <1>0, <1>3 DEF PermutesRead
    <2>2. Each("permute")[sub[p][i].ex] = <<"permute", sub[p][i].ex>>
      BY <1>0 DEF Each
    <2> QED BY <2>1, <2>2, EndsType, NextInStream DEF WireInv, SubWire
  <1>4. ASSUME NEW i \in Thread
        PROVE  LET e == eval[p][i] IN
               /\ e.pc = "their" => IsNext(EvalEnd(p, i), "own", e.ex)
               /\ e.pc = "own" => IsNext(EvalEnd(p, i), "their", e.ex)
               /\ e.pc = "commits" => IsNext(EvalEnd(p, i), "commits", e.ex)
               /\ e.pc = "open" => IsNext(EvalEnd(p, i), "open", e.ex)
    <2> DEFINE e == eval[p][i]
    <2>1. e.ex \in Nat /\ EvalEnd(p, i) \in Ends
      BY <1>0, EndsType
    <2>2. Stream(net[EvalEnd(p, i)], RowsIn(e), RowsSent(sub[Other(p)][i]), EachRow)
      BY DEF WireInv, EvalWire
    <2> HIDE DEF e
    <2>3. /\ EachRow[4 * e.ex] = <<"own", e.ex>> /\ EachRow[4 * e.ex + 1] = <<"their", e.ex>>
          /\ EachRow[4 * e.ex + 2] = <<"commits", e.ex>> /\ EachRow[4 * e.ex + 3] = <<"open", e.ex>>
      BY <2>1, RowAt
    <2>4. /\ e.pc = "their" => RowsIn(e) = 4 * e.ex
          /\ e.pc = "own" => RowsIn(e) = 4 * e.ex + 1
          /\ e.pc = "commits" => RowsIn(e) = 4 * e.ex + 2
          /\ e.pc = "open" => RowsIn(e) = 4 * e.ex + 3
      BY <2>1, RowTables DEF RowsIn
    <2>5. /\ e.pc = "their" => EachRow[RowsIn(e)] = <<"own", e.ex>>
          /\ e.pc = "own" => EachRow[RowsIn(e)] = <<"their", e.ex>>
          /\ e.pc = "commits" => EachRow[RowsIn(e)] = <<"commits", e.ex>>
          /\ e.pc = "open" => EachRow[RowsIn(e)] = <<"open", e.ex>>
      BY <2>3, <2>4
    <2> QED BY <2>1, <2>2, <2>5, NextInStream DEF e
  <1> QED BY <1>1, <1>2, <1>3, <1>4

\* With a thread per circuit every message meets the receive it was sent for,
\* and no thread of either party is ever more than one execution ahead.
THEOREM ThreadsInStep ==
    ASSUME NumThreads = BucketSize
    PROVE  SafetySpec => []InStep
  <1>1. TypeOK /\ WireInv /\ SeedInv /\ WaitInv /\ OpenAfterChecks => InStep
    <2> SUFFICES ASSUME TypeOK, WireInv, SeedInv, WaitInv, OpenAfterChecks
                 PROVE  InStep
      OBVIOUS
    <2> DEFINE Positions == {main[p].ex : p \in Party} \cup {loop[p].ex : p \in Party}
                            \cup {sub[p][i].ex : p \in Party, i \in Thread}
                            \cup {eval[p][i].ex : p \in Party, i \in Thread}
    <2>1. Positions \subseteq 0..NumExe
      BY ThreadsTyped
    <2>2. ASSUME NEW x \in Positions, NEW y \in Positions
          PROVE  x - y <= 1
      <3>1. x \in 0..NumExe /\ y \in Nat
        BY <2>1
      <3>2. CASE x = 0
        BY <3>1, <3>2
      <3>3. CASE x > 0
        <4> DEFINE l == x - 1
        <4>1. l \in Exec /\ l \in Nat
          BY <3>1, <3>3, SizeAssumption DEF Exec
        <4>2. PICK p \in Party : \/ main[p].ex > l \/ loop[p].ex > l
                                 \/ \E i \in Thread : sub[p][i].ex > l \/ eval[p][i].ex > l
          BY <3>1
        <4>3. PICK q \in Party : loop[q].ex > l
          BY <4>1, <4>2, AheadOfSeed
        <4>4. y >= l
          <5> HIDE DEF l
          <5> QED BY <4>1, <4>3, SeedReached
        <4> QED BY <3>1, <4>4
      <3> QED BY <3>1, <3>2, <3>3
    <2> QED BY <2>2, WiresInStep DEF InStep
  <1> QED BY <1>1, TypeCorrect, WiresCorrect, SeedHolds, WaitHolds, OpenedAfterChecks, PTL

-----------------------------------------------------------------------------
(* Closing.  A thread that has done its NumExe executions stays where it is,  *)
(* and the peer has nothing to send to it after them.                         *)

LEMMA DoneIsPast ==
    /\ \A t \in SubAtType, k \in Exec : Past(t, SubOrder, k, "check") <=> t.ex > k
    /\ \A t \in EvalAtType, k \in Exec : Past(t, EvalOrder, k, "open") <=> t.ex > k
  <1>1. /\ \A pc \in SubPc : ~(SubOrder[pc] > SubOrder["check"])
        /\ \A pc \in EvalPc : ~(EvalOrder[pc] > EvalOrder["open"])
    BY Orders DEF SubPc, EvalPc
  <1> QED BY <1>1 DEF Past, SubAtType, EvalAtType, At

\* Executions only grow.
LEMMA ThreadsGrow ==
    ASSUME TypeOK, [Next]_vars, NEW p \in Party, NEW k \in Exec
    PROVE  /\ loop[p].ex > k => loop'[p].ex > k
           /\ \A i \in Thread : /\ sub[p][i].ex > k => sub'[p][i].ex > k
                                /\ eval[p][i].ex > k => eval'[p][i].ex > k
  <1>1. loop[p].ex \in Nat /\ k \in Nat
    BY ThreadsTyped DEF Exec
  <1>2. loop[p].ex > k => loop'[p].ex > k
    <2>1. \/ loop'[p] = loop[p]
          \/ loop'[p] = Go(loop[p], "commits") \/ loop'[p] = Repeat(loop[p], "correction")
      BY StepMoves, LoopGoes
    <2> QED BY <1>1, <2>1 DEF Go, Repeat
  <1>3. TypeOK'
    <2>1. CASE UNCHANGED vars
      BY <2>1 DEF vars, TypeOK
    <2>2. ASSUME NEW q \in Party, Fail(q) \/ LosePeer(q)
          PROVE  TypeOK'
      BY <2>2, AbortType DEF Fail, LosePeer
    <2> QED BY <2>1, <2>2, MainStepType, LoopStepType, SubStepType, EvalStepType DEF Next
  <1>4. ASSUME NEW i \in Thread
        PROVE  /\ sub[p][i] \in SubAtType /\ sub'[p][i] \in SubAtType
               /\ eval[p][i] \in EvalAtType /\ eval'[p][i] \in EvalAtType
    BY <1>3 DEF TypeOK
  <1>5. ASSUME NEW i \in Thread
        PROVE  sub[p][i].ex > k => sub'[p][i].ex > k
    BY <1>4, DoneIsPast, PastStays DEF SubPast, SubPc
  <1>6. ASSUME NEW i \in Thread
        PROVE  eval[p][i].ex > k => eval'[p][i].ex > k
    BY <1>4, DoneIsPast, PastStays DEF EvalPast, EvalPc
  <1> QED BY <1>2, <1>5, <1>6

Finished(p) ==
    /\ main[p].ex > NumExe - 1 /\ loop[p].ex > NumExe - 1
    /\ \A i \in Thread : sub[p][i].ex > NumExe - 1 /\ eval[p][i].ex > NumExe - 1

ClosedInv == \A p \in Party : main[p].pc = "closed" => Finished(p)

LEMMA ClosedStays ==
    ASSUME TypeOK, ClosedInv, [Next]_vars
    PROVE  ClosedInv'
  <1> SUFFICES ASSUME NEW p \in Party, main'[p].pc = "closed"
               PROVE  Finished(p)'
    BY DEF ClosedInv
  <1>1. NumExe - 1 \in Exec /\ NumExe \in Nat
    BY SizeAssumption DEF Exec
  <1>2. Finished(p) /\ main'[p].ex = main[p].ex
    <2>1. CASE main'[p] = main[p]
      BY <2>1 DEF ClosedInv
    <2>2. CASE main'[p] # main[p]
      <3>1. MainStep(p) /\ ~Abort(p)
        BY <2>2, StepMoves, MainGoes
      <3>2. main[p].pc = "idle" /\ main'[p] = Go(main[p], "closed")
        <4>1. \A t, pc : Go(t, pc).pc = pc /\ Repeat(t, pc).pc = pc
          BY DEF Go, Repeat
        <4> QED BY <3>1, <4>1, MainGoes
      <3>3. CASE MainClose(p)
        BY <1>1, <3>2, <3>3 DEF MainClose, ThreadsDone, Finished, Go
      <3>4. CASE MainCall(p)
        <4>1. main' = [main EXCEPT ![p] = Go(main[p], "labels")]
          BY <3>4 DEF MainCall, Calling
        <4>2. main'[p] = Go(main[p], "labels")
          BY <4>1, Moved
        <4> QED BY <4>2 DEF Go
      <3> QED BY <3>1, <3>2, <3>3, <3>4
            DEF MainStep, MainCheckLabels, MainReceiveSeed, MainReturn, MainAt
    <2> QED BY <2>1, <2>2
  <1> QED BY <1>1, <1>2, ThreadsGrow DEF Finished

LEMMA EmptyStream ==
    ASSUME NEW s \in Seq(Msg), NEW to, NEW from, NEW expect, Stream(s, from, to, expect), from >= to
    PROVE  s = <<>>
  <1>1. Len(s) \in Nat /\ Len(s) = to - from /\ from \in Nat /\ to \in Nat
    BY LenProperties DEF Stream
  <1>2. Len(s) = 0
    BY <1>1
  <1> QED BY <1>2, EmptySeq

\* When close has joined its threads a party has read all that was sent to it.
THEOREM ClosesClean == SafetySpec => []CleanClose
  <1>1. Init => ClosedInv
    BY DEF Init, ClosedInv
  <1>2. TypeOK /\ WireInv /\ SeedInv /\ ClosedInv => CleanClose
    <2> SUFFICES ASSUME TypeOK, WireInv, SeedInv, ClosedInv, NEW p \in Party, main[p].pc = "closed",
                        NEW ch \in Ends, ch[2] = p
                 PROVE  net[ch] = <<>>
      BY DEF CleanClose
    <2> DEFINE q == Other(p)
    <2>1. /\ q \in Party /\ NumExe \in Nat \ {0} /\ NumExe - 1 \in Exec
      BY EndsType, SizeAssumption DEF Exec
    <2>2. Finished(p)
      BY DEF ClosedInv
    <2>3. NumThreads = BucketSize
      BY <2>1, <2>2 DEF SeedInv, SeedSent, Finished
    <2>5. net[ch] \in Seq(Msg)
      BY DEF TypeOK
    <2>6. CASE ch = MainEnd(p)
      <3>1. main[p].ex \in 0..NumExe /\ loop[q].ex \in 0..NumExe
        BY <2>1, ThreadsTyped
      <3>2. SeedsIn(main[p]) >= loop[q].ex
        BY <2>1, <2>2, <3>1 DEF SeedsIn, Finished
      <3> QED BY <2>5, <2>6, <3>2, EmptyStream DEF WireInv, MainWire
    <2>7. CASE ch = LoopEnd(p)
      <3>1. CorrectionsIn(loop[p]) >= CorrectionsSent(main[q])
        <4>1. main[q] \in MainAtType /\ main[q].ex \in 0..NumExe
          BY <2>1, ThreadsTyped
        <4>2. CorrectionsSent(main[q]) <= NumExe /\ CorrectionsSent(main[q]) \in Nat
          BY <2>1, <4>1 DEF CorrectionsSent, MainAtType, At
        <4>3. CorrectionsIn(loop[p]) >= NumExe /\ CorrectionsIn(loop[p]) \in Nat
          BY <2>1, <2>2, ThreadsTyped DEF CorrectionsIn, Finished
        <4> QED BY <2>1, <4>2, <4>3
      <3> QED BY <2>5, <2>7, <3>1, EmptyStream DEF WireInv, LoopWire
    <2>8. ASSUME NEW i \in Thread, ch = SubEnd(p, i)
          PROVE  net[ch] = <<>>
      <3>1. PermutesRead(sub[p][i]) >= PermutesSent(eval[q][i])
        <4>1. eval[q][i] \in EvalAtType /\ eval[q][i].ex \in 0..NumExe
          BY <2>1, ThreadsTyped
        <4>2. PermutesSent(eval[q][i]) <= NumExe /\ PermutesSent(eval[q][i]) \in Nat
          BY <2>1, <4>1 DEF PermutesSent, EvalAtType, At
        <4>3. PermutesRead(sub[p][i]) >= NumExe /\ PermutesRead(sub[p][i]) \in Nat
          BY <2>1, <2>2, ThreadsTyped DEF PermutesRead, Finished
        <4> QED BY <2>1, <4>2, <4>3
      <3> QED BY <2>5, <2>8, <3>1, EmptyStream DEF WireInv, SubWire
    <2>9. ASSUME NEW i \in Thread, ch = EvalEnd(p, i)
          PROVE  net[ch] = <<>>
      <3>1. RowsIn(eval[p][i]) >= RowsSent(sub[q][i])
        <4>1. sub[q][i].ex \in 0..NumExe /\ sub[q][i].pc \in SubPc
              /\ (sub[q][i].pc = "labels" \/ sub[q][i].ex < NumExe)
          BY <2>1, ThreadsTyped DEF SubAtType, At
        <4>2. RowsSent(sub[q][i]) <= 4 * NumExe /\ RowsSent(sub[q][i]) \in Nat
          BY <2>1, <4>1, RowTables DEF RowsSent, SubPc
        <4>3. RowsIn(eval[p][i]) >= 4 * NumExe /\ RowsIn(eval[p][i]) \in Nat
          <5>1. eval[p][i].ex \in Nat /\ eval[p][i].pc \in EvalPc
            BY ThreadsTyped DEF EvalAtType, At
          <5>2. RowsOfEval[eval[p][i].pc] \in Nat
            BY <5>1, RowTables DEF EvalPc
          <5> QED BY <2>1, <2>2, <5>1, <5>2 DEF RowsIn, Finished
        <4> QED BY <2>1, <4>2, <4>3
      <3> QED BY <2>3, <2>5, <2>9, <3>1, EmptyStream DEF WireInv, EvalWire
    <2> QED BY <2>6, <2>7, <2>8, <2>9 DEF Ends, MainEnd, LoopEnd, SubEnd, EvalEnd
  <1> QED BY <1>1, <1>2, ClosedStays, TypeCorrect, WiresCorrect, SeedHolds, PTL DEF SafetySpec

=============================================================================
