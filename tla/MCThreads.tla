------------------------------ MODULE MCThreads ------------------------------
(*****************************************************************************)
(* The threads of the set intersections and those beside the protocol, on    *)
(* small instances, under the fairness each of them states: they end. Each   *)
(* behaviour is of one of the systems, which do not share state: system      *)
(* says of which. The variables of the others stay as they are.              *)
(*****************************************************************************)
EXTENDS Integers, Sequences, FiniteSets, TLC

VARIABLE system   \* the system this behaviour is of; it never changes

\* AsyncPsi
VARIABLES input, choice, permuted, apsiPc, rem, apsiMMyPermute, apsiMTheirPermute,
          mRemainingInputCommits, mCommited, mOpenBuff, apsiChl, apsi_j, ret
apsiVars == <<input, choice, permuted, apsiPc, rem, apsiMMyPermute, apsiMTheirPermute,
               mRemainingInputCommits, mCommited, mOpenBuff, apsiChl, apsi_j, ret>>
\* PsiWords
VARIABLES received, sent, mChoiceBits, rpc, spc, wordsMMyPermute, wordsMTheirPermute, mPseVals,
          mCommits, mMyPSIValues, wordsChl, rRemaining, sRemaining, psiRemaining, found
wordsVars == <<received, sent, mChoiceBits, rpc, spc, wordsMMyPermute, wordsMTheirPermute,
                mPseVals, mCommits, mMyPSIValues, wordsChl, rRemaining, sRemaining, psiRemaining,
                found>>
\* KProbeFile
VARIABLES file, mtx, kpfPc, call, pos, mMtx, crashes
kpfVars == <<file, mtx, kpfPc, call, pos, mMtx, crashes>>
\* Driver
VARIABLES opt, tests, main, drvPc, drv_i, begun, met, points, at
drvVars == <<opt, tests, main, drvPc, drv_i, begun, met, points, at>>
\* PingTest
VARIABLES pingPc, queue, wire, buff
pingVars == <<pingPc, queue, wire, buff>>
\* MpscQueue
VARIABLES _head, _tail, next, data, live, queuePc, node, prev_head, done, cpc, ctail, cnext, order,
          got, answered
queueVars == <<_head, _tail, next, data, live, queuePc, node, prev_head, done, cpc, ctail, cnext,
                order, got, answered>>
\* SquareRoot
VARIABLES root_a, root_p, root_b, root_x, root_y, root_r, temp, root_m, rootPc, ans
rootVars == <<root_a, root_p, root_b, root_x, root_y, root_r, temp, root_m, rootPc, ans>>

\* Two elements of one bit with fixed masks, one of two bits with all masks.
Psi == INSTANCE AsyncPsi WITH
    Size <- 2, WordSize <- 1, Masks <- {<<1>>}, pc <- apsiPc, mMyPermute <- apsiMMyPermute,
    mTheirPermute <- apsiMTheirPermute, chl <- apsiChl, j <- apsi_j
Masked == INSTANCE AsyncPsi WITH
    Size <- 1, WordSize <- 2, Masks <- [1..2 -> {0, 1}], pc <- apsiPc,
    mMyPermute <- apsiMMyPermute, mTheirPermute <- apsiMTheirPermute, chl <- apsiChl,
    j <- apsi_j
Words == INSTANCE PsiWords WITH
    inputSize <- 2, wordSize <- 2, Start <- 1, mMyPermute <- wordsMMyPermute,
    mTheirPermute <- wordsMTheirPermute, chl <- wordsChl
\* Three threads of one process; two processes, one of which may be killed.
Matrix == INSTANCE KProbeFile WITH
    Threads <- {"first", "second", "third"}, Processes <- {"p0"},
    ProcessOf <- [th \in {"first", "second", "third"} |-> "p0"],
    Role <- [th \in {"first", "second", "third"} |-> IF th = "first" THEN 0 ELSE 1], Rows <- 2,
    RowBytes <- 2, MaxCrashes <- 0, pc <- kpfPc
Killed == INSTANCE KProbeFile WITH
    Threads <- {"first", "second"}, Processes <- {"p0", "p1"},
    ProcessOf <- [th \in {"first", "second"} |-> IF th = "first" THEN "p0" ELSE "p1"],
    Role <- [th \in {"first", "second"} |-> IF th = "first" THEN 0 ELSE 1], Rows <- 2,
    RowBytes <- 2, MaxCrashes <- 1, pc <- kpfPc
\* Both parties in one process, two threads each; each in a process, one thread.
Eval == INSTANCE Driver WITH
    N <- 5, E <- 2, OneProcess <- TRUE, BucketSize <- 2, Tests <- 2,
    Options <- {[u |-> u, i |-> FALSE, c |-> -1, file |-> f] : u, f \in BOOLEAN}, pc <- drvPc,
    i <- drv_i
Parties == INSTANCE Driver WITH
    N <- 2, E <- 1, OneProcess <- FALSE, BucketSize <- 2, Tests <- 2,
    Options <- [u : {FALSE}, i : BOOLEAN, c : {-1, 3}, file : {TRUE}]
                   \cup [u : BOOLEAN, i : {FALSE}, c : {-1}, file : {FALSE}],
    pc <- drvPc, i <- drv_i
Ping == INSTANCE PingTest WITH
    Count <- 14, Kernel <- 1, pc <- pingPc
Queue == INSTANCE MpscQueue WITH
    Producer <- {"p1", "p2"}, Each <- 3, pc <- queuePc
Root == INSTANCE SquareRoot WITH
    Primes <- {2, 3, 5, 7, 13, 17, 41, 97, 113}, a <- root_a, p <- root_p, b <- root_b,
    x <- root_x, y <- root_y, r <- root_r, m <- root_m, pc <- rootPc

ASSUME PsiParameters == Psi!AsyncPsiAssumption
ASSUME MaskedParameters == Masked!AsyncPsiAssumption
ASSUME WordsParameters == Words!PsiWordsAssumption
ASSUME MatrixParameters == Matrix!KProbeFileAssumption
ASSUME KilledParameters == Killed!KProbeFileAssumption
ASSUME EvalParameters == Eval!DriverAssumption
ASSUME PartiesParameters == Parties!DriverAssumption
ASSUME PingParameters == Ping!PingTestAssumption
ASSUME QueueParameters == Queue!MpscQueueAssumption
ASSUME RootParameters == Root!SquareRootAssumption

Systems == {"psi", "masked", "words", "matrix", "killed", "eval", "parties", "ping", "queue", "root"}
vars == <<system, apsiVars, wordsVars, kpfVars, drvVars, pingVars, queueVars, rootVars>>

\* The variables of the systems this behaviour is not of.
Off == <<>>
apsiOff == input = Off /\ choice = Off /\ permuted = Off /\ apsiPc = Off /\ rem = Off /\
           apsiMMyPermute = Off /\ apsiMTheirPermute = Off /\ mRemainingInputCommits = Off /\
           mCommited = Off /\ mOpenBuff = Off /\ apsiChl = Off /\ apsi_j = Off /\ ret = Off
wordsOff == received = Off /\ sent = Off /\ mChoiceBits = Off /\ rpc = Off /\ spc = Off /\
            wordsMMyPermute = Off /\ wordsMTheirPermute = Off /\ mPseVals = Off /\ mCommits = Off /\
            mMyPSIValues = Off /\ wordsChl = Off /\ rRemaining = Off /\ sRemaining = Off /\
            psiRemaining = Off /\ found = Off
kpfOff == file = Off /\ mtx = Off /\ kpfPc = Off /\ call = Off /\ pos = Off /\ mMtx = Off /\
          crashes = Off
drvOff == opt = Off /\ tests = Off /\ main = Off /\ drvPc = Off /\ drv_i = Off /\ begun = Off /\ met = Off /\ points = Off /\
          at = Off
pingOff == pingPc = Off /\ queue = Off /\ wire = Off /\ buff = Off
queueOff == _head = Off /\ _tail = Off /\ next = Off /\ data = Off /\ live = Off /\ queuePc = Off /\
            node = Off /\ prev_head = Off /\ done = Off /\ cpc = Off /\ ctail = Off /\
            cnext = Off /\ order = Off /\ got = Off /\ answered = Off
rootOff == root_a = Off /\ root_p = Off /\ root_b = Off /\ root_x = Off /\ root_y = Off /\
           root_r = Off /\ temp = Off /\ root_m = Off /\ rootPc = Off /\ ans = Off

Init ==
    /\ system \in Systems
    /\ CASE system = "psi" -> Psi!Init
         [] system = "masked" -> Masked!Init
         [] OTHER -> apsiOff
    /\ IF system = "words" THEN Words!Init ELSE wordsOff
    /\ CASE system = "matrix" -> Matrix!Init
         [] system = "killed" -> Killed!Init
         [] OTHER -> kpfOff
    /\ CASE system = "eval" -> Eval!Init
         [] system = "parties" -> Parties!Init
         [] OTHER -> drvOff
    /\ IF system = "ping" THEN Ping!Init ELSE pingOff
    /\ IF system = "queue" THEN Queue!Init ELSE queueOff
    /\ IF system = "root" THEN Root!Init ELSE rootOff
Next ==
    /\ UNCHANGED system
    /\ CASE system = "psi" -> Psi!Next
         [] system = "masked" -> Masked!Next
         [] OTHER -> UNCHANGED apsiVars
    /\ IF system = "words" THEN Words!Next ELSE UNCHANGED wordsVars
    /\ CASE system = "matrix" -> Matrix!Next
         [] system = "killed" -> Killed!Next
         [] OTHER -> UNCHANGED kpfVars
    /\ CASE system = "eval" -> Eval!Next
         [] system = "parties" -> Parties!Next
         [] OTHER -> UNCHANGED drvVars
    /\ IF system = "ping" THEN Ping!Next ELSE UNCHANGED pingVars
    /\ IF system = "queue" THEN Queue!Next ELSE UNCHANGED queueVars
    /\ IF system = "root" THEN Root!Next ELSE UNCHANGED rootVars

\* The fairness each system states: what can go on goes on.
Fairness ==
    /\ \A p \in Psi!Party, i \in {1, 2} : WF_apsiVars(system = "psi" /\ Psi!Step(p, i))
    /\ \A i \in Words!Idx : WF_wordsVars(system = "words" /\ Words!Receiver(i))
    /\ \A i \in Words!Idx : WF_wordsVars(system = "words" /\ Words!Sender(i))
    /\ \A th \in {"first", "second", "third"} : WF_kpfVars(system = "matrix" /\ Matrix!Step(th))
    /\ \A th \in {"first", "second"} : WF_kpfVars(system = "killed" /\ Killed!Step(th))
    /\ \A role \in Eval!Role : WF_drvVars(system = "eval" /\ Eval!Starting(role))
    /\ \A role \in Eval!Role : WF_drvVars(system = "eval" /\ Eval!Spawn(role))
    /\ \A role \in Eval!Role : WF_drvVars(system = "eval" /\ Eval!Mark(role))
    /\ \A role \in Eval!Role : WF_drvVars(system = "eval" /\ Eval!Marked(role))
    /\ \A role \in Eval!Role : WF_drvVars(system = "eval" /\ Eval!Join(role))
    /\ \A role \in Eval!Role : WF_drvVars(system = "eval" /\ Eval!Close(role))
    /\ \A role \in Eval!Role : \A t \in Eval!Threads : WF_drvVars(system = "eval" /\ (Eval!Begin(role, t) \/ Eval!Stamp(role, t) \/ Eval!Stamped(role, t) \/ Eval!Return(role, t) \/ Eval!Leave(role, t)))
    /\ \A role \in Parties!Role : WF_drvVars(system = "parties" /\ Parties!Starting(role))
    /\ \A role \in Parties!Role : WF_drvVars(system = "parties" /\ Parties!Spawn(role))
    /\ \A role \in Parties!Role : WF_drvVars(system = "parties" /\ Parties!Mark(role))
    /\ \A role \in Parties!Role : WF_drvVars(system = "parties" /\ Parties!Marked(role))
    /\ \A role \in Parties!Role : WF_drvVars(system = "parties" /\ Parties!Join(role))
    /\ \A role \in Parties!Role : WF_drvVars(system = "parties" /\ Parties!Close(role))
    /\ \A role \in Parties!Role : \A t \in Parties!Threads : WF_drvVars(system = "parties" /\ (Parties!Begin(role, t) \/ Parties!Stamp(role, t) \/ Parties!Stamped(role, t) \/ Parties!Return(role, t) \/ Parties!Leave(role, t)))
    /\ \A role \in Ping!Role : WF_pingVars(system = "ping" /\ Ping!asyncSend(role))
    /\ \A role \in Ping!Role : WF_pingVars(system = "ping" /\ Ping!recv(role))
    /\ \A role \in Ping!Role : WF_pingVars(system = "ping" /\ Ping!checkSize(role))
    /\ \A role \in Ping!Role : WF_pingVars(system = "ping" /\ Ping!Written(role))
    /\ \A role \in Ping!Role : WF_pingVars(system = "ping" /\ Ping!close(role))
    /\ \A p \in {"p1", "p2"} : WF_queueVars(system = "queue" /\ Queue!Producing(p))
    /\ WF_queueVars(system = "queue" /\ (Queue!Look \/ Queue!Take \/ Queue!Again \/ Queue!Destroyed))
    /\ WF_rootVars(system = "root" /\ Root!Next)
Spec == Init /\ [][Next]_vars /\ Fairness
-----------------------------------------------------------------------------

\* The types of the threads that intersect and of those that build the matrix.
TypeOK ==
    /\ system = "psi" => Psi!TypeOK
    /\ system = "matrix" => Matrix!TypeOK

\* The receiver finds the common elements and no others.
FindsExactly ==
    /\ system = "psi" => Psi!FindsExactly
    /\ system = "masked" => Masked!FindsExactly

\* Nothing is opened before all elements of both parties are committed to.
CommittedFirst == system = "psi" => Psi!CommittedFirst

\* The promise of the commitments is set by one thread.
SetOnce == system = "psi" => Psi!SetOnce

\* The receiver finds its elements that the sender has.
FindsCommonElements == system = "words" => Words!FindsCommonElements

\* The receiver has no opening of an element that it does not have.
OnlyCommonElementsKnown == system = "words" => Words!OnlyCommonElementsKnown

\* A thread loads the matrix that was built for its seed.
LoadedIsBuilt == system = "matrix" => Matrix!LoadedIsBuilt

\* No size is read from a file that does not hold it.
NeverUndefined == system = "matrix" => Matrix!NeverUndefined

\* A byte that is loaded is that of the matrix, or zero.
ByteOrZero == system = "killed" => Killed!ByteOrZero

\* A slot is used by one execution at a time, in order.
SlotRule == system = "eval" => Eval!SlotRule

\* The two parties meet in the same execution of a slot.
SameExecution == system = "eval" => Eval!SameExecution

\* Every execution happens once.
EveryExecution ==
    /\ system = "eval" => Eval!EveryExecution
    /\ system = "parties" => Parties!EveryExecution

\* A party works only if the other can do the whole work with it.
OnlyTogether ==
    /\ system = "eval" => Eval!OnlyTogether
    /\ system = "parties" => Parties!OnlyTogether

\* No time point is lost.
PointsKept == system = "eval" => Eval!PointsKept

\* The last time point is after the executions.
FinishedLast == system = "eval" => Eval!FinishedLast

\* A message of the ping test has the size the receive expects.
SizesRight == system = "ping" => Ping!SizesRight

\* The array on the stack outlives its asynchronous send.
ArrayOutlives == system = "ping" => Ping!ArrayOutlives

\* Nobody follows a pointer to a deleted node of the queue.
NoDeletedNode == system = "queue" => Queue!NoDeletedNode

\* Messages are dequeued in the order of the exchanges.
InExchangeOrder == system = "queue" => Queue!InExchangeOrder

\* The destructor leaves no message and no node.
NothingLeft == system = "queue" => Queue!NothingLeft

\* The invariant of the loop of sqrRootMod.
ShanksInvariant == system = "root" => Root!ShanksInvariant

\* What sqrRootMod returns is a root.
ReturnsRoot == system = "root" => Root!ReturnsRoot

\* powerMod gives powers, and the points of the common string do not depend on the roots.
PowersRight == system = "root" => Root!PowersRight
SamePoints  == system = "root" => Root!SamePoints

\* The small functions on numbers round, and convert, as they should.
RoundedRight == system = "root" => Root!RoundedRight
BytesBack    == system = "root" => Root!BytesBack

\* All end: the threads of both intersections, of the matrix and of the front end
\* return, every message of the queue arrives, the root is found.
AllEnd ==
    <>(/\ system = "psi" => Psi!Done
       /\ system = "words" => Words!Answered
       /\ system = "matrix" => Matrix!AllLoaded
       /\ system = "killed" => Killed!Over
       /\ system = "eval" => Eval!Ended
       /\ system = "parties" => Parties!Ended
       /\ system = "ping" => Ping!AllReturned
       /\ system = "queue" => Queue!Arrived
       /\ system = "root" => Root!Ended)
-----------------------------------------------------------------------------

\* Both intersections find the common elements and no others, and open nothing early.
IntersectionsRight ==
    /\ FindsExactly
    /\ CommittedFirst
    /\ SetOnce
    /\ FindsCommonElements
    /\ OnlyCommonElementsKnown

\* Matrix, executions, time points, messages and nodes: each is built, run, kept or
\* deleted once, by whichever thread comes to it.
ThreadsRight ==
    /\ TypeOK
    /\ LoadedIsBuilt
    /\ NeverUndefined
    /\ ByteOrZero
    /\ SlotRule
    /\ SameExecution
    /\ EveryExecution
    /\ OnlyTogether
    /\ PointsKept
    /\ FinishedLast
    /\ SizesRight
    /\ ArrayOutlives
    /\ NoDeletedNode
    /\ InExchangeOrder
    /\ NothingLeft
    /\ ShanksInvariant
    /\ ReturnsRoot
    /\ PowersRight
    /\ SamePoints
    /\ RoundedRight
    /\ BytesBack

=============================================================================
