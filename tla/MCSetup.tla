------------------------------- MODULE MCSetup -------------------------------
(*****************************************************************************)
(* The offline phase and its channels on small instances: the selection of   *)
(* the opened circuits, init of both parties, and the endpoints that         *)
(* connect them. Each behaviour is of one of the systems, which do not       *)
(* share state: system says of which. The variables of the others stay as    *)
(* they are.                                                                 *)
(*****************************************************************************)
EXTENDS CutAndChoose, Sequences, FiniteSets

Party == {0, 1}
EqualEncodings == [r \in Party |-> 2]
AnySelection == Selections(1, 3)
\* One selection.
OneSelection == {CHOOSE s \in Selections(1, 4) : TRUE}

\* One channel, or two that mirror each other's names, as OTRecv and OTSend.
HostChannel   == << <<"x", "y">> >>
ClientChannel == << <<"y", "x">> >>
OneChannel  == [s \in {"host", "client"} |-> IF s = "host" THEN <<HostChannel>> ELSE <<ClientChannel>>]
TwoChannels == [s \in {"host", "client"} |-> <<HostChannel, ClientChannel>>]
ToHost      == {ClientChannel[1]}
\* The host calls stop at any time, the client when its threads are joined.
HostStops == [s \in {"host", "client"} |-> IF s = "host" THEN "any" ELSE "joined"]
Stops(when) == [s \in {"host", "client"} |-> when]

VARIABLE system   \* the system this behaviour is of; it never changes

\* DualExInit
VARIABLES initMain, seed, theirs, pipe, send, recv, mine, their, bucket, net, aborted
initVars == <<initMain, seed, theirs, pipe, send, recv, mine, their, bucket, net, aborted>>
\* Endpoint
VARIABLES thread, channels, socket, stopped, done, epMain, look, conn, handler, entries, promise,
          acceptor, crashed
epVars == <<thread, channels, socket, stopped, done, epMain, look, conn, handler, entries, promise,
             acceptor, crashed>>

\* One pipe in each direction, all selections of the opened circuit.
One == INSTANCE DualExInit WITH
    NumExe <- 1, BucketSize <- 2, NumOpened <- 1, ParallelInit <- 1,
    Params <- [r \in Party |-> 1], Encoding <- EqualEncodings, NonXorGates <- 2, PsiOTs <- 1,
    OTBatch <- 4, Kernel <- 1, Seeds <- AnySelection, main <- initMain
\* Two pipes and three buckets: the first thread fills the first and the third.
Two == INSTANCE DualExInit WITH
    NumExe <- 3, BucketSize <- 1, NumOpened <- 1, ParallelInit <- 2,
    Params <- [r \in Party |-> 1], Encoding <- EqualEncodings, NonXorGates <- 2, PsiOTs <- 1,
    OTBatch <- 100, Kernel <- 0, Seeds <- OneSelection, main <- initMain
\* Parties started with different parameters.
Unequal == INSTANCE DualExInit WITH
    NumExe <- 1, BucketSize <- 2, NumOpened <- 1, ParallelInit <- 1,
    Params <- [r \in Party |-> r], Encoding <- EqualEncodings, NonXorGates <- 2, PsiOTs <- 1,
    OTBatch <- 1, Kernel <- 1, Seeds <- AnySelection, main <- initMain
\* Two channels with mirrored names, stop called at any time by the host.
Mirrored == INSTANCE Endpoint WITH
    Opens <- TwoChannels, Closes <- TwoChannels, StopWhen <- HostStops, Patience <- FALSE,
    MayDie <- {}, MayShorten <- {}, main <- epMain
\* One channel, stop called at any time, a client that dies, names in pieces.
Faulty == INSTANCE Endpoint WITH
    Opens <- OneChannel, Closes <- OneChannel, StopWhen <- Stops("any"), Patience <- FALSE,
    MayDie <- ToHost, MayShorten <- ToHost, main <- epMain
\* Two channels, stop called when the threads that used them are joined.
Joined == INSTANCE Endpoint WITH
    Opens <- TwoChannels, Closes <- TwoChannels, StopWhen <- Stops("joined"), Patience <- TRUE,
    MayDie <- {}, MayShorten <- {}, main <- epMain
\* The channels of the online phase, more than TLC can run through: it is shown that their
\* constants are among those the theorems about Endpoint hold for.
Online == INSTANCE Endpoint WITH
    Opens <- Joined!OnlineOpens, Closes <- Joined!OnlineCloses, StopWhen <- Stops("joined"),
    Patience <- TRUE, MayDie <- {}, MayShorten <- {}, main <- epMain

ASSUME OneParameters == One!InitSizes
ASSUME TwoParameters == Two!InitSizes
ASSUME UnequalParameters == Unequal!InitSizes
ASSUME MirroredParameters == Mirrored!EndpointAssumption
ASSUME FaultyParameters == Faulty!EndpointAssumption
ASSUME JoinedParameters == Joined!EndpointAssumption
ASSUME OnlineParameters == Online!EndpointAssumption

Systems == {"cut", "one", "two", "unequal", "mirrored", "faulty", "joined"}
SetupVars == <<system, vars, initVars, epVars>>

\* The variables of the systems this behaviour is not of.
Off == <<>>
initOff == initMain = Off /\ seed = Off /\ theirs = Off /\ pipe = Off /\ send = Off /\ recv = Off /\
           mine = Off /\ their = Off /\ bucket = Off /\ net = Off /\ aborted = Off
epOff == thread = Off /\ channels = Off /\ socket = Off /\ stopped = Off /\ done = Off /\
         epMain = Off /\ look = Off /\ conn = Off /\ handler = Off /\ entries = Off /\
         promise = Off /\ acceptor = Off /\ crashed = Off

SetupInit ==
    /\ system \in Systems
    /\ Init
    /\ CASE system = "one" -> One!Init
         [] system = "two" -> Two!Init
         [] system = "unequal" -> Unequal!Init
         [] OTHER -> initOff
    /\ CASE system = "mirrored" -> Mirrored!Init
         [] system = "faulty" -> Faulty!Init
         [] system = "joined" -> Joined!Init
         [] OTHER -> epOff
SetupNext ==
    /\ UNCHANGED system
    /\ IF system = "cut" THEN Iterate ELSE UNCHANGED vars
    /\ CASE system = "one" -> One!Next
         [] system = "two" -> Two!Next
         [] system = "unequal" -> Unequal!Next
         [] OTHER -> UNCHANGED initVars
    /\ CASE system = "mirrored" -> Mirrored!Next
         [] system = "faulty" -> Faulty!Next
         [] system = "joined" -> Joined!Next
         [] OTHER -> UNCHANGED epVars
SetupSpec == SetupInit /\ [][SetupNext]_SetupVars

\* Two bounds on schedules of two pipes: the OT extensions finish before a circuit is
\* garbled, and the send threads of a party are at most two program counters apart.
At == [unborn |-> 0, garble |-> 1, garbled |-> 2, initOT |-> 3, committed |-> 4,
       open |-> 5, opened |-> 6, proof |-> 7, bucket |-> 8, translate |-> 9,
       bucketed |-> 10, kprobe |-> 11, done |-> 12]
SetupBound == system = "two" =>
    /\ (\E p \in Party, t \in Two!Thread : send[p][t].pc # "unborn") =>
            \A p \in Party, t \in Two!Thread : pipe[p][t].ended
    /\ \A p \in Party : At[send[p][0].pc] - At[send[p][1].pc] \in -2..2
-----------------------------------------------------------------------------

\* Of init, with messages that wait in the kernel and with two pipes: the cut-and-choose seed
\* leaves only when all circuits are in, OTs are complete and used once, nothing throws, and
\* buckets are the same at both ends; with different parameters nobody gets online.
InitSafe ==
    /\ system = "one" => One!RevealedLate /\ One!OTsUsedOnce
    /\ system = "two" => Two!NeverAborts /\ Two!BucketsReady
    /\ system = "unequal" => Unequal!MismatchStops

\* Sockets are paired by the names of their channels.
Paired == system = "mirrored" => Mirrored!Paired

\* The promise that stop waits for is set once, when the last channel is closed.
DoneWhenLast == system = "faulty" => Faulty!DoneWhenLast

\* stop returns only when all channels are closed.
StopBlocks == system = "faulty" => Faulty!StopBlocks

\* No thread uses an object that is gone or not there yet.
NeverCrash == system = "joined" => Joined!NeverCrash

\* The acceptor outlives the handlers that look into it.
HandlersEnd == system = "joined" => Joined!HandlersEnd

\* Endpoints connect the right channels, and neither close, stop nor a lost client
\* leaves a promise unset, set twice or an object used after its end.
EndpointsSafe ==
    /\ system = "mirrored" => Mirrored!TypeOK
    /\ Paired
    /\ DoneWhenLast
    /\ StopBlocks
    /\ NeverCrash
    /\ HandlersEnd

\* What the online phase starts from is in place: endpoints and buckets.
SetupSafe == InitSafe /\ EndpointsSafe

=============================================================================
