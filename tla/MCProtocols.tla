----------------------------- MODULE MCProtocols -----------------------------
(*****************************************************************************)
(* The protocols two parties run, on small instances, under the fairness     *)
(* each of them states: they end. Each behaviour is of one of the systems,   *)
(* which do not share state: system says of which. The variables of the      *)
(* others stay as they are.                                                  *)
(*****************************************************************************)
EXTENDS DualExInit, TLC

\* Sizes of init: all selections of the opened circuit, equal parameters.
AnySelection   == Selections(NumOpened, NumCircuits)
EqualParams    == [r \in Party |-> 1]
EqualEncodings == [r \in Party |-> 2]

\* One stream of the generators of the OT extension, and its coefficients.
Bits(n)   == {i \in {0, 1} : (n \div 2^i) % 2 = 1}
OneStream == {[i \in {0, 1} |-> [b \in {0, 1} |-> [n \in 0..1 |-> Bits((i + 1) * (b + 5) * (n + 2) + 5)]]]}
SomeChi   == [k \in {{}} |-> [n \in 0..3 |-> Bits((n + 1) * 3)]]

OneChannel == [s \in {"host", "client"} |-> << << IF s = "host" THEN <<"x", "y">> ELSE <<"y", "x">> >> >>]

VARIABLE system   \* the system this behaviour is of; it never changes

\* Endpoint
VARIABLES thread, channels, socket, stopped, done, epMain, look, conn, handler, entries, promise,
          acceptor, crashed
epVars == <<thread, channels, socket, stopped, done, epMain, look, conn, handler, entries, promise,
             acceptor, crashed>>
\* OTExtension
VARIABLES gen, delta, ot_r, ot_s, toR, toS
otVars == <<gen, delta, ot_r, ot_s, toR, toS>>
\* BaseOT
VARIABLES basePc, precision2, chan, strm, sk, choice, inputs, outputs, idx, run, misused
baseVars == <<basePc, precision2, chan, strm, sk, choice, inputs, outputs, idx, run, misused>>
\* SeedCommit
VARIABLES mySeed, myOpen, theirComm, chl, tossPc, tossSeed
tossVars == <<mySeed, myOpen, theirComm, chl, tossPc, tossSeed>>

\* One channel between two endpoints.
Endpoints == INSTANCE Endpoint WITH
    Opens <- OneChannel, Closes <- OneChannel,
    StopWhen <- [s \in {"host", "client"} |-> "added"], Patience <- TRUE, MayDie <- {},
    MayShorten <- {}, main <- epMain
Extension == INSTANCE OTExtension WITH
    K <- 2, OTCount <- 2, SeedBits <- 0, Gens <- OneStream, Chi <- SomeChi, r <- ot_r, s <- ot_s
\* Both parties send and receive.
Both == INSTANCE BaseOT WITH
    Q <- 3, crsG <- (0 :> 1) @@ (1 :> 1), crsH <- (0 :> 1) @@ (1 :> 2), nOT <- 1,
    RoleOf <- <<"Both", "Both">>, Scalars <- {1, 2}, Runs <- 1, pc <- basePc
Toss == INSTANCE SeedCommit WITH
    len <- 2, SEED_SIZE <- 1, Byte <- {0, 1}, pc <- tossPc, seed <- tossSeed

ASSUME OfflineParameters == InitSizes
ASSUME EndpointParameters == Endpoints!EndpointAssumption
ASSUME ExtensionParameters == Extension!OTExtensionAssumption
ASSUME BothParameters == Both!BaseOTAssumption
ASSUME TossParameters == Toss!SeedCommitAssumption

Systems == {"offline", "ends", "extension", "both", "toss"}
protocolVars == <<system, vars, epVars, otVars, baseVars, tossVars>>

\* The variables of the systems this behaviour is not of.
Off == <<>>
epOff == thread = Off /\ channels = Off /\ socket = Off /\ stopped = Off /\ done = Off /\
         epMain = Off /\ look = Off /\ conn = Off /\ handler = Off /\ entries = Off /\
         promise = Off /\ acceptor = Off /\ crashed = Off
otOff == gen = Off /\ delta = Off /\ ot_r = Off /\ ot_s = Off /\ toR = Off /\ toS = Off
baseOff == basePc = Off /\ precision2 = Off /\ chan = Off /\ strm = Off /\ sk = Off /\
           choice = Off /\ inputs = Off /\ outputs = Off /\ idx = Off /\ run = Off /\ misused = Off
tossOff == mySeed = Off /\ myOpen = Off /\ theirComm = Off /\ chl = Off /\ tossPc = Off /\
           tossSeed = Off

\* init waits to be called, with some selection.
initOff == \A p \in Party : seed[p] = CHOOSE s \in Seeds : TRUE

ProtocolsInit ==
    /\ system \in Systems
    /\ Init
    /\ system # "offline" => initOff
    /\ IF system = "ends" THEN Endpoints!Init ELSE epOff
    /\ IF system = "extension" THEN Extension!Init ELSE otOff
    /\ IF system = "both" THEN Both!Init ELSE baseOff
    /\ IF system = "toss" THEN Toss!Init ELSE tossOff
ProtocolsNext ==
    /\ UNCHANGED system
    /\ IF system = "offline" THEN Next ELSE UNCHANGED vars
    /\ IF system = "ends" THEN Endpoints!Next ELSE UNCHANGED epVars
    /\ IF system = "extension" THEN Extension!Next ELSE UNCHANGED otVars
    /\ IF system = "both" THEN Both!Next ELSE UNCHANGED baseVars
    /\ IF system = "toss" THEN Toss!Next ELSE UNCHANGED tossVars

\* The fairness each system states: what can go on goes on.
ProtocolsFairness ==
    /\ \A p \in {0, 1} : WF_vars(system = "offline" /\ MainStep(p))
    /\ \A p \in {0, 1} : WF_vars(system = "offline" /\ SendStep(p, 0))
    /\ \A p \in {0, 1} : WF_vars(system = "offline" /\ RecvStep(p, 0))
    /\ \A p \in {0, 1} : WF_vars(system = "offline" /\ OTReceive(p, 0))
    /\ \A p \in {0, 1} : WF_vars(system = "offline" /\ OTSend(p, 0))
    /\ \A p \in {0, 1} : WF_vars(system = "offline" /\ OTEnd(p, 0))
    /\ WF_epVars(system = "ends" /\ Endpoints!Listen)
    /\ WF_epVars(system = "ends" /\ Endpoints!IosStop)
    /\ \A side \in Endpoints!Side : WF_epVars(system = "ends" /\ Endpoints!EndStep(side))
    /\ \A side \in Endpoints!Side : WF_epVars(system = "ends" /\ Endpoints!Read(side))
    /\ \A side \in Endpoints!Side : \A t \in Endpoints!Thread(side) : WF_epVars(system = "ends" /\ Endpoints!Add(side, t))
    /\ \A side \in Endpoints!Side : \A t \in Endpoints!Thread(side) : WF_epVars(system = "ends" /\ Endpoints!Close(side, t))
    /\ \A t \in Endpoints!Thread("client") : WF_epVars(system = "ends" /\ Endpoints!ClientStep(t))
    /\ \A t \in Endpoints!Thread("host") : WF_epVars(system = "ends" /\ Endpoints!HostStep(t))
    /\ \A ch \in Endpoints!Connection : WF_epVars(system = "ends" /\ Endpoints!HandlerStep(ch))
    /\ WF_otVars(system = "extension" /\ Extension!ReceiverStep)
    /\ WF_otVars(system = "extension" /\ Extension!SenderStep)
    /\ \A p \in {1, 2} : WF_baseVars(system = "both" /\ Both!Step(p))
    /\ \A p \in {0, 1} : WF_tossVars(system = "toss" /\ Toss!Step(p))
ProtocolsSpec == ProtocolsInit /\ [][ProtocolsNext]_protocolVars /\ ProtocolsFairness
-----------------------------------------------------------------------------

\* A ciphertext determines nothing of the message that was not chosen.
OtherHidden == system = "both" => Both!OtherHidden

\* Both parties get the sum of what they chose.
SumOfBoth == system = "toss" => Toss!SumOfBoth

\* Nobody shows its seed before the other has committed to one.
ShownOnlyThen == system = "toss" => Toss!ShownOnlyThen

\* All end: two parties that run init get online, endpoints whose channels are closed
\* stop, and the parties extend, transfer and toss.
AllEnd ==
    <>(/\ system = "offline" => Online
       /\ system = "ends" => Endpoints!Stopped
       /\ system = "extension" => Extension!Ended
       /\ system = "both" => Both!Done
       /\ system = "toss" => Toss!Returned)
-----------------------------------------------------------------------------

\* A party learns one message of two, and a seed only when it is bound to its own.
NothingTooEarly ==
    /\ system = "toss" => Toss!TypeOK
    /\ OtherHidden
    /\ SumOfBoth
    /\ ShownOnlyThen

=============================================================================
