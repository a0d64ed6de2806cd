----------------------------- MODULE MCCircuits -----------------------------
(*****************************************************************************)
(* Circuits and what is garbled, encoded and opened of them, on small        *)
(* instances: reading a circuit file, garbling with half gates and the       *)
(* classic way, the k-probe matrix of an input and the output labels of a    *)
(* bucket. Each behaviour is of one of the systems, which do not share       *)
(* state: system says of which. The variables of the others stay as they     *)
(* are.                                                                      *)
(*****************************************************************************)
EXTENDS Integers, Sequences, FiniteSets

VARIABLE system   \* the system this behaviour is of; it never changes

\* DagCircuit
VARIABLES file, numGates, outputCount, dagPc, dag_i, node, out, added, newWireIdx, addStack, frames,
          dagCir
dagVars == <<file, numGates, outputCount, dagPc, dag_i, node, out, added, newWireIdx, addStack,
              frames, dagCir>>
\* HalfGates
VARIABLES mine, agreed, hg_x, hgPc, hg_k, hgPermute, asked, wires, hgMGates, hgMTranslationTable,
          check, valid, hgLabels
hgVars == <<mine, agreed, hg_x, hgPc, hg_k, hgPermute, asked, wires, hgMGates, hgMTranslationTable,
             check, valid, hgLabels>>
\* ClassicGates
VARIABLES classicCir, classic_x, classicPc, classic_k, bottom, classicMGates,
          classicMTranslationTable, classicLabels, output
classicVars == <<classicCir, classic_x, classicPc, classic_k, bottom, classicMGates,
                  classicMTranslationTable, classicLabels, output>>
\* KProbe
VARIABLES kpPc, kp_n, secParam, kp_t, kp_T, kp_N, mMtx, input, encoding, kpLabels
kpVars == <<kpPc, kp_n, secParam, kp_t, kp_T, kp_N, mMtx, input, encoding, kpLabels>>
\* CommonOutput
VARIABLES value, outPermute, tampered, seeded, psiInput, mOutputs, opened, checked
outVars == <<value, outPermute, tampered, seeded, psiInput, mOutputs, opened, checked>>

\* All files of three gates, with removal of the inverters.
Reduced == INSTANCE DagCircuit WITH
    NumInputs <- 2, MaxGates <- 3, Reduce <- TRUE, AnyFile <- FALSE, pc <- dagPc, i <- dag_i,
    cir <- dagCir
\* The same without.
Plain == INSTANCE DagCircuit WITH
    NumInputs <- 2, MaxGates <- 2, Reduce <- FALSE, AnyFile <- TRUE, pc <- dagPc, i <- dag_i,
    cir <- dagCir
\* One gate of any type, which may read one wire twice.
OneGate == INSTANCE HalfGates WITH
    NumInputs <- 2, NumGates <- 1, Types <- {1, 2, 4, 6, 7, 8, 9, 11, 13, 14}, Twice <- TRUE,
    Cheats <- FALSE, x <- hg_x, pc <- hgPc, k <- hg_k, permute <- hgPermute, mGates <- hgMGates,
    mTranslationTable <- hgMTranslationTable, labels <- hgLabels
\* Two gates, with a table each or not: the second reads the first (GatesBound), and its tweaks go
\* on from those of the first.
TwoGates == INSTANCE HalfGates WITH
    NumInputs <- 2, NumGates <- 2, Types <- {6, 8}, Twice <- FALSE, Cheats <- FALSE, x <- hg_x,
    pc <- hgPc, k <- hg_k, permute <- hgPermute, mGates <- hgMGates,
    mTranslationTable <- hgMTranslationTable, labels <- hgLabels
\* The garbler may have garbled another circuit than the parties agreed on.
Cheat == INSTANCE HalfGates WITH
    NumInputs <- 2, NumGates <- 1, Types <- {6, 7, 8}, Twice <- FALSE, Cheats <- TRUE, x <- hg_x,
    pc <- hgPc, k <- hg_k, permute <- hgPermute, mGates <- hgMGates,
    mTranslationTable <- hgMTranslationTable, labels <- hgLabels
Classic == INSTANCE ClassicGates WITH
    NumInputs <- 2, NumGates <- 2, Types <- {2, 6, 8}, cir <- classicCir, x <- classic_x,
    pc <- classicPc, k <- classic_k, mGates <- classicMGates,
    mTranslationTable <- classicMTranslationTable, labels <- classicLabels
KP == INSTANCE KProbe WITH
    InputSizes <- {3}, SecParams <- {1, 2}, MaxOnes <- 2, pc <- kpPc, n <- kp_n, t <- kp_t,
    T <- kp_T, N <- kp_N, labels <- kpLabels
\* Two circuits in a bucket; one of them, and what depends on its offset.
Outputs == INSTANCE CommonOutput WITH
    bucketSize <- 2, OutputCount <- 2, WireCount <- 3, permute <- outPermute
Offset == INSTANCE CommonOutput WITH
    bucketSize <- 1, OutputCount <- 2, WireCount <- 3, permute <- outPermute

ASSUME ReducedParameters == Reduced!DagAssumption
ASSUME PlainParameters == Plain!DagAssumption
ASSUME OneGateParameters == OneGate!HalfGatesAssumption
ASSUME TwoGatesParameters == TwoGates!HalfGatesAssumption
ASSUME CheatParameters == Cheat!HalfGatesAssumption
ASSUME ClassicParameters == Classic!ClassicGatesAssumption
ASSUME KPParameters == KP!KProbeAssumption
ASSUME OutputsParameters == Outputs!CommonOutputAssumption
ASSUME OffsetParameters == Offset!CommonOutputAssumption

Systems == {"reduced", "plain", "onegate", "twogates", "cheat", "classic", "kp", "outputs", "offset"}
vars == <<system, dagVars, hgVars, classicVars, kpVars, outVars>>

\* The variables of the systems this behaviour is not of.
Off == <<>>
dagOff == file = Off /\ numGates = Off /\ outputCount = Off /\ dagPc = Off /\ dag_i = Off /\
          node = Off /\ out = Off /\ added = Off /\ newWireIdx = Off /\ addStack = Off /\
          frames = Off /\ dagCir = Off
hgOff == mine = Off /\ agreed = Off /\ hg_x = Off /\ hgPc = Off /\ hg_k = Off /\ hgPermute = Off /\
         asked = Off /\ wires = Off /\ hgMGates = Off /\ hgMTranslationTable = Off /\ check = Off /\
         valid = Off /\ hgLabels = Off
classicOff == classicCir = Off /\ classic_x = Off /\ classicPc = Off /\ classic_k = Off /\
              bottom = Off /\ classicMGates = Off /\ classicMTranslationTable = Off /\
              classicLabels = Off /\ output = Off
kpOff == kpPc = Off /\ kp_n = Off /\ secParam = Off /\ kp_t = Off /\ kp_T = Off /\ kp_N = Off /\
         mMtx = Off /\ input = Off /\ encoding = Off /\ kpLabels = Off
outOff == value = Off /\ outPermute = Off /\ tampered = Off /\ seeded = Off /\ psiInput = Off /\
          mOutputs = Off /\ opened = Off /\ checked = Off

Init ==
    /\ system \in Systems
    /\ CASE system = "reduced" -> Reduced!Init
         [] system = "plain" -> Plain!Init
         [] OTHER -> dagOff
    /\ CASE system = "onegate" -> OneGate!Init
         [] system = "twogates" -> TwoGates!Init
         [] system = "cheat" -> Cheat!Init
         [] OTHER -> hgOff
    /\ IF system = "classic" THEN Classic!Init ELSE classicOff
    /\ IF system = "kp" THEN KP!Init ELSE kpOff
    /\ CASE system = "outputs" -> Outputs!Init
         [] system = "offset" -> Offset!Init
         [] OTHER -> outOff
Next ==
    /\ UNCHANGED system
    /\ CASE system = "reduced" -> Reduced!Next
         [] system = "plain" -> Plain!Next
         [] OTHER -> UNCHANGED dagVars
    /\ CASE system = "onegate" -> OneGate!Next
         [] system = "twogates" -> TwoGates!Next
         [] system = "cheat" -> Cheat!Next
         [] OTHER -> UNCHANGED hgVars
    /\ IF system = "classic" THEN Classic!Next ELSE UNCHANGED classicVars
    /\ IF system = "kp" THEN KP!Next ELSE UNCHANGED kpVars
    /\ CASE system = "outputs" -> Outputs!Next
         [] system = "offset" -> Offset!Next
         [] OTHER -> UNCHANGED outVars
Spec == Init /\ [][Next]_vars

\* A bound on the circuits of two gates: the second reads the first.
GatesBound == system = "twogates" => /\ agreed.gates[1].in0 = 0
                                     /\ 2 \in {agreed.gates[2].in0, agreed.gates[2].in1}
-----------------------------------------------------------------------------

\* The types of all systems.
TypeOK ==
    /\ system = "reduced" => Reduced!TypeOK
    /\ system = "onegate" => OneGate!TypeOK
    /\ system = "kp" => KP!TypeOK

\* The circuit computes the function of its file.
ComputesFile ==
    /\ system = "reduced" => Reduced!ComputesFile
    /\ system = "plain" => Plain!ComputesFile

\* A circuit that was read is written as the same file.
WrittenAsRead == system = "plain" => Plain!WrittenAsRead

\* The inputs of the circuit are the sums of the shares both parties have.
SharesSum == system = "reduced" => Reduced!SharesSum

\* A gate comes after the gates whose outputs it reads.
InOrder ==
    /\ system = "reduced" => Reduced!InOrder
    /\ system = "plain" => Plain!InOrder

\* Reading a supported file does not throw.
NeverThrows ==
    /\ system = "reduced" => Reduced!NeverThrows
    /\ system = "plain" => Plain!NeverThrows

\* The evaluator's labels and tables do not determine the offset.
OffsetHidden == system = "onegate" => OneGate!OffsetHidden

\* Evaluation arrives at the label of the value that the wire has.
LabelsStandForValues ==
    /\ system = "onegate" => OneGate!LabelsStandForValues
    /\ system = "twogates" => TwoGates!LabelsStandForValues
    /\ system = "classic" => Classic!LabelsStandForValues

\* A circuit that Validate accepts computes the function that was agreed on.
ValidatedComputes == system = "cheat" => Cheat!ValidatedComputes

\* The translation table turns output labels into the function's values.
ComputesOutputs == system = "classic" => Classic!ComputesOutputs

\* The evaluator's labels open one of the four rows of a table.
OpensOneRow == system = "classic" => Classic!OpensOneRow

\* Bits, labels and pairs of labels are decoded to what was encoded.
DecodesToInput == system = "kp" => KP!DecodesToInput

\* An encoding has as many ones as the security parameter demands.
Resistant == system = "kp" => KP!Resistant

\* The common outputs of both parties are equal when the circuits' outputs are.
EqualWhenOutputsAgree == system = "outputs" => Outputs!EqualWhenOutputsAgree

\* The bits that are learnt are the circuit's outputs.
OutputsOfCircuit == system = "outputs" => Outputs!OutputsOfCircuit

\* A tampered translation is refused.
RefusedWhenTampered == system = "outputs" => Outputs!RefusedWhenTampered

\* Translations and seeds do not give away the offset.
OffsetStaysHidden == system = "offset" => Offset!OffsetStaysHidden
-----------------------------------------------------------------------------

\* A circuit read from a file is well formed and computes what the file says, of the sum
\* of the shares.
FilesComputed ==
    /\ TypeOK
    /\ ComputesFile
    /\ WrittenAsRead
    /\ SharesSum
    /\ InOrder
    /\ NeverThrows

\* Labels stand for values and hide all else, and an accepted circuit is the agreed one.
GarbledRight ==
    /\ OffsetHidden
    /\ LabelsStandForValues
    /\ ValidatedComputes
    /\ ComputesOutputs
    /\ OpensOneRow

\* Inputs encoded for the k-probe matrix and outputs of a bucket are decoded to what
\* they were, by both parties alike.
DecodedRight ==
    /\ DecodesToInput
    /\ Resistant
    /\ EqualWhenOutputsAgree
    /\ OutputsOfCircuit
    /\ RefusedWhenTampered
    /\ OffsetStaysHidden

=============================================================================
