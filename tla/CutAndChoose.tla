---------------------------- MODULE CutAndChoose ----------------------------
(***************************************************************************)
(* The loop of GetRandSubset (libBDX/DualEx/DualExActor.cpp), with which a *)
(* party expands its cut-and-choose seed into the circuits the peer must   *)
(* open and the circuits that are evaluated, in bucket order.              *)
(***************************************************************************)
EXTENDS RandSubset

CONSTANTS SubsetSize,  \* mNumOpened
          SetSize      \* mNumCircuits

ASSUME CutSizes == /\ SubsetSize \in Nat
                   /\ SetSize \in Nat
                   /\ SubsetSize <= SetSize

VARIABLES subset,      \* circuits to open
          difference,  \* circuits to evaluate
          i            \* the loop's i: circuits below i have been placed

vars == <<subset, difference, i>>

SubsetIdx == 0..SubsetSize-1
DiffIdx   == 0..SetSize-SubsetSize-1

Init ==
    /\ subset = FirstSubset(SubsetSize)
    /\ difference = FirstDifference(SubsetSize, SetSize)
    /\ i = SubsetSize

\* One iteration: place circuit i.
Iterate ==
    /\ i < SetSize
    /\ \E r \in Draws(SubsetSize, i) :
        LET placed == Place(<<subset, difference>>, SubsetSize, i, r)
        IN  subset' = placed[1] /\ difference' = placed[2]
    /\ i' = i + 1

Spec == Init /\ [][Iterate]_vars

-----------------------------------------------------------------------------

TypeOK ==
    /\ subset \in [SubsetIdx -> 0..SetSize-1]
    /\ difference \in [DiffIdx -> 0..SetSize-1]
    /\ i \in SubsetSize..SetSize

\* No circuit placed so far is both opened and evaluated, in two buckets, or lost.
Partition == Partitioned(subset, difference, SubsetSize, i)

-----------------------------------------------------------------------------
(* GetRandSubset partitions the circuits, for every number of circuits. *)

\* The vectors as the loop keeps them; circuit i is new to both.
IInv == i \in SubsetSize..SetSize /\ Placed(<<subset, difference>>, SubsetSize, SetSize, i)

\* Before the loop the partition holds of the circuits below SubsetSize.
LEMMA InitInv == Init => IInv
  BY CutSizes, FirstPlaced DEF Init, IInv

\* An iteration places one more circuit and loses none.
LEMMA StepInv == IInv /\ [Iterate]_vars => IInv'
<1> SUFFICES ASSUME IInv, [Iterate]_vars PROVE IInv'
  OBVIOUS
<1>1. CASE UNCHANGED vars
  BY <1>1 DEF IInv, vars
<1>2. CASE Iterate
  <2> DEFINE pair == <<subset, difference>>
  <2>1. i \in SubsetSize..SetSize-1 /\ i' = i + 1
    BY <1>2, CutSizes DEF IInv, Iterate
  <2>2. PICK r \in Draws(SubsetSize, i) :
           LET placed == Place(pair, SubsetSize, i, r)
           IN  subset' = placed[1] /\ difference' = placed[2]
    BY <1>2 DEF Iterate
  <2>3. Placed(Place(pair, SubsetSize, i, r), SubsetSize, SetSize, i + 1)
    BY <2>1, CutSizes, PlaceKeeps DEF IInv
  <2>4. <<subset', difference'>> = Place(pair, SubsetSize, i, r)
    BY <2>2 DEF Place
  <2> QED
    BY <2>1, <2>3, <2>4, CutSizes DEF IInv
<1> QED
  BY <1>1, <1>2

\* Every circuit the loop has placed is opened or evaluated, exactly once:
\* GetRandSubset in DualExActor.cpp.
THEOREM CircuitsPartitioned == Spec => []Partition
<1>1. Init => IInv
  BY InitInv
<1>2. IInv /\ [Iterate]_vars => IInv'
  BY StepInv
<1>3. IInv => Partition
  BY DEF IInv, Placed, Partition
<1> QED
  BY <1>1, <1>2, <1>3, PTL DEF Spec

\* The vectors keep their sizes and hold circuits; the loop stops at SetSize.
THEOREM SubsetTypes == Spec => []TypeOK
<1>1. Init => IInv
  BY InitInv
<1>2. IInv /\ [Iterate]_vars => IInv'
  BY StepInv
<1>3. IInv => TypeOK
  BY DEF IInv, Placed, TypeOK, SubsetIdx, DiffIdx
<1> QED
  BY <1>1, <1>2, <1>3, PTL DEF Spec

=============================================================================
