----------------------------- MODULE KProbeFile -----------------------------
(***************************************************************************)
(* The files that k-probe matrices are kept in                             *)
(* (KProbeMatrix::loadOrBuild, load and save).  Both parties derive the    *)
(* names of the two files from the same seeds; each builds the matrix of a *)
(* file that it does not find and saves it, and loads the one it finds.  A *)
(* mutex orders the threads of a process.                                  *)
(*                                                                         *)
(* A file is a sequence of cells: the sizes n and h, then the bytes of the *)
(* rows.  What a stream has buffered reaches the file in pieces, cut at    *)
(* any byte, the last one when it is closed; a piece is a run of bytes     *)
(* written one by one.  A process may be killed and started again.         *)
(***************************************************************************)
EXTENDS Integers, Sequences, FiniteSets, SequencesExt

CONSTANTS Threads, Processes,
          ProcessOf,    \* the process of each thread
          Role,         \* the role, 0 or 1, of the party each thread runs
          Rows,         \* bound: rows of a matrix
          RowBytes,     \* bound: bytes of a row
          MaxCrashes    \* bound: how often a process is killed

KProbeFileAssumption == /\ ProcessOf \in [Threads -> Processes] /\ Role \in [Threads -> {0, 1}]
                        /\ Rows \in Nat \ {0} /\ RowBytes \in Nat \ {0} /\ MaxCrashes \in Nat

VARIABLES file,      \* the cells of each file, or Absent
          mtx,       \* loadOrBuildMtx of each process: the thread that holds it
          pc, call,  \* where each thread is, and in which of its two calls
          pos,       \* cells it has read or written
          mMtx,      \* the bytes of each thread's two matrices, row after row
          crashes

vars == <<file, mtx, pc, call, pos, mMtx, crashes>>

Seeds == {0, 1}
Absent == <<"absent">>
NoThread == "none"
Sizes == 2                       \* the cells n and h
Total == Sizes + Rows * RowBytes
Cell(s, i) == <<s, i>>           \* what build gives
Hole == <<"zero">>               \* a byte of the file that was never written, or of a matrix not read
Written(s) == [i \in 1..Total |-> Cell(s, i)]
Built(s) == SubSeq(Written(s), Sizes + 1, Total)

\* The seed of the matrix of a call: first my own, then theirs.
seeds(th) == IF call[th] = 1 THEN Role[th] ELSE 1 - Role[th]
Here(th, label) == pc[th] = label
Move(th, label) == pc' = [pc EXCEPT ![th] = label]

Empty == [s \in Seeds |-> <<>>]
Init ==
    /\ file = [s \in Seeds |-> Absent]
    /\ mtx = [p \in Processes |-> NoThread]
    /\ pc = [th \in Threads |-> "lock"] /\ call = [th \in Threads |-> 1]
    /\ pos = [th \in Threads |-> 0]
    /\ mMtx = [th \in Threads |-> Empty]
    /\ crashes = 0

LockIgnored(th) == TRUE                               \* fault: no mutex
LockFree(th) == mtx[ProcessOf[th]] = NoThread

Lock(th) ==
    /\ Here(th, "lock") /\ LockFree(th)
    /\ mtx' = [mtx EXCEPT ![ProcessOf[th]] = th]
    /\ Move(th, "open")
    /\ UNCHANGED <<file, call, pos, mMtx, crashes>>

\* The file is opened for reading; a matrix whose file is not there is built.
Open(th) ==
    /\ Here(th, "open")
    /\ LET s == seeds(th) IN
       IF file[s] = Absent
       THEN Move(th, "create") /\ mMtx' = [mMtx EXCEPT ![th][s] = Built(s)]
       ELSE Move(th, "load") /\ mMtx' = [mMtx EXCEPT ![th][s] = <<>>]
    /\ pos' = [pos EXCEPT ![th] = 0]
    /\ UNCHANGED <<file, mtx, call, crashes>>

\* std::ios::trunc.
Create(th) ==
    /\ Here(th, "create")
    /\ file' = [file EXCEPT ![seeds(th)] = <<>>]
    /\ Move(th, "save")
    /\ UNCHANGED <<mtx, call, pos, mMtx, crashes>>

OverwrittenAtEnd(f, s, i) == Append(f, Cell(s, i))    \* fault: app for trunc
\* Cell i of s at its place, in a file that another has made shorter, or longer, since.
Overwritten(f, s, i) ==
    [j \in 1..(IF Len(f) > i THEN Len(f) ELSE i) |->
        IF j = i THEN Cell(s, i) ELSE IF j <= Len(f) THEN f[j] ELSE Hole]

\* save: the next byte reaches the file.
Save(th) ==
    /\ Here(th, "save") /\ pos[th] < Total
    /\ file' = [file EXCEPT ![seeds(th)] = Overwritten(@, seeds(th), pos[th] + 1)]
    /\ pos' = [pos EXCEPT ![th] = @ + 1]
    /\ UNCHANGED <<mtx, pc, call, mMtx, crashes>>

UnlockForgotten(th) == mtx' = mtx                     \* fault
Unlock(th) == mtx' = [mtx EXCEPT ![ProcessOf[th]] = NoThread]
NextCallTwice(th) == /\ call' = [call EXCEPT ![th] = @ + 1]   \* fault: one call too many
                     /\ Move(th, IF call[th] <= 3 THEN "lock" ELSE "done")
NextCall(th) == /\ call' = [call EXCEPT ![th] = @ + 1]
                /\ Move(th, IF call[th] = 1 THEN "lock" ELSE "done")

Saved(th) ==
    /\ Here(th, "save") /\ pos[th] = Total
    /\ Unlock(th) /\ NextCall(th)
    /\ UNCHANGED <<file, pos, mMtx, crashes>>

\* load: n, then h, which makes rows of zeros.  They are not initialized: without them, or
\* with zeros, the matrix has any size, or none, and the program goes on with it, or not.
LoadSize(th) ==
    LET f == file[seeds(th)] IN
    /\ Here(th, "load") /\ pos[th] < Sizes
    /\ IF pos[th] + 1 > Len(f) \/ f[pos[th] + 1] = Hole
       THEN Move(th, "undefined") /\ UNCHANGED <<pos, mMtx>>
       ELSE /\ pos' = [pos EXCEPT ![th] = @ + 1]
            /\ mMtx' = [mMtx EXCEPT ![th][seeds(th)] =
                  IF pos[th] + 1 = Sizes THEN [i \in 1..Rows*RowBytes |-> Hole] ELSE @]
            /\ UNCHANGED pc
    /\ UNCHANGED <<file, mtx, call, crashes>>

\* The next byte of a row.  At the end of the file the stream fails: this row keeps the bytes
\* it has, and the rest of it and all rows after it stay zero.
LoadByte(th) ==
    LET s == seeds(th)  next == pos[th] + 1 IN
    /\ Here(th, "load") /\ pos[th] \in Sizes..Total-1
    /\ IF next > Len(file[s])
       THEN pos' = [pos EXCEPT ![th] = Total] /\ UNCHANGED mMtx
       ELSE pos' = [pos EXCEPT ![th] = next] /\ mMtx' = [mMtx EXCEPT ![th][s][next - Sizes] = file[s][next]]
    /\ UNCHANGED <<file, mtx, pc, call, crashes>>

Loaded(th) ==
    /\ Here(th, "load") /\ pos[th] = Total
    /\ Unlock(th) /\ NextCall(th)
    /\ UNCHANGED <<file, pos, mMtx, crashes>>

\* A process is killed, and started again from the beginning.
Crash(p) ==
    /\ crashes < MaxCrashes
    /\ crashes' = crashes + 1
    /\ mtx' = [mtx EXCEPT ![p] = NoThread]
    /\ pc' = [th \in Threads |-> IF ProcessOf[th] = p THEN "lock" ELSE pc[th]]
    /\ call' = [th \in Threads |-> IF ProcessOf[th] = p THEN 1 ELSE call[th]]
    /\ pos' = [th \in Threads |-> IF ProcessOf[th] = p THEN 0 ELSE pos[th]]
    /\ mMtx' = [th \in Threads |-> IF ProcessOf[th] = p THEN Empty ELSE mMtx[th]]
    /\ UNCHANGED file

Step(th) == Lock(th) \/ Open(th) \/ Create(th) \/ Save(th) \/ Saved(th) \/ LoadSize(th) \/ LoadByte(th) \/ Loaded(th)
Next == (\E th \in Threads : Step(th)) \/ (\E p \in Processes : Crash(p))

\* A thread that can go on does; one that waits for the mutex has its turn when the others,
\* which take it twice each, are through.
Spec == Init /\ [][Next]_vars /\ \A th \in Threads : WF_vars(Step(th))
-----------------------------------------------------------------------------
Cells == {Cell(s, i) : s \in Seeds, i \in 1..Total} \cup {Hole}
TypeOK ==
    /\ \A s \in Seeds : file[s] = Absent \/ file[s] \in Seq(Cells)
    /\ mtx \in [Processes -> Threads \cup {NoThread}]
    /\ \A th \in Threads :
        /\ pc[th] \in {"lock", "open", "create", "save", "load", "done", "undefined"}
        /\ call[th] \in 1..3 /\ pos[th] \in 0..Total
        /\ \A s \in Seeds : Len(mMtx[th][s]) \in {0, Rows * RowBytes}

Done(th) == pc[th] = "done"

\* A matrix that loadOrBuild has returned is the one its seed gives, whoever built it and
\* whatever else was at the file in the meantime.
Returned(th, s) == Done(th) \/ (call[th] = 2 /\ s = Role[th])
LoadedIsBuilt == \A th \in Threads, s \in Seeds : Returned(th, s) => mMtx[th][s] = Built(s)

\* The sizes are there when they are read.
NeverUndefined == \A th \in Threads : pc[th] # "undefined"

\* Whatever processes overwrite and leave unfinished, a matrix is right but for bytes that are
\* zero: a row may be cut or missing, but no byte of it comes from another place.
ByteOrZero == \A th \in Threads, s \in Seeds : \A i \in DOMAIN mMtx[th][s] : mMtx[th][s][i] \in {Built(s)[i], Hole}

\* No thread waits for ever, but for one of its process that read a size from nowhere.
Lost(th) == \E other \in Threads : ProcessOf[other] = ProcessOf[th] /\ pc[other] = "undefined"
Over == \A th \in Threads : Done(th) \/ Lost(th)
AllStop == <>[]Over

\* Every thread gets both matrices.
AllLoaded == \A th \in Threads : Done(th)

=============================================================================
