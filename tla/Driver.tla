------------------------------- MODULE Driver -------------------------------
(***************************************************************************)
(* The two front ends of FrontEnd/Main.cpp.  What the command line asks    *)
(* for: the unit tests, one party, or (Eval) both in this process.  A      *)
(* party reads its circuit, pings the other if it is told to and sets up   *)
(* its actor with it.  Then it starts E threads, and thread j executes j,  *)
(* j + E, j + 2E, ...  An execution of the actor (DualExOnline) is here    *)
(* only the slot it uses and the execution of the other party it meets     *)
(* there.  Timer::setTimePoint appends to a list without a lock.           *)
(***************************************************************************)
EXTENDS Integers, Sequences, FiniteSets

\* A command line: whether it has -u, whether it has -i, the number with -c, and whether
\* the circuit file can be opened.  It has -r if the party has a process of its own.
NoOption == -1          \* there is no -c
CommandLines == [u : BOOLEAN, i : BOOLEAN, c : Nat \cup {NoOption}, file : BOOLEAN]

CONSTANTS N,            \* numExec
          E,            \* numConcurrentEvals
          BucketSize,
          Options,      \* the command lines that are tried
          Tests,        \* the tests of runAll
          OneProcess    \* Eval, or else commandLineMain
DriverAssumption == /\ N \in Nat /\ E \in Nat \ {0} /\ BucketSize \in Nat \ {0}
                    /\ Options \subseteq CommandLines /\ Tests \in Nat /\ OneProcess \in BOOLEAN
                    \* with fewer threads than circuits no execution returns (DualExOnline)
                    /\ \A o \in Options : o.c = NoOption \/ o.c >= BucketSize

Role    == {0, 1}
Threads == 0..E-1
Main    == -1           \* the thread that starts the others

\* The state:
\*   opt[r]: the command line of r's process
\*   tests[r]: the unit tests its process has run
\*   main[r]: where the thread that starts the others is
\*   pc, i: of the evaluation threads
\*   begun[r][s]: the executions r has begun in slot s
\*   met[r]: <<index, the other's index>> of finished executions
\*   points[r][c]: the time points in the list of timer c
\*   at[r][w]: the end of the list as a thread in setTimePoint found it
VARIABLES opt, tests, main, pc, i, begun, met, points, at

rest == <<pc, i, begun, met, points, at>>
vars == <<opt, tests, main, rest>>

Other(r) == 1 - r
Slot(n)  == n % E
ClockShared(j) == Main                            \* fault
Clock(j) == IF OneProcess THEN j ELSE Main        \* t2, or timer

Init == /\ opt \in [Role -> Options] /\ (OneProcess => opt[0] = opt[1])
        /\ tests = [r \in Role |-> 0] /\ main = [r \in Role |-> "parse"]
        /\ pc = [r \in Role |-> [j \in Threads |-> "none"]] /\ i = [r \in Role |-> [j \in Threads |-> 0]]
        /\ begun = [r \in Role |-> [s \in Threads |-> <<>>]] /\ met = [r \in Role |-> {}]
        /\ points = [r \in Role |-> [c \in Threads \cup {Main} |-> <<>>]]
        /\ at = [r \in Role |-> [w \in Threads \cup {Main} |-> 0]]

\* What a process does before its parties have actors it does once for them all.
Process(r) == IF OneProcess THEN Role ELSE {r}
Goes(r, place) == /\ main' = [s \in Role |-> IF s \in Process(r) THEN place ELSE main[s]]
                  /\ UNCHANGED <<opt, rest>>

Parse(r) == /\ main[r] = "parse" /\ UNCHANGED tests
            /\ \/ opt[r].u /\ Goes(r, "tests")
               \/ ~opt[r].u /\ Goes(r, "read")

\* run: the next test, which passes or throws what run catches.  Then commandLineMain returns.
RunTest(r)   == /\ main[r] = "tests" /\ tests[r] < Tests /\ UNCHANGED <<opt, main, rest>>
                /\ tests' = [s \in Role |-> IF s \in Process(r) THEN tests[s] + 1 ELSE tests[s]]
TestsDone(r) == main[r] = "tests" /\ tests[r] = Tests /\ Goes(r, "tested") /\ UNCHANGED tests

\* A file that cannot be opened ends the process: nobody catches what is thrown.
ReadCircuit(r) == /\ main[r] = "read" /\ ~OneProcess /\ UNCHANGED tests
                  /\ \/ opt[r].file /\ Goes(r, "ping")
                     \/ ~opt[r].file /\ Goes(r, "aborted")
EvalReadsCircuit(r) == /\ main[r] = "read" /\ OneProcess /\ UNCHANGED tests
                       /\ \/ opt[r].file /\ Goes(r, "init")
                          \/ ~opt[r].file /\ Goes(r, "aborted")

\* pingTest and init exchange messages with the other party, which has to be there.
Before(place) == {"parse", "tests", "tested", "read", "aborted"}
                     \cup IF place = "init" THEN {"ping"} ELSE {}
Ping(r) == /\ main[r] = "ping" /\ Goes(r, "init") /\ UNCHANGED tests
           /\ opt[r].i => opt[Other(r)].i /\ main[Other(r)] \notin Before("ping")
InitAlone(r) == main[r] = "init" /\ main' = [main EXCEPT ![r] = "start"] /\ UNCHANGED <<opt, tests, rest>>   \* fault
\* init: each sends its parameters and compares them with those it gets.  Of these only the
\* number of circuit threads may differ here; what is thrown then ends the process.
numThreadsPerEval(r) == IF opt[r].c # NoOption THEN opt[r].c ELSE BucketSize
SameParameters == numThreadsPerEval(0) = numThreadsPerEval(1)
HasSent(r) == main[r] \notin Before("init") \/ (main[r] = "aborted" /\ opt[r].file)
InitActor(r) == /\ main[r] = "init" /\ HasSent(Other(r)) /\ UNCHANGED <<opt, tests, rest>>
                /\ main' = [main EXCEPT ![r] = IF SameParameters THEN "start" ELSE "aborted"]
Starting(r) == \/ Parse(r) \/ RunTest(r) \/ TestsDone(r) \/ ReadCircuit(r) \/ EvalReadsCircuit(r)
               \/ Ping(r) \/ InitActor(r)

\* push_back: the end of the list is read, then the new point is linked behind it.
Enter(r, w, c) == at' = [at EXCEPT ![r][w] = Len(points[r][c])]
Link(r, w, c, point) == LET old == points[r][c] IN
    \/ points' = [points EXCEPT ![r][c] = Append(old, point)]
    \/ /\ at[r][w] < Len(old)                     \* another point was linked in between
       /\ points' = [points EXCEPT ![r][c] = Append(SubSeq(old, 1, at[r][w]), point)]

FirstOf(j) == j
Spawn(r) == /\ main[r] = "start"
            /\ main' = [main EXCEPT ![r] = IF OneProcess THEN "join" ELSE "mark"]
            /\ pc' = [pc EXCEPT ![r] = [j \in Threads |-> "loop"]]
            /\ i' = [i EXCEPT ![r] = [j \in Threads |-> FirstOf(j)]]
            /\ UNCHANGED <<opt, tests, begun, met, points, at>>

SlotByHalf(n) == (n \div 2) % E                   \* fault
SlotOf(n) == Slot(n)
\* execute, up to its first time point
Begin(r, j) == /\ pc[r][j] = "loop" /\ i[r][j] < N
               /\ begun' = [begun EXCEPT ![r][SlotOf(i[r][j])] = Append(@, i[r][j])]
               /\ pc' = [pc EXCEPT ![r][j] = "running"]
               /\ UNCHANGED <<opt, tests, main, i, met, points, at>>
\* setTimePoint, in two steps
Stamp(r, j) == /\ pc[r][j] = "running" /\ Enter(r, j, Clock(j))
               /\ pc' = [pc EXCEPT ![r][j] = "stamping"]
               /\ UNCHANGED <<opt, tests, main, i, begun, met, points>>
Stamped(r, j) == /\ pc[r][j] = "stamping" /\ Link(r, j, Clock(j), i[r][j])
                 /\ pc' = [pc EXCEPT ![r][j] = "waiting"]
                 /\ UNCHANGED <<opt, tests, main, i, begun, met, at>>
StepOver == E + 1                                 \* fault
Step == E
Further(theirs, n) == Len(theirs) > n             \* fault
CameAsFar(theirs, n) == Len(theirs) >= n
\* execute returns once the other has come as far in the slot.
Return(r, j) == LET s == SlotOf(i[r][j])  n == Len(begun[r][s])  theirs == begun[Other(r)][s] IN
    /\ pc[r][j] = "waiting" /\ CameAsFar(theirs, n)
    /\ met' = [met EXCEPT ![r] = @ \cup {<<i[r][j], theirs[n]>>}]
    /\ i' = [i EXCEPT ![r][j] = @ + Step]
    /\ pc' = [pc EXCEPT ![r][j] = "loop"]
    /\ UNCHANGED <<opt, tests, main, begun, points, at>>
Leave(r, j) == /\ pc[r][j] = "loop" /\ i[r][j] >= N
               /\ pc' = [pc EXCEPT ![r][j] = "done"]
               /\ UNCHANGED <<opt, tests, main, i, begun, met, points, at>>

\* commandLineMain sets "Exec Finished" before the threads are joined.  In Eval the second
\* party, which is the main thread's, sets "finished" after it and the first, which has a
\* thread of its own, none.
Mark(r) == /\ main[r] = "mark" /\ Enter(r, Main, Main) /\ main' = [main EXCEPT ![r] = "marking"]
           /\ UNCHANGED <<opt, tests, pc, i, begun, met, points>>
Marked(r) == /\ main[r] = "marking" /\ Link(r, Main, Main, N)
             /\ main' = [main EXCEPT ![r] = IF OneProcess THEN "close" ELSE "join"]
             /\ UNCHANGED <<opt, tests, pc, i, begun, met, at>>
SomeLeft(r) == \E j \in Threads : pc[r][j] = "done"   \* fault
Joined(r) == \A j \in Threads : pc[r][j] = "done"
Join(r) == /\ main[r] = "join" /\ Joined(r)
           /\ main' = [main EXCEPT ![r] = IF OneProcess /\ r = 1 THEN "mark" ELSE "close"]
           /\ UNCHANGED <<opt, tests, pc, i, begun, met, points, at>>
\* close, or the destructor of the actor, and stop; Eval's main thread joins the first party's
\* before.
Close(r) == /\ main[r] = "close" /\ (OneProcess /\ r = 1 => main[0] = "end")
            /\ main' = [main EXCEPT ![r] = "end"]
            /\ UNCHANGED <<opt, tests, pc, i, begun, met, points, at>>

PartyStep(r) == \/ Starting(r) \/ Spawn(r) \/ Mark(r) \/ Marked(r) \/ Join(r) \/ Close(r)
                \/ \E j \in Threads : Begin(r, j) \/ Stamp(r, j) \/ Stamped(r, j) \/ Return(r, j) \/ Leave(r, j)
Next == \E r \in Role : PartyStep(r)
Fairness == \A r \in Role :
    /\ WF_vars(Starting(r))
    /\ WF_vars(Spawn(r)) /\ WF_vars(Mark(r)) /\ WF_vars(Marked(r)) /\ WF_vars(Join(r)) /\ WF_vars(Close(r))
    /\ \A j \in Threads : WF_vars(Begin(r, j) \/ Stamp(r, j) \/ Stamped(r, j) \/ Return(r, j) \/ Leave(r, j))
Spec == Init /\ [][Next]_vars /\ Fairness
-----------------------------------------------------------------------------
Executing == {"running", "stamping", "waiting"}

\* The actor's rule: one execution at a time in a slot, and the next of the slot after it.
SlotRule == \A r \in Role : \A s \in Threads :
    /\ Cardinality({j \in Threads : pc[r][j] \in Executing /\ Slot(i[r][j]) = s}) <= 1
    /\ \A k \in 1..Len(begun[r][s]) : begun[r][s][k] = s + (k - 1) * E

\* Executions meet their like at the other party.
SameExecution == \A r \in Role : \A m \in met[r] : m[1] = m[2]

\* When a party closes, every execution it was to do was done.
EveryExecution == \A r \in Role : main[r] \in {"close", "end"} => {m[1] : m \in met[r]} = 0..N-1

\* Every time point that was set is kept, in its timer's list.
PointsKept == \A r \in Role : main[r] = "end" =>
    /\ (OneProcess /\ r = 0) \/ N \in {points[r][Main][k] : k \in 1..Len(points[r][Main])}
    /\ \A j \in Threads : \A n \in {m \in 0..N-1 : m % E = j} :
          n \in {points[r][Clock(j)][k] : k \in 1..Len(points[r][Clock(j)])}

\* "Exec Finished" is taken when the executions have finished.
FinishedLast == \A r \in Role : main[r] = "marking" => \A j \in Threads : pc[r][j] = "done"

\* Both parties run, on the circuit, and either both ping or neither does.
Agree == /\ \A r \in Role : ~opt[r].u /\ opt[r].file
         /\ OneProcess \/ opt[0].i = opt[1].i
         /\ SameParameters

\* No execution is reported and no party closes well unless both can do the whole work.
OnlyTogether == \A r \in Role : met[r] # {} \/ main[r] = "end" => Agree

\* Both parties end if they agree.  Without the other's help a process ends that runs the
\* tests, all of them, or has no circuit.
Ended == \A r \in Role : CASE Agree -> main[r] = "end"
                          [] ~Agree /\ opt[r].u -> main[r] = "tested" /\ tests[r] = Tests
                          [] ~Agree /\ ~opt[r].u /\ ~opt[r].file -> main[r] = "aborted"
                          [] OTHER -> TRUE
BothEnd == <>Ended

=============================================================================
