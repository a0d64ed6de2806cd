------------------------------ MODULE PingTest ------------------------------
(***************************************************************************)
(* pingTest (FrontEnd/Main.cpp): two parties exchange Count small messages *)
(* in turn, then a large one in either direction.  The large one is sent   *)
(* from an array on the stack, which must outlive the sending.             *)
(***************************************************************************)
EXTENDS Naturals, Sequences

CONSTANTS Count,        \* count
          Kernel        \* bytes that a socket's buffers take before the other side reads
PingTestAssumption == Count \in Nat /\ Kernel \in Nat

Role == {0, 1}
Big  == 2               \* oneMB.size(), where a small message has size 1

\* The state:
\*   pc[r]: the next statement of r's script
\*   queue[r]: what r has given to asyncSend and was not written yet
\*   wire[r]: what was written by r and not received yet
\*   buff[r]: the size of what r received last
VARIABLES pc, queue, wire, buff

vars == <<pc, queue, wire, buff>>

Send(n)  == <<"send", n>>
Recv     == <<"recv", 0>>
Check(n) == <<"check", n>>        \* the size of what was received last is compared with n
Rounds   == [k \in 1..3 * Count |-> <<Send(1), Recv, Check(1)>>[((k - 1) % 3) + 1]]

LargeCross == <<Recv>> \o Rounds                              \* fault: the large messages cross
           \o <<Send(Big), Recv, Check(Big), Send(1), Recv, Check(1)>>
NoAnswer == <<Recv>> \o Rounds                                \* fault: the answer is not waited for
           \o <<Recv, Send(1), Check(Big), Send(Big)>>
ScriptOfFirst == <<Recv>> \o Rounds
           \o <<Recv, Send(1), Check(Big), Send(Big), Recv, Check(1)>>
ScriptShort == Rounds                                         \* fault: no last small message
           \o <<Send(Big), Recv, Check(1), Recv, Send(1), Check(Big)>>
ScriptOfSecond == Rounds \o <<Send(1)>>
           \o <<Send(Big), Recv, Check(1), Recv, Send(1), Check(Big)>>
Script(r) == IF r = 1 THEN ScriptOfSecond ELSE ScriptOfFirst

Finished(r) == pc[r] > Len(Script(r))
At(r, what) == ~Finished(r) /\ Script(r)[pc[r]][1] = what
Size(r) == Script(r)[pc[r]][2]
RECURSIVE Total(_)
Total(s) == IF s = <<>> THEN 0 ELSE Head(s) + Total(Tail(s))

Init == /\ pc = [r \in Role |-> 1] /\ queue = [r \in Role |-> <<>>] /\ wire = [r \in Role |-> <<>>]
        /\ buff = [r \in Role |-> 0]

Throw == Len(ScriptOfFirst) + Len(ScriptOfSecond) + 1
asyncSend(r) == /\ At(r, "send")
                /\ queue' = [queue EXCEPT ![r] = Append(@, Size(r))]
                /\ pc' = [pc EXCEPT ![r] = @ + 1] /\ UNCHANGED <<wire, buff>>
recv(r) == /\ At(r, "recv") /\ wire[1 - r] # <<>>
           /\ buff' = [buff EXCEPT ![r] = Head(wire[1 - r])]
           /\ wire' = [wire EXCEPT ![1 - r] = Tail(@)]
           /\ pc' = [pc EXCEPT ![r] = @ + 1] /\ UNCHANGED queue
checkSize(r) == /\ At(r, "check") /\ UNCHANGED <<queue, wire, buff>>
                /\ pc' = [pc EXCEPT ![r] = IF buff[r] = Size(r) THEN @ + 1 ELSE Throw]
\* a message is written whole when the kernel takes it, or when the other side reads as it comes
Written(r) == /\ queue[r] # <<>>
              /\ Total(wire[r]) + Head(queue[r]) <= Kernel \/ (wire[r] = <<>> /\ At(1 - r, "recv"))
              /\ wire' = [wire EXCEPT ![r] = Append(@, Head(queue[r]))]
              /\ queue' = [queue EXCEPT ![r] = Tail(@)] /\ UNCHANGED <<pc, buff>>
\* chl.close() and the return from pingTest
close(r) == pc[r] = Len(Script(r)) + 1 /\ queue[r] = <<>> /\ pc' = [pc EXCEPT ![r] = @ + 1]
            /\ UNCHANGED <<queue, wire, buff>>

Next == \E r \in Role : asyncSend(r) \/ recv(r) \/ checkSize(r) \/ Written(r) \/ close(r)
Spec == Init /\ [][Next]_vars /\ \A r \in Role : WF_vars(asyncSend(r)) /\ WF_vars(recv(r)) /\ WF_vars(checkSize(r))
                                                /\ WF_vars(Written(r)) /\ WF_vars(close(r))
-----------------------------------------------------------------------------
Returned(r) == pc[r] = Len(Script(r)) + 2

\* No size is wrong: the two scripts stay in step.
SizesRight == \A r \in Role : pc[r] # Throw

\* The large array is written before the function that holds it comes to its end.
ArrayOutlives == \A r \in Role : Finished(r) => \A k \in 1..Len(queue[r]) : queue[r][k] # Big

\* Both parties return, though sockets take little.
AllReturned == \A r \in Role : Returned(r)
BothReturn == <>AllReturned

=============================================================================
