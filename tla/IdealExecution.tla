--------------------------- MODULE IdealExecution ---------------------------
(***************************************************************************)
(* What DualExActor::execute promises its callers: two parties evaluate    *)
(* the same function NumExe times.  A party hands its input to execution k *)
(* by calling execute(k); the call may return only after the other party   *)
(* has called execute(k) as well, and what it returns is the value of the  *)
(* function on the two inputs ("good").                                    *)
(*                                                                         *)
(* The threads, messages, circuits and the private set intersection that   *)
(* achieve this are in DualExOnline, which is checked to implement this    *)
(* specification.                                                          *)
(***************************************************************************)
EXTENDS Naturals

CONSTANT NumExe    \* number of executions the two parties agreed on

Party == {0, 1}

VARIABLES called,    \* called[p]: executions p has started
          returned,  \* returned[p]: executions whose result p has received
          results    \* results[p][k]: what execute(k) returned to p

vars == <<called, returned, results>>

Init ==
    /\ called   = [p \in Party |-> 0]
    /\ returned = [p \in Party |-> 0]
    /\ results  = [p \in Party |-> [k \in 0..NumExe-1 |-> "none"]]

\* Party p starts its next execution; one call at a time.
Call(p) ==
    /\ called[p] = returned[p]
    /\ called[p] < NumExe
    /\ called' = [called EXCEPT ![p] = @ + 1]
    /\ UNCHANGED <<returned, results>>

\* The call in progress returns the function's value, once both inputs are in.
Return(p) ==
    /\ returned[p] < called[p]
    /\ returned[p] < called[1-p]
    /\ results'  = [results EXCEPT ![p][returned[p]] = "good"]
    /\ returned' = [returned EXCEPT ![p] = @ + 1]
    /\ UNCHANGED called

Next == \E p \in Party : Call(p) \/ Return(p)

Fairness == \A p \in Party : WF_vars(Call(p)) /\ WF_vars(Return(p))

Spec == Init /\ [][Next]_vars /\ Fairness

=============================================================================
