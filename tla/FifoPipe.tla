------------------------------ MODULE FifoPipe ------------------------------
(***************************************************************************)
(* What a Channel promises the code that uses it (Network/Channel.h): a    *)
(* named pipe between two endpoints.  The n'th receive asked for on one    *)
(* side is given the n'th message sent on the other, whole and unchanged.  *)
(* Nothing is said of how the bytes travel, or of when a send returns.     *)
(***************************************************************************)
EXTENDS Naturals, Sequences

CONSTANT Message             \* messages callers send: a name and a length

Side     == {0, 1}
Other(p) == 1 - p

VARIABLES sent,              \* sent[p]: messages side p has sent, in order
          asked,             \* asked[p]: receives side p has asked for
          delivered          \* delivered[p]: what its receives were given

vars == <<sent, asked, delivered>>

Init ==
    /\ sent = [p \in Side |-> <<>>]
    /\ asked = [p \in Side |-> 0]
    /\ delivered = [p \in Side |-> <<>>]

Send(p) ==
    /\ \E m \in Message : sent' = [sent EXCEPT ![p] = Append(@, m)]
    /\ UNCHANGED <<asked, delivered>>

Ask(p) ==
    /\ asked' = [asked EXCEPT ![p] = @ + 1]
    /\ UNCHANGED <<sent, delivered>>

Deliver(p) ==
    LET n == Len(delivered[p]) + 1 IN
    /\ n <= asked[p]
    /\ n <= Len(sent[Other(p)])
    /\ delivered' = [delivered EXCEPT ![p] = Append(@, sent[Other(p)][n])]
    /\ UNCHANGED <<sent, asked>>

Next == \E p \in Side : Send(p) \/ Ask(p) \/ Deliver(p)

Spec == Init /\ [][Next]_vars

=============================================================================
