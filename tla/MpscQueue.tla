----------------------------- MODULE MpscQueue ------------------------------
(***************************************************************************)
(* mpsc_queue_t (libBDX/Common/mpsc_queue.h): a queue without locks for    *)
(* many producers and one consumer.  A producer exchanges the head, then   *)
(* links its node behind the one it found there; between the two steps the *)
(* queue is cut in two.  The consumer deletes the node before the one it   *)
(* has taken.                                                              *)
(***************************************************************************)
EXTENDS Naturals, Sequences, FiniteSets

CONSTANTS Producer, Each     \* every producer enqueues Each messages
MpscQueueAssumption == IsFiniteSet(Producer) /\ Each \in Nat \ {0}

NULL == 0
Node == 1..Cardinality(Producer) * Each + 1
None == <<>>                 \* no data: of the first node

\* The state:
\*   _head, _tail, next, data: the queue and its nodes
\*   live: nodes that exist
\*   pc, node, prev_head, done: of the producers; done: messages enqueued
\*   cpc, ctail, cnext: of the consumer
\*   order, got, answered: ghosts: the order of the exchanges, what was dequeued, and whether dequeue last said there is nothing
VARIABLES _head, _tail, next, data, live, pc, node, prev_head, done, cpc, ctail, cnext,
          order, got, answered

vars == <<_head, _tail, next, data, live, pc, node, prev_head, done, cpc, ctail, cnext, order, got, answered>>
consumer == <<_tail, cpc, ctail, cnext, got, answered>>

Init == /\ _head = 1 /\ _tail = 1 /\ next = [n \in Node |-> NULL] /\ data = [n \in Node |-> None]
        /\ live = {1}
        /\ pc = [p \in Producer |-> "idle"] /\ node = [p \in Producer |-> NULL]
        /\ prev_head = [p \in Producer |-> NULL] /\ done = [p \in Producer |-> 0]
        /\ cpc = "idle" /\ ctail = NULL /\ cnext = NULL /\ order = <<>> /\ got = <<>> /\ answered = FALSE

\* enqueue, in three steps
Allocate(p) == /\ pc[p] = "idle" /\ done[p] < Each
               /\ LET n == CHOOSE k \in Node : data[k] = None /\ k # 1 IN
                     /\ data' = [data EXCEPT ![n] = <<p, done[p] + 1>>] /\ live' = live \cup {n}
                     /\ node' = [node EXCEPT ![p] = n]
               /\ pc' = [pc EXCEPT ![p] = "exchange"]
               /\ UNCHANGED <<_head, next, prev_head, done, consumer, order>>
Exchange(p) == /\ pc[p] = "exchange"
               /\ prev_head' = [prev_head EXCEPT ![p] = _head] /\ _head' = node[p]
               /\ order' = Append(order, data[node[p]])
               /\ pc' = [pc EXCEPT ![p] = "link"]
               /\ UNCHANGED <<next, data, live, node, done, consumer>>
Link(p) == /\ pc[p] = "link"
           /\ next' = [next EXCEPT ![prev_head[p]] = node[p]]
           /\ done' = [done EXCEPT ![p] = @ + 1] /\ pc' = [pc EXCEPT ![p] = "idle"]
           /\ UNCHANGED <<_head, data, live, node, prev_head, consumer, order>>

LastHeldBack(t) == IF next[t] = _head THEN NULL ELSE next[t]    \* fault
NextOf(t) == next[t]
DataBefore(t, n) == data[t]                                      \* fault
DataOf(t, n) == data[n]
NodeTaken(t, n) == n                                             \* fault
NodeLeft(t, n) == t

\* dequeue: nothing, or a message
Look == /\ cpc \in {"idle", "closing"} /\ answered = FALSE
        /\ IF NextOf(_tail) = NULL
           THEN answered' = TRUE /\ UNCHANGED <<cpc, ctail, cnext>>
           ELSE /\ ctail' = _tail /\ cnext' = NextOf(_tail) /\ UNCHANGED answered
                /\ cpc' = IF cpc = "idle" THEN "take" ELSE "takelast"
        /\ UNCHANGED <<_head, _tail, next, data, live, pc, node, prev_head, done, order, got>>
Take == /\ cpc \in {"take", "takelast"}
        /\ got' = Append(got, DataOf(ctail, cnext)) /\ _tail' = cnext
        /\ live' = live \ {NodeLeft(ctail, cnext)}
        /\ cpc' = IF cpc = "take" THEN "idle" ELSE "closing"
        /\ UNCHANGED <<_head, next, data, pc, node, prev_head, done, ctail, cnext, order, answered>>
\* the caller asks again
Again == /\ cpc = "idle" /\ answered /\ answered' = FALSE
         /\ UNCHANGED <<_head, _tail, next, data, live, pc, node, prev_head, done, cpc, ctail, cnext, order, got>>
\* ~mpsc_queue_t, when the producers have ended
Destroy == /\ cpc = "idle" /\ \A p \in Producer : done[p] = Each
           /\ cpc' = "closing" /\ answered' = FALSE
           /\ UNCHANGED <<_head, _tail, next, data, live, pc, node, prev_head, done, ctail, cnext, order, got>>
FirstNode == 1                                                   \* fault
Front == _head
Destroyed == /\ cpc = "closing" /\ answered
             /\ live' = live \ {Front} /\ cpc' = "destroyed"
             /\ UNCHANGED <<_head, _tail, next, data, pc, node, prev_head, done, ctail, cnext, order, got, answered>>

Producing(p) == Allocate(p) \/ Exchange(p) \/ Link(p)
Consuming == Look \/ Take \/ Again \/ Destroy \/ Destroyed
Next == Consuming \/ \E p \in Producer : Producing(p)
Spec == /\ Init /\ [][Next]_vars
        /\ \A p \in Producer : WF_vars(Producing(p))
        /\ WF_vars(Look \/ Take \/ Again \/ Destroyed)
-----------------------------------------------------------------------------
\* Nobody follows a pointer to a node that was deleted: the nodes from the tail to the head,
\* and those that producers are about to write to, exist.
NoDeletedNode == cpc # "destroyed" =>
    /\ {_head, _tail} \subseteq live
    /\ \A p \in Producer : pc[p] = "link" => prev_head[p] \in live
    /\ cpc \in {"take", "takelast"} => {ctail, cnext} \subseteq live

\* Messages are dequeued in the order of the exchanges, each once.
InExchangeOrder == Len(got) <= Len(order) /\ got = SubSeq(order, 1, Len(got))

\* The destructor leaves no message and no node behind.
NothingLeft == cpc = "destroyed" => got = order /\ live = {}

\* A consumer that keeps asking gets every message.
Arrived == \A p \in Producer, n \in 1..Each : \E k \in 1..Len(got) : got[k] = <<p, n>>
AllArrive == <>Arrived

=============================================================================
