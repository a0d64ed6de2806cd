----------------------------- MODULE BtChannel ------------------------------
(***************************************************************************)
(* One connected channel: a BtChannel with its BtSocket on each of two     *)
(* sides, and the handlers that BtIOService runs for them.  On each side   *)
(*                                                                         *)
(*   user     the thread that calls send, asyncSend, recv and asyncRecv    *)
(*   closer   the thread that calls close, which may be the same one       *)
(*   out      mSendStrand, mSendQueue and the asynchronous write           *)
(*   inn      mRecvStrand, mRecvQueue and the asynchronous read            *)
(*                                                                         *)
(* A strand runs the handlers posted to it one at a time, in order.  The   *)
(* handlers of async_write and async_read run outside the strand, on any   *)
(* I/O thread.  A message is a header, its size in 32 bits, and a body;    *)
(* wire holds the headers and bodies the kernel has accepted and the other *)
(* side has not read, at most Window of them.                              *)
(*                                                                         *)
(* An operator marked "fault" is a variant, with a plausible slip, of the  *)
(* operator defined after it.  No action uses one; each property below is  *)
(* checked to fail when one of them takes the place of the real operator.  *)
(***************************************************************************)
EXTENDS Integers, Sequences, FiniteSets

CONSTANTS Scripts,     \* what the users do: calls of each side, in order
          SizeLimit,   \* 2^32: an operation holds the size modulo this
          Window,      \* headers and bodies in flight in one direction
          CloseEarly,  \* close may be called while the user is still at work
          MayFail      \* sides whose program may end at any moment

Side     == {0, 1}
Other(p) == 1 - p

AnyLen   == -1         \* a receive into a ChannelBuffer that takes every size
Call     == [type : {"send", "asyncSend"}, len : Nat]
                \cup [type : {"recv", "asyncRecv"}, len : Nat \cup {AnyLen}]

ASSUME ChannelAssumption ==
    /\ Scripts \subseteq [Side -> Seq(Call)]
    /\ SizeLimit \in Nat \ {0}
    /\ Window \in Nat \ {0}
    /\ CloseEarly \in BOOLEAN
    /\ MayFail \subseteq Side

VARIABLES script, user, closer, out, inn, wire,
          sent,        \* sent[p]: the messages p's calls have queued, in order
          asked,       \* asked[p]: how many receives p's calls have queued
          aborted      \* aborted[p]: an exception in an I/O thread ended p

vars == <<script, user, closer, out, inn, wire, sent, asked, aborted>>

-----------------------------------------------------------------------------
(* Operations, queues and strands. *)

\* BoostIOOperation.  n numbers the sends, and the receives, of a side;
\* type "pop" stands for the handler that removes a finished operation.
Operation(type, n, len, sync) == [type |-> type, n |-> n, len |-> len, sync |-> sync]
CloseOp == Operation("close", 0, 0, FALSE)
Pop     == Operation("pop", 0, 0, FALSE)

\* op.mSize = (u32)size.
CutShort(len) ==                              \* fault: a narrower integer
    IF len = AnyLen THEN AnyLen ELSE len % (SizeLimit \div 2)
Cut(len) == IF len = AnyLen THEN AnyLen ELSE len % SizeLimit

Item(n, part, len) == [n |-> n, part |-> part, len |-> len]
NoItem == Item(0, "body", 0)

NewOut == [strand |-> <<>>, queue |-> <<>>, phase |-> "idle",
           returned |-> {},          \* synchronous sends whose promise is set
           closed |-> FALSE,         \* the promise of CloseSend is set
           total |-> 0, outstanding |-> 0, max |-> 0]    \* mTotalSentData ...
NewIn  == [strand |-> <<>>, queue |-> <<>>, phase |-> "idle",
           got |-> NoItem,           \* what the receive buffer holds
           answers |-> <<>>,         \* promises of receives, as they are set
           closed |-> FALSE]         \* the promise of CloseRecv is set

Init ==
    /\ script \in Scripts
    /\ user = [p \in Side |-> [pc |-> "call", at |-> 1]]
    /\ closer = [p \in Side |-> "open"]
    /\ out = [p \in Side |-> NewOut]
    /\ inn = [p \in Side |-> NewIn]
    /\ wire = [p \in Side |-> <<>>]
    /\ sent = [p \in Side |-> <<>>]
    /\ asked = [p \in Side |-> 0]
    /\ aborted = [p \in Side |-> FALSE]

SetOut(p, o) == out' = [out EXCEPT ![p] = o]
SetIn(p, r)  == inn' = [inn EXCEPT ![p] = r]

Gone(p) == aborted[p] \/ closer[p] = "closed"

\* An exception that leaves a handler ends io_service::run and the program.
Abort(p) ==
    /\ aborted' = [aborted EXCEPT ![p] = TRUE]
    /\ UNCHANGED <<script, user, closer, out, inn, wire, sent, asked>>

-----------------------------------------------------------------------------
(* The calls of a user. *)

UserAt(p, pc) == /\ ~aborted[p]
                 /\ closer[p] # "closed"      \* the channel is deallocated
                 /\ user[p].pc = pc
                 /\ user[p].at <= Len(script[p])

NowCall(p) == script[p][user[p].at]
NextCall(u) == [pc |-> "call", at |-> u.at + 1]
IsSend(c)  == c.type \in {"send", "asyncSend"}
Waits(c)   == c.type \in {"send", "recv"}

\* mStopped, which close sets.
Stopped(p) == closer[p] # "open"

\* Every call first tests mStopped, and throws without a trace if it is set.
Begin(p) ==
    /\ UserAt(p, "call")
    /\ user' = [user EXCEPT ![p] = IF Stopped(p) THEN NextCall(@) ELSE [@ EXCEPT !.pc = "post"]]
    /\ UNCHANGED <<script, closer, out, inn, wire, sent, asked, aborted>>

AfterPost(p) ==
    user' = [user EXCEPT ![p] = IF Waits(NowCall(p)) THEN [@ EXCEPT !.pc = "wait"]
                                                     ELSE NextCall(@)]

\* dispatch, SendData: post to the send strand.
PostSend(p) ==
    LET c == NowCall(p) IN
    /\ UserAt(p, "post")
    /\ IsSend(c)
    /\ Cut(c.len) # 0
    /\ sent' = [sent EXCEPT ![p] = Append(@, c.len)]
    /\ SetOut(p, [out[p] EXCEPT !.strand = Append(@,
                    Operation("data", Len(sent[p]) + 1, Cut(c.len), c.type = "send"))])
    /\ AfterPost(p)
    /\ UNCHANGED <<script, closer, inn, wire, asked, aborted>>

\* dispatch, RecvData: post to the receive strand.
PostRecv(p) ==
    LET c == NowCall(p) IN
    /\ UserAt(p, "post")
    /\ ~IsSend(c)
    /\ Cut(c.len) # 0
    /\ asked' = [asked EXCEPT ![p] = @ + 1]
    /\ SetIn(p, [inn[p] EXCEPT !.strand = Append(@,
                    Operation("data", asked[p] + 1, Cut(c.len), c.type = "recv"))])
    /\ AfterPost(p)
    /\ UNCHANGED <<script, closer, out, wire, sent, aborted>>

\* dispatch throws on a size of zero.
Refuse(p) ==
    /\ UserAt(p, "post")
    /\ Cut(NowCall(p).len) = 0
    /\ user' = [user EXCEPT ![p] = NextCall(@)]
    /\ UNCHANGED <<script, closer, out, inn, wire, sent, asked, aborted>>

Answered(p, n) == \E i \in DOMAIN inn[p].answers : inn[p].answers[i].n = n

\* The future of a synchronous call is ready; recv passes an exception on to
\* its caller, which may catch it and use the channel again.
Return(p) ==
    /\ UserAt(p, "wait")
    /\ IF IsSend(NowCall(p)) THEN Len(sent[p]) \in out[p].returned
                             ELSE Answered(p, asked[p])
    /\ user' = [user EXCEPT ![p] = NextCall(@)]
    /\ UNCHANGED <<script, closer, out, inn, wire, sent, asked, aborted>>

-----------------------------------------------------------------------------
(* close. *)

UserDone(p) == user[p].at > Len(script[p])

Stop(p) ==
    /\ ~aborted[p]
    /\ closer[p] = "open"
    /\ CloseEarly \/ UserDone(p)
    /\ closer' = [closer EXCEPT ![p] = "stopped"]
    /\ UNCHANGED <<script, user, out, inn, wire, sent, asked, aborted>>

PostCloseRecv(p) ==
    /\ ~aborted[p]
    /\ closer[p] = "stopped"
    /\ closer' = [closer EXCEPT ![p] = "recvPosted"]
    /\ SetIn(p, [inn[p] EXCEPT !.strand = Append(@, CloseOp)])
    /\ UNCHANGED <<script, user, out, wire, sent, asked, aborted>>

PostCloseSend(p) ==
    /\ ~aborted[p]
    /\ closer[p] = "recvPosted"
    /\ closer' = [closer EXCEPT ![p] = "waiting"]
    /\ SetOut(p, [out[p] EXCEPT !.strand = Append(@, CloseOp)])
    /\ UNCHANGED <<script, user, inn, wire, sent, asked, aborted>>

\* Both promises are set: close the socket and deallocate the channel.
CloseSocket(p) ==
    /\ ~aborted[p]
    /\ closer[p] = "waiting"
    /\ inn[p].closed /\ out[p].closed
    /\ closer' = [closer EXCEPT ![p] = "closed"]
    /\ UNCHANGED <<script, user, out, inn, wire, sent, asked, aborted>>

-----------------------------------------------------------------------------
(* The send strand. *)

\* sendOne and receiveOne: start the operation at the front, or fulfil the
\* promise of a close that has reached the front.
Start(side) ==
    IF Head(side.queue).type = "close"
    THEN [side EXCEPT !.queue = Tail(@), !.closed = TRUE]
    ELSE [side EXCEPT !.phase = "header"]

PushInFront(side, op) ==                      \* fault: overtakes the queue
    [side EXCEPT !.queue = IF @ = <<>> THEN <<op>> ELSE <<Head(@), op>> \o Tail(@)]
Push(side, op) == [side EXCEPT !.queue = Append(@, op)]

StartIfAny(side)  == IF Len(side.queue) # 0 THEN Start(side) ELSE side
StartIfOnly(side) == IF Len(side.queue) = 1 THEN Start(side) ELSE side

CloseAtOnce(side, op) ==                      \* fault: close does not queue
    CASE op.type = "pop"   -> StartIfAny([side EXCEPT !.queue = Tail(@)])
      [] op.type = "close" -> [side EXCEPT !.closed = TRUE]
      [] op.type = "data"  -> StartIfOnly(Push(side, op))
PopOnly(side, op) ==                          \* fault: does not go on
    IF op.type = "pop" THEN [side EXCEPT !.queue = Tail(@)]
                       ELSE StartIfOnly(Push(side, op))
RunPosted(side, op) ==
    IF op.type = "pop" THEN StartIfAny([side EXCEPT !.queue = Tail(@)])
                       ELSE StartIfOnly(Push(side, op))

Larger(a, b) == IF a > b THEN a ELSE b

Count(o, len) == [o EXCEPT !.total = @ + len, !.outstanding = @ + len,
                           !.max = Larger(@, o.outstanding + len)]

RunSendStrand(p) ==
    LET o == out[p]  op == Head(o.strand) IN
    /\ ~aborted[p]
    /\ o.strand # <<>>
    /\ SetOut(p, RunPosted(Count([o EXCEPT !.strand = Tail(@)], op.len), op))
    /\ UNCHANGED <<script, user, closer, inn, wire, sent, asked, aborted>>

-----------------------------------------------------------------------------
(* The write of the operation at the front. *)

Writing(p, phase) == ~aborted[p] /\ out[p].phase = phase

\* The kernel takes the header, then the body.
TakenEarly(o, op, part) ==                    \* fault: done after the header
    [o EXCEPT !.phase = IF part = "header" THEN "body" ELSE "written",
              !.returned = IF op.sync THEN @ \cup {op.n} ELSE @]
Taken(o, op, part) ==
    [o EXCEPT !.phase = IF part = "header" THEN "body" ELSE "written"]

WritePart(p) ==
    LET op == Head(out[p].queue) IN
    \E part \in {"header", "body"} :
        /\ Writing(p, part)
        /\ Len(wire[Other(p)]) < Window
        /\ wire' = [wire EXCEPT ![Other(p)] = Append(@, Item(op.n, part, op.len))]
        /\ SetOut(p, Taken(out[p], op, part))
        /\ UNCHANGED <<script, user, closer, inn, sent, asked, aborted>>

\* The handler of async_write: free or hand back the buffer.
WrittenSync(o, op) ==                         \* fault: only if someone waits
    [o EXCEPT !.phase = "pop", !.outstanding = IF op.sync THEN @ - op.len ELSE @,
              !.returned = IF op.sync THEN @ \cup {op.n} ELSE @]
Written(o, op) ==
    [o EXCEPT !.phase = "pop", !.outstanding = @ - op.len,
              !.returned = IF op.sync THEN @ \cup {op.n} ELSE @]

WriteDone(p) ==
    /\ Writing(p, "written")
    /\ SetOut(p, Written(out[p], Head(out[p].queue)))
    /\ UNCHANGED <<script, user, closer, inn, wire, sent, asked, aborted>>

\* It then dispatches to the strand the handler that pops the operation.
WriteRequeue(p) ==
    /\ Writing(p, "pop")
    /\ SetOut(p, [out[p] EXCEPT !.phase = "idle", !.strand = Append(@, Pop)])
    /\ UNCHANGED <<script, user, closer, inn, wire, sent, asked, aborted>>

\* The peer's socket is gone: fewer bytes were written, the handler throws.
WriteFails(p) ==
    /\ \E part \in {"header", "body"} : Writing(p, part)
    /\ Gone(Other(p))
    /\ Abort(p)

-----------------------------------------------------------------------------
(* The receive strand and the read of the operation at the front. *)

RunRecvStrand(p) ==
    LET r == inn[p]  op == Head(r.strand) IN
    /\ ~aborted[p]
    /\ r.strand # <<>>
    /\ SetIn(p, RunPosted([r EXCEPT !.strand = Tail(@)], op))
    /\ UNCHANGED <<script, user, closer, out, wire, sent, asked, aborted>>

Reading(p, phase) == ~aborted[p] /\ inn[p].phase = phase

Arrives(p) == wire[p] # <<>> /\ wire' = [wire EXCEPT ![p] = Tail(@)]

AnswerAsked(op, item, ok) ==                  \* fault: the size asked for
    [n |-> op.n, msg |-> item.n, len |-> op.len, ok |-> ok]
Answer(op, item, ok) ==
    [n |-> op.n, msg |-> item.n, len |-> item.len, ok |-> ok]

\* The header has the size the buffer has, or the buffer takes that size.
Fits(op, item) == op.len \in {AnyLen, item.len}

\* A header of another size: fulfil the promise with BadReceiveBufferSize
\* and return.  The body stays unread and the operation in its queue.
Mismatch(r, op, item) ==
    [r EXCEPT !.phase = "stuck", !.answers = Append(@, Answer(op, item, FALSE))]

HeaderOnly(r) == [r EXCEPT !.phase = "read"]  \* fault: does not read the body
Sized(r)      == [r EXCEPT !.phase = "body"]

ReadHeader(p) ==
    LET r == inn[p]  op == Head(r.queue)  item == Head(wire[p]) IN
    /\ Reading(p, "header")
    /\ Arrives(p)
    /\ SetIn(p, IF Fits(op, item) THEN Sized(r) ELSE Mismatch(r, op, item))
    /\ UNCHANGED <<script, user, closer, out, sent, asked, aborted>>

ReadBody(p) ==
    /\ Reading(p, "body")
    /\ Arrives(p)
    /\ SetIn(p, [inn[p] EXCEPT !.phase = "read", !.got = Head(wire[p])])
    /\ UNCHANGED <<script, user, closer, out, sent, asked, aborted>>

\* The handler of the second async_read sets the promise, outside the strand.
ReadDone(p) ==
    LET r == inn[p] IN
    /\ Reading(p, "read")
    /\ SetIn(p, [r EXCEPT !.phase = "pop",
                          !.answers = Append(@, Answer(Head(r.queue), r.got, TRUE))])
    /\ UNCHANGED <<script, user, closer, out, wire, sent, asked, aborted>>

ReadRequeue(p) ==
    /\ Reading(p, "pop")
    /\ SetIn(p, [inn[p] EXCEPT !.phase = "idle", !.strand = Append(@, Pop)])
    /\ UNCHANGED <<script, user, closer, out, wire, sent, asked, aborted>>

InHeader(p)  == Reading(p, "header")          \* fault: a cut message is ignored
InMessage(p) == Reading(p, "header") \/ Reading(p, "body")

\* End of file or a reset connection: the handler throws.
ReadFails(p) ==
    /\ InMessage(p)
    /\ wire[p] = <<>>
    /\ Gone(Other(p))
    /\ Abort(p)

\* The program of p is killed or throws for a reason outside the channel.
Fail(p) == p \in MayFail /\ ~Gone(p) /\ Abort(p)

-----------------------------------------------------------------------------
UserStep(p)   == Begin(p) \/ PostSend(p) \/ PostRecv(p) \/ Refuse(p) \/ Return(p)
CloserStep(p) == Stop(p) \/ PostCloseRecv(p) \/ PostCloseSend(p) \/ CloseSocket(p)
WriteStep(p)  == WritePart(p) \/ WriteDone(p) \/ WriteRequeue(p) \/ WriteFails(p)
ReadStep(p)   == \/ ReadHeader(p) \/ ReadBody(p) \/ ReadDone(p)
                 \/ ReadRequeue(p) \/ ReadFails(p)

Next == \E p \in Side :
            \/ UserStep(p)
            \/ CloserStep(p)
            \/ RunSendStrand(p)
            \/ RunRecvStrand(p)
            \/ WriteStep(p)
            \/ ReadStep(p)
            \/ Fail(p)

\* Threads run when they can, io_service runs the handlers posted to it, the
\* kernel moves bytes and reports lost connections.  Nothing forces a Fail.
Fairness == \A p \in Side :
                /\ WF_vars(UserStep(p))
                /\ WF_vars(CloserStep(p))
                /\ WF_vars(RunSendStrand(p))
                /\ WF_vars(RunRecvStrand(p))
                /\ WF_vars(WriteStep(p))
                /\ WF_vars(ReadStep(p))

SafetySpec == Init /\ [][Next]_vars
Spec == SafetySpec /\ Fairness

-----------------------------------------------------------------------------
(* Type invariant. *)

OpType(lengths) == [type : {"data", "close", "pop"}, n : Nat, len : lengths,
                    sync : BOOLEAN]
SendOp   == OpType(Nat)
RecvOp   == OpType(Nat \cup {AnyLen})
ItemType == [n : Nat, part : {"header", "body"}, len : Nat]
OutType  == [strand : Seq(SendOp), queue : Seq(SendOp),
             phase : {"idle", "header", "body", "written", "pop"},
             returned : SUBSET Nat, closed : BOOLEAN,
             total : Int, outstanding : Int, max : Int]
InType   == [strand : Seq(RecvOp), queue : Seq(RecvOp),
             phase : {"idle", "header", "body", "read", "pop", "stuck"},
             got : ItemType,
             answers : Seq([n : Nat, msg : Nat, len : Nat, ok : BOOLEAN]),
             closed : BOOLEAN]

\* Every variable keeps its type: the state is one the C++ objects can be in.
\* The counters are integers here; OutstandingExact says what they are.
TypeOK ==
    /\ script \in [Side -> Seq(Call)]
    /\ user \in [Side -> [pc : {"call", "post", "wait"}, at : Nat]]
    /\ closer \in [Side -> {"open", "stopped", "recvPosted", "waiting", "closed"}]
    /\ out \in [Side -> OutType]
    /\ inn \in [Side -> InType]
    /\ wire \in [Side -> Seq(ItemType)]
    /\ sent \in [Side -> Seq(Nat)]
    /\ asked \in [Side -> Nat]
    /\ aborted \in [Side -> BOOLEAN]

-----------------------------------------------------------------------------
(* Safety. *)

\* While a strand's queue has operations, exactly one thing will make it move:
\* the read or write in progress or one posted pop; an empty queue has none.
\* Without the former the queue sleeps for ever, with two of them two reads
\* are under way on one socket.
Pops(side) == {i \in DOMAIN side.strand : side.strand[i].type = "pop"}

Driven(side) ==
    Cardinality(Pops(side)) + (IF side.phase = "idle" THEN 0 ELSE 1)
        = IF side.queue = <<>> THEN 0 ELSE 1

OneDriver == \A p \in Side : Driven(out[p]) /\ Driven(inn[p])

\* Promises are set outside the strand, yet the n'th receive is answered n'th
\* and holds the peer's n'th message, with every byte its sender passed to the
\* channel if it succeeds; and a pending read of a header is given a header,
\* that of a body its body.
InOrder ==
    \A p \in Side :
        /\ \A i \in DOMAIN inn[p].answers :
            LET a == inn[p].answers[i] IN
            /\ a.n = i /\ a.msg = i
            /\ a.ok => a.len = sent[Other(p)][i]
        /\ \A part \in {"header", "body"} :
            inn[p].phase = part /\ wire[p] # <<>> => Head(wire[p]).part = part

\* When a synchronous send has returned nothing reads its buffer any more:
\* the operation is not waiting in the queue and is not being written.
BufferReleased ==
    \A p \in Side : \A n \in out[p].returned :
        /\ \A i \in 2..Len(out[p].queue) : out[p].queue[i].n # n
        /\ out[p].phase \in {"header", "body"} => Head(out[p].queue).n # n

\* The outstanding bytes are those of the queued operations that are not yet
\* written, although they are added in the strand and subtracted outside it:
\* the unsigned counter never wraps.
Bytes(queue) ==
    LET sum[k \in 0..Len(queue)] == IF k = 0 THEN 0 ELSE sum[k-1] + queue[k].len
    IN  sum[Len(queue)]

OutstandingExact ==
    \A p \in Side :
        LET o == out[p] IN
        /\ o.outstanding = IF o.phase \in {"header", "body", "written"}
                           THEN Bytes(o.queue)
                           ELSE Bytes(o.queue) - IF o.queue = <<>> THEN 0
                                                 ELSE Head(o.queue).len
        /\ o.outstanding <= o.max /\ o.max <= o.total

\* "ok, the send and recv queues are empty": a handler, a read, a write or a
\* call that is still to come would touch a deallocated socket.
SocketUnused ==
    \A p \in Side : closer[p] = "closed" =>
        /\ user[p].pc = "call"
        /\ out[p].strand = <<>> /\ out[p].queue = <<>> /\ out[p].phase = "idle"
        /\ inn[p].strand = <<>> /\ inn[p].queue = <<>> /\ inn[p].phase = "idle"

\* Two sides that receive what the other sends can close when they like: no
\* read or write of the other is cut off.
NeverAborts == \A p \in Side : ~aborted[p]

-----------------------------------------------------------------------------
(* Liveness and refinement. *)

Position == UNION {1..Len(s[p]) : s \in Scripts, p \in Side}
Lengths  == UNION {{s[p][i].len : i \in DOMAIN s[p]} : s \in Scripts, p \in Side}

\* A receive whose message was sent is answered, with the message or with an
\* exception.
AllAnswered ==
    \A p \in Side, n \in Position :
        asked[p] >= n /\ Len(sent[Other(p)]) >= n ~> Answered(p, n)

\* Unless a program fails, close returns on both sides.
BothClose == <>((\A p \in Side : closer[p] = "closed") \/ (\E p \in Side : aborted[p]))

\* A side never waits for ever on a peer whose program has ended.
FailTogether ==
    \A p \in Side : aborted[p] ~> aborted[Other(p)] \/ closer[Other(p)] = "closed"

Pipe == INSTANCE FifoPipe WITH
    Message   <- [n : Position, len : Lengths],
    sent      <- [p \in Side |-> [i \in DOMAIN sent[p] |-> [n |-> i, len |-> sent[p][i]]]],
    delivered <- [p \in Side |-> [i \in DOMAIN inn[p].answers |->
                    [n |-> inn[p].answers[i].msg, len |-> inn[p].answers[i].len]]]

\* The queues, strands and handlers implement a FIFO pipe, also when a program fails.
PipeSafety == Pipe!Init /\ [][Pipe!Next]_Pipe!vars

=============================================================================
