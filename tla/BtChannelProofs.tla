-------------------------- MODULE BtChannelProofs ---------------------------
(***************************************************************************)
(* What is proved of BtChannel for every use of the channel (Scripts),     *)
(* every window of the kernel and every choice of the sides that may fail: *)
(*                                                                         *)
(*   TypeCorrect      every variable keeps its type, close early or not    *)
(*   QueuesDriven     a strand's queue never sleeps and never runs twice   *)
(*   SocketFree       nothing uses the channel that close has deallocated  *)
(*   AnsweredInOrder  the n'th receive gets the n'th message, whole        *)
(*   BuffersReleased  send returns when its buffer is no longer read       *)
(*   BytesCounted     the unsigned count of outstanding bytes is exact     *)
(*   NoneCutOff       matched programs close without cutting a peer off    *)
(*   ImplementsPipe   all of this is a FIFO pipe to the two users          *)
(*                                                                         *)
(* The first rests on TypeInv.  QueuesDriven, SocketFree, BytesCounted and *)
(* NoneCutOff need a close that waits for its user, and rest on TypeInv    *)
(* and OrderInv; BytesCounted adds ByteInv, the bytes of a queue's         *)
(* operations, and NoneCutOff FlowInv and CountInv, how many of its calls  *)
(* a program has made.  The others need no such close: they rest on        *)
(* TypeInv, on FlowInv, which numbers what is in the queues, in the        *)
(* strands and on the wire, and, those that tell of lengths, on SentInv    *)
(* and on messages whose length a header of 32 bits can say.               *)
(***************************************************************************)
EXTENDS BtChannel, FiniteSetTheorems, SequenceTheorems, TLAPS

\* NatSetInduction, of natural numbers, is proved there.
Nats == INSTANCE RandSubset

(***************************************************************************)
(* What moves a queue.  A strand's queue is driven by the read or write in *)
(* progress (its phase is not idle) or by one posted pop, never by two.    *)
(***************************************************************************)
NoPop(strand)  == \A i \in DOMAIN strand : strand[i].type # "pop"
OnePop(strand) ==
    \E i \in DOMAIN strand :
        /\ strand[i].type = "pop"
        /\ \A j \in DOMAIN strand : strand[j].type = "pop" => j = i

AtMostOne(strand, queue, phase) ==
    /\ queue = <<>> => phase = "idle"
    /\ queue = <<>> \/ phase # "idle" => NoPop(strand)
    /\ NoPop(strand) \/ OnePop(strand)
    /\ NoPop(queue)

NotTwice(side) == AtMostOne(side.strand, side.queue, side.phase)

\* A handler taken from the strand may run: a pop finds a finished operation.
MayRun(strand, queue, phase, op) ==
    IF op.type = "pop"
    THEN queue # <<>> /\ phase = "idle" /\ NoPop(strand) /\ NoPop(queue)
    ELSE AtMostOne(strand, queue, phase)

OutInv  == out \in [Side -> OutType] /\ \A p \in Side : NotTwice(out[p])
InInv   == inn \in [Side -> InType] /\ \A p \in Side : NotTwice(inn[p])
RestInv ==
    /\ script \in [Side -> Seq(Call)]
    /\ user \in [Side -> [pc : {"call", "post", "wait"}, at : Nat \ {0}]]
    /\ closer \in [Side -> {"open", "stopped", "recvPosted", "waiting", "closed"}]
    /\ wire \in [Side -> Seq(ItemType)]
    /\ sent \in [Side -> Seq(Nat)]
    /\ asked \in [Side -> Nat]
    /\ aborted \in [Side -> BOOLEAN]

\* Stronger than TypeOK because an operation that is being read or written
\* must be there: the front of an empty queue has no type.
TypeInv == RestInv /\ OutInv /\ InInv

\* A sequence without its head.
LEMMA TailFacts ==
    ASSUME NEW S, NEW s \in Seq(S), s # <<>>
    PROVE  /\ Head(s) \in S /\ Head(s) = s[1] /\ 1 \in DOMAIN s
           /\ Tail(s) \in Seq(S)
           /\ Len(s) \in Nat /\ Len(Tail(s)) = Len(s) - 1
           /\ DOMAIN s = 1..Len(s) /\ DOMAIN Tail(s) = 1..Len(s)-1
           /\ \A i \in 1..Len(s)-1 : Tail(s)[i] = s[i + 1]
  OBVIOUS

\* A sequence with one element more.
LEMMA AppendFacts ==
    ASSUME NEW S, NEW s \in Seq(S), NEW e \in S
    PROVE  /\ Append(s, e) \in Seq(S) /\ Append(s, e) # <<>>
           /\ Len(s) \in Nat /\ Len(Append(s, e)) = Len(s) + 1
           /\ DOMAIN s = 1..Len(s) /\ DOMAIN Append(s, e) = 1..Len(s)+1
           /\ \A i \in 1..Len(s) : Append(s, e)[i] = s[i]
           /\ Append(s, e)[Len(s) + 1] = e
  OBVIOUS

\* Len(queue) != 0 is the test that the queue has an operation.
LEMMA EmptyIsLen0 ==
    ASSUME NEW S, NEW s \in Seq(S)
    PROVE  s = <<>> <=> Len(s) = 0
  OBVIOUS

\* Taking the front of a strand removes its pop, or leaves it there.
LEMMA PopLeaves ==
    ASSUME NEW S, NEW s \in Seq(S), s # <<>>, NoPop(s) \/ OnePop(s)
    PROVE  /\ Head(s).type = "pop" => NoPop(Tail(s)) /\ OnePop(s)
           /\ Head(s).type # "pop" /\ NoPop(s) => NoPop(Tail(s))
           /\ NoPop(Tail(s)) \/ OnePop(Tail(s))
  <1>1. /\ Head(s) = s[1] /\ 1 \in DOMAIN s
        /\ Len(s) \in Nat
        /\ DOMAIN s = 1..Len(s) /\ DOMAIN Tail(s) = 1..Len(s)-1
        /\ \A i \in 1..Len(s)-1 : Tail(s)[i] = s[i + 1]
    BY TailFacts
  <1>2. ASSUME NoPop(s)
        PROVE  NoPop(Tail(s))
    BY <1>1, <1>2 DEF NoPop
  <1>3. ASSUME OnePop(s), Head(s).type = "pop"
        PROVE  NoPop(Tail(s))
    BY <1>1, <1>3 DEF NoPop, OnePop
  <1>4. ASSUME OnePop(s), Head(s).type # "pop"
        PROVE  OnePop(Tail(s))
    <2>1. PICK i \in DOMAIN s : /\ s[i].type = "pop"
                                /\ \A j \in DOMAIN s : s[j].type = "pop" => j = i
      BY <1>4 DEF OnePop
    <2>2. i - 1 \in DOMAIN Tail(s)
      BY <1>1, <1>4, <2>1
    <2>3. Tail(s)[i - 1].type = "pop"
      BY <1>1, <2>1, <2>2
    <2>4. ASSUME NEW j \in DOMAIN Tail(s), Tail(s)[j].type = "pop"
          PROVE  j = i - 1
      BY <1>1, <2>1, <2>4
    <2> QED BY <2>2, <2>3, <2>4 DEF OnePop
  <1>5. ASSUME NoPop(s)
        PROVE  Head(s).type # "pop"
    BY <1>1, <1>5 DEF NoPop
  <1> QED BY <1>2, <1>3, <1>4, <1>5

\* Posting to a strand adds a pop only if a pop is posted.
LEMMA PopJoins ==
    ASSUME NEW S, NEW s \in Seq(S), NEW e \in S
    PROVE  /\ e.type # "pop" /\ NoPop(s) => NoPop(Append(s, e))
           /\ e.type # "pop" /\ OnePop(s) => OnePop(Append(s, e))
           /\ e.type = "pop" /\ NoPop(s) => OnePop(Append(s, e))
  <1> DEFINE t == Append(s, e)
  <1>1. /\ Len(s) \in Nat /\ DOMAIN s = 1..Len(s) /\ DOMAIN t = 1..Len(s)+1
        /\ \A i \in 1..Len(s) : t[i] = s[i]
        /\ t[Len(s) + 1] = e
    BY AppendFacts
  <1> HIDE DEF t
  <1>2. ASSUME e.type # "pop", NoPop(s)
        PROVE  NoPop(t)
    <2> SUFFICES ASSUME NEW i \in 1..Len(s)+1
                 PROVE  t[i].type # "pop"
      BY <1>1 DEF NoPop
    <2>1. CASE i = Len(s) + 1
      BY <2>1, <1>1, <1>2
    <2>2. CASE i \in 1..Len(s)
      BY <2>2, <1>1, <1>2 DEF NoPop
    <2> QED BY <2>1, <2>2, <1>1
  <1>3. ASSUME e.type # "pop", OnePop(s)
        PROVE  OnePop(t)
    <2>1. PICK i \in DOMAIN s : /\ s[i].type = "pop"
                                /\ \A j \in DOMAIN s : s[j].type = "pop" => j = i
      BY <1>3 DEF OnePop
    <2>2. i \in DOMAIN t /\ t[i].type = "pop"
      BY <1>1, <2>1
    <2>3. ASSUME NEW j \in DOMAIN t, t[j].type = "pop"
          PROVE  j = i
      BY <1>1, <1>3, <2>1, <2>3
    <2> QED BY <2>2, <2>3 DEF OnePop
  <1>4. ASSUME e.type = "pop", NoPop(s)
        PROVE  OnePop(t)
    <2>1. Len(s) + 1 \in DOMAIN t /\ t[Len(s) + 1].type = "pop"
      BY <1>1, <1>4
    <2>2. ASSUME NEW j \in DOMAIN t, t[j].type = "pop"
          PROVE  j = Len(s) + 1
      BY <1>1, <1>4, <2>2 DEF NoPop
    <2> QED BY <2>1, <2>2 DEF OnePop
  <1> QED BY <1>2, <1>3, <1>4 DEF t

-----------------------------------------------------------------------------
(* One handler of a strand. *)

\* The queue once op is pushed or the front is popped, and what comes of it.
Changed(queue, op) == IF op.type = "pop" THEN Tail(queue) ELSE Append(queue, op)
Starts(queue, op)  == IF op.type = "pop" THEN Changed(queue, op) # <<>> ELSE queue = <<>>
Closes(queue, op)  == Starts(queue, op) /\ Head(Changed(queue, op)).type = "close"

Ran(side, op) ==
    [side EXCEPT !.queue = IF Closes(side.queue, op) THEN Tail(Changed(side.queue, op))
                                                     ELSE Changed(side.queue, op),
                 !.phase = IF Starts(side.queue, op) /\ ~Closes(side.queue, op)
                           THEN "header" ELSE side.phase,
                 !.closed = IF Closes(side.queue, op) THEN TRUE ELSE side.closed]

\* The queue a handler leaves, and its length when it starts an operation.
LEMMA ChangedType ==
    ASSUME NEW S, NEW q \in Seq(S), NEW op \in S,
           op.type = "pop" => q # <<>>
    PROVE  /\ Changed(q, op) \in Seq(S)
           /\ Starts(q, op) <=> IF op.type = "pop" THEN Len(Changed(q, op)) # 0
                                                   ELSE Len(Changed(q, op)) = 1
           /\ Starts(q, op) => Changed(q, op) # <<>> /\ Tail(Changed(q, op)) \in Seq(S)
  <1>1. CASE op.type = "pop"
    <2>1. Changed(q, op) = Tail(q)
      BY <1>1 DEF Changed
    <2>2. Tail(q) \in Seq(S)
      BY <1>1
    <2>3. (Tail(q) # <<>>) <=> (Len(Tail(q)) # 0)
      BY <2>2, EmptyIsLen0
    <2> QED BY <1>1, <2>1, <2>2, <2>3 DEF Starts
  <1>2. CASE op.type # "pop"
    <2>1. Changed(q, op) = Append(q, op)
      BY <1>2 DEF Changed
    <2>2. Append(q, op) \in Seq(S) /\ Append(q, op) # <<>> /\ Len(Append(q, op)) = Len(q) + 1
      BY AppendFacts
    <2>3. (q = <<>>) <=> (Len(q) = 0)
      OBVIOUS
    <2>4. Len(q) \in Nat
      OBVIOUS
    <2>5. Tail(Append(q, op)) \in Seq(S)
      BY <2>2
    <2> QED BY <1>2, <2>1, <2>2, <2>3, <2>4, <2>5 DEF Starts
  <1> QED BY <1>1, <1>2

\* On the send strand RunPosted is Ran: its length tests are tests for emptiness.
LEMMA RunOut ==
    ASSUME NEW o \in OutType, NEW op \in SendOp, op.type = "pop" => o.queue # <<>>
    PROVE  RunPosted(o, op) = Ran(o, op) /\ Ran(o, op) \in OutType
  <1> DEFINE q == Changed(o.queue, op)
             m == [o EXCEPT !.queue = q]
  <1>1. o.queue \in Seq(SendOp)
    BY DEF OutType
  <1>2. /\ q \in Seq(SendOp)
        /\ Starts(o.queue, op) <=> IF op.type = "pop" THEN Len(q) # 0 ELSE Len(q) = 1
        /\ Starts(o.queue, op) => Tail(q) \in Seq(SendOp)
    BY <1>1, ChangedType
  <1>3. m \in OutType /\ m.queue = q /\ m.phase = o.phase /\ m.closed = o.closed
    BY <1>2 DEF OutType
  <1>4. RunPosted(o, op) = IF Starts(o.queue, op) THEN Start(m) ELSE m
    <2>1. CASE op.type = "pop"
      BY <2>1, <1>2, <1>3 DEF RunPosted, StartIfAny, Changed
    <2>2. CASE op.type # "pop"
      BY <2>2, <1>2, <1>3 DEF RunPosted, StartIfOnly, Push, Changed
    <2> QED BY <2>1, <2>2
  <1> HIDE DEF q
  <1>5. CASE ~Starts(o.queue, op)
    <2>0. ~Closes(o.queue, op)
      BY <1>5 DEF Closes
    <2>1. Ran(o, op) = [o EXCEPT !.queue = q, !.phase = o.phase, !.closed = o.closed]
      BY <2>0, <1>5 DEF Ran, q
    <2>2. [o EXCEPT !.queue = q, !.phase = o.phase, !.closed = o.closed]
            = [o EXCEPT !.queue = q]
      BY <1>2 DEF OutType
    <2>3. Ran(o, op) = m /\ m \in OutType
      BY <2>1, <2>2, <1>3
    <2> QED BY <2>3, <1>4, <1>5
  <1>6. CASE Closes(o.queue, op)
    <2>1. Ran(o, op) = [o EXCEPT !.queue = Tail(q), !.phase = o.phase, !.closed = TRUE]
      BY <1>6 DEF Ran, Closes, q
    <2>2. Start(m) = [m EXCEPT !.queue = Tail(q), !.closed = TRUE]
      BY <1>6, <1>3 DEF Start, Closes, q
    <2>t. Tail(q) \in Seq(SendOp)
      BY <1>2, <1>6 DEF Closes
    <2>3. Start(m) = Ran(o, op) /\ Ran(o, op) \in OutType
      BY <2>1, <2>2, <2>t DEF OutType
    <2> QED BY <2>3, <1>4, <1>6 DEF Closes
  <1>7. CASE Starts(o.queue, op) /\ ~Closes(o.queue, op)
    <2>1. Ran(o, op) = [o EXCEPT !.queue = q, !.phase = "header", !.closed = o.closed]
      BY <1>7 DEF Ran, q
    <2>2. Start(m) = [m EXCEPT !.phase = "header"]
      BY <1>7, <1>3 DEF Start, Closes, q
    <2>3. Start(m) = Ran(o, op) /\ Ran(o, op) \in OutType
      BY <2>1, <2>2, <1>2 DEF OutType
    <2> QED BY <2>3, <1>4, <1>7
  <1> QED BY <1>5, <1>6, <1>7 DEF Closes

\* The same on the receive strand.
LEMMA RunIn ==
    ASSUME NEW r \in InType, NEW op \in RecvOp, op.type = "pop" => r.queue # <<>>
    PROVE  RunPosted(r, op) = Ran(r, op) /\ Ran(r, op) \in InType
  <1> DEFINE q == Changed(r.queue, op)
             m == [r EXCEPT !.queue = q]
  <1>1. r.queue \in Seq(RecvOp)
    BY DEF InType
  <1>2. /\ q \in Seq(RecvOp)
        /\ Starts(r.queue, op) <=> IF op.type = "pop" THEN Len(q) # 0 ELSE Len(q) = 1
        /\ Starts(r.queue, op) => Tail(q) \in Seq(RecvOp)
    BY <1>1, ChangedType
  <1>3. m \in InType /\ m.queue = q /\ m.phase = r.phase /\ m.closed = r.closed
    BY <1>2 DEF InType
  <1>4. RunPosted(r, op) = IF Starts(r.queue, op) THEN Start(m) ELSE m
    <2>1. CASE op.type = "pop"
      BY <2>1, <1>2, <1>3 DEF RunPosted, StartIfAny, Changed
    <2>2. CASE op.type # "pop"
      BY <2>2, <1>2, <1>3 DEF RunPosted, StartIfOnly, Push, Changed
    <2> QED BY <2>1, <2>2
  <1> HIDE DEF q
  <1>5. CASE ~Starts(r.queue, op)
    <2>0. ~Closes(r.queue, op)
      BY <1>5 DEF Closes
    <2>1. Ran(r, op) = [r EXCEPT !.queue = q, !.phase = r.phase, !.closed = r.closed]
      BY <2>0, <1>5 DEF Ran, q
    <2>2. [r EXCEPT !.queue = q, !.phase = r.phase, !.closed = r.closed]
            = [r EXCEPT !.queue = q]
      BY <1>2 DEF InType
    <2>3. Ran(r, op) = m /\ m \in InType
      BY <2>1, <2>2, <1>3
    <2> QED BY <2>3, <1>4, <1>5
  <1>6. CASE Closes(r.queue, op)
    <2>1. Ran(r, op) = [r EXCEPT !.queue = Tail(q), !.phase = r.phase, !.closed = TRUE]
      BY <1>6 DEF Ran, Closes, q
    <2>2. Start(m) = [m EXCEPT !.queue = Tail(q), !.closed = TRUE]
      BY <1>6, <1>3 DEF Start, Closes, q
    <2>3. Start(m) = Ran(r, op) /\ Ran(r, op) \in InType
      BY <2>1, <2>2, <1>2, <1>6 DEF InType, Closes
    <2> QED BY <2>3, <1>4, <1>6 DEF Closes
  <1>7. CASE Starts(r.queue, op) /\ ~Closes(r.queue, op)
    <2>1. Ran(r, op) = [r EXCEPT !.queue = q, !.phase = "header", !.closed = r.closed]
      BY <1>7 DEF Ran, q
    <2>2. Start(m) = [m EXCEPT !.phase = "header"]
      BY <1>7, <1>3 DEF Start, Closes, q
    <2>3. Start(m) = Ran(r, op) /\ Ran(r, op) \in InType
      BY <2>1, <2>2, <1>2 DEF InType
    <2> QED BY <2>3, <1>4, <1>7
  <1> QED BY <1>5, <1>6, <1>7 DEF Closes

\* A handler that may run leaves at most one thing that moves the queue.
LEMMA RunKeepsDriver ==
    ASSUME NEW S, NEW strand \in Seq(S), NEW queue \in Seq(S), NEW op \in S,
           NEW phase, NEW phase2,
           MayRun(strand, queue, phase, op),
           NEW queue2,
           queue2 = IF Closes(queue, op) THEN Tail(Changed(queue, op)) ELSE Changed(queue, op),
           phase2 = IF Starts(queue, op) /\ ~Closes(queue, op) THEN "header" ELSE phase
    PROVE  AtMostOne(strand, queue2, phase2)
  <1> USE DEF MayRun, AtMostOne
  <1> DEFINE q == Changed(queue, op)
  <1>1. /\ q \in Seq(S)
        /\ Starts(queue, op) => q # <<>> /\ Tail(q) \in Seq(S)
    BY ChangedType
  <1>2. NoPop(q)
    <2>1. CASE op.type = "pop"
      BY <2>1, PopLeaves DEF Changed
    <2>2. CASE op.type # "pop"
      BY <2>2, PopJoins DEF Changed
    <2> QED BY <2>1, <2>2
  <1>3. NoPop(queue2)
    <2>1. CASE Closes(queue, op)
      <3>1. q # <<>> /\ Head(q).type # "pop"
        BY <2>1, <1>1 DEF Closes
      <3>2. NoPop(Tail(q))
        BY <3>1, <1>1, <1>2, PopLeaves
      <3> QED BY <3>2, <2>1
    <2>2. CASE ~Closes(queue, op)
      BY <2>2, <1>2
    <2> QED BY <2>1, <2>2
  <1>4. CASE op.type = "pop"
    <2>1. q = <<>> => ~Starts(queue, op)
      BY <1>4 DEF Starts
    <2>2. queue2 = <<>> => phase2 = "idle"
      BY <2>1, <1>4 DEF Closes
    <2> QED BY <2>2, <1>3, <1>4
  <1>5. CASE op.type # "pop" /\ queue = <<>>
    <2>1. phase = "idle" /\ NoPop(strand) /\ Starts(queue, op) /\ q # <<>>
      BY <1>5, <1>1 DEF Starts
    <2>2. queue2 = <<>> => phase2 = "idle"
      BY <2>1
    <2> QED BY <2>1, <2>2, <1>3
  <1>6. CASE op.type # "pop" /\ queue # <<>>
    <2>1. ~Starts(queue, op) /\ ~Closes(queue, op)
      BY <1>6 DEF Starts, Closes
    <2>2. q # <<>>
      BY <1>6, AppendFacts DEF Changed
    <2> QED BY <2>1, <2>2, <1>3, <1>6
  <1> QED BY <1>4, <1>5, <1>6

-----------------------------------------------------------------------------
(* The edits the actions make to a side of a socket. *)

\* A send half of the right type keeps OutInv.
LEMMA SetOutInv ==
    ASSUME OutInv, NEW p \in Side, NEW o \in OutType, NotTwice(o), SetOut(p, o)
    PROVE  OutInv'
  BY DEF OutInv, SetOut, NotTwice, AtMostOne, NoPop, OnePop

\* A receive half of the right type keeps InInv.
LEMMA SetInInv ==
    ASSUME InInv, NEW p \in Side, NEW r \in InType, NotTwice(r), SetIn(p, r)
    PROVE  InInv'
  BY DEF InInv, SetIn, NotTwice, AtMostOne, NoPop, OnePop

\* A step that leaves the send halves alone.
LEMMA OutSame == ASSUME OutInv, UNCHANGED out PROVE OutInv'
  BY DEF OutInv, NotTwice, AtMostOne, NoPop, OnePop

\* A step that leaves the receive halves alone.
LEMMA InSame == ASSUME InInv, UNCHANGED inn PROVE InInv'
  BY DEF InInv, NotTwice, AtMostOne, NoPop, OnePop

\* An operation is posted to a strand; the driver, if any, stays the same.
LEMMA PostDriver ==
    ASSUME NEW S, NEW strand \in Seq(S), NEW queue, NEW phase, NEW op \in S,
           op.type # "pop", AtMostOne(strand, queue, phase)
    PROVE  AtMostOne(Append(strand, op), queue, phase)
  BY PopJoins DEF AtMostOne

\* The handler at the front of a strand may run.
LEMMA HeadMayRun ==
    ASSUME NEW S, NEW strand \in Seq(S), strand # <<>>, NEW queue, NEW phase,
           AtMostOne(strand, queue, phase)
    PROVE  MayRun(Tail(strand), queue, phase, Head(strand))
  <1>1. CASE Head(strand).type = "pop"
    <2>1. NoPop(Tail(strand)) /\ OnePop(strand)
      BY <1>1, PopLeaves DEF AtMostOne
    <2>2. ~NoPop(strand)
      BY <2>1 DEF OnePop, NoPop
    <2> QED BY <1>1, <2>1, <2>2 DEF AtMostOne, MayRun
  <1>2. CASE Head(strand).type # "pop"
    BY <1>2, PopLeaves DEF AtMostOne, MayRun
  <1> QED BY <1>1, <1>2

\* A send, or close, is posted: the type and the driver stay.
LEMMA PostOut ==
    ASSUME NEW o \in OutType, NotTwice(o), NEW op \in SendOp, op.type # "pop"
    PROVE  LET n == [o EXCEPT !.strand = Append(@, op)] IN n \in OutType /\ NotTwice(n)
  <1> DEFINE n == [o EXCEPT !.strand = Append(@, op)]
  <1>1. o.strand \in Seq(SendOp)
    BY DEF OutType
  <1>2. Append(o.strand, op) \in Seq(SendOp)
    BY <1>1, AppendFacts
  <1>3. /\ n \in OutType /\ n.strand = Append(o.strand, op)
        /\ n.queue = o.queue /\ n.phase = o.phase
    BY <1>2 DEF OutType
  <1>4. AtMostOne(Append(o.strand, op), o.queue, o.phase)
    BY <1>1, PostDriver DEF NotTwice
  <1>5. NotTwice(n)
    BY <1>3, <1>4 DEF NotTwice
  <1> QED BY <1>3, <1>5

\* A receive, or close, is posted: the type and the driver stay.
LEMMA PostIn ==
    ASSUME NEW r \in InType, NotTwice(r), NEW op \in RecvOp, op.type # "pop"
    PROVE  LET n == [r EXCEPT !.strand = Append(@, op)] IN n \in InType /\ NotTwice(n)
  <1> DEFINE n == [r EXCEPT !.strand = Append(@, op)]
  <1>1. r.strand \in Seq(RecvOp)
    BY DEF InType
  <1>2. Append(r.strand, op) \in Seq(RecvOp)
    BY <1>1, AppendFacts
  <1>3. /\ n \in InType /\ n.strand = Append(r.strand, op)
        /\ n.queue = r.queue /\ n.phase = r.phase
    BY <1>2 DEF InType
  <1>4. AtMostOne(Append(r.strand, op), r.queue, r.phase)
    BY <1>1, PostDriver DEF NotTwice
  <1>5. NotTwice(n)
    BY <1>3, <1>4 DEF NotTwice
  <1> QED BY <1>3, <1>5

\* The operations the code makes have the types of the strands.
LEMMA OpsType ==
    /\ CloseOp \in SendOp /\ CloseOp \in RecvOp /\ CloseOp.type = "close"
    /\ Pop \in SendOp /\ Pop \in RecvOp /\ Pop.type = "pop"
    /\ \A n \in Nat, sync \in BOOLEAN :
        /\ \A len \in Nat : Operation("data", n, len, sync) \in SendOp
        /\ \A len \in Nat \cup {AnyLen} : Operation("data", n, len, sync) \in RecvOp
        /\ \A len : Operation("data", n, len, sync).type = "data"
  BY DEF CloseOp, Pop, Operation, SendOp, RecvOp, OpType

\* When a read or write is over its operation is popped by a new handler.
LEMMA RequeueOut ==
    ASSUME NEW o \in OutType, NotTwice(o), o.phase # "idle"
    PROVE  LET n == [o EXCEPT !.phase = "idle", !.strand = Append(@, Pop)]
           IN  n \in OutType /\ NotTwice(n)
  <1> DEFINE n == [o EXCEPT !.phase = "idle", !.strand = Append(@, Pop)]
  <1>1. o.strand \in Seq(SendOp)
    BY DEF OutType
  <1>2. Append(o.strand, Pop) \in Seq(SendOp) /\ OnePop(Append(o.strand, Pop))
    BY <1>1, OpsType, AppendFacts, PopJoins DEF NotTwice, AtMostOne
  <1>3. /\ n \in OutType /\ n.strand = Append(o.strand, Pop)
        /\ n.queue = o.queue /\ n.phase = "idle" /\ o.queue # <<>>
    BY <1>2 DEF OutType, NotTwice, AtMostOne
  <1>4. NotTwice(n)
    BY <1>2, <1>3 DEF NotTwice, AtMostOne
  <1> QED BY <1>3, <1>4

\* The same of a read that is over.
LEMMA RequeueIn ==
    ASSUME NEW r \in InType, NotTwice(r), r.phase # "idle"
    PROVE  LET n == [r EXCEPT !.phase = "idle", !.strand = Append(@, Pop)]
           IN  n \in InType /\ NotTwice(n)
  <1> DEFINE n == [r EXCEPT !.phase = "idle", !.strand = Append(@, Pop)]
  <1>1. r.strand \in Seq(RecvOp)
    BY DEF InType
  <1>2. Append(r.strand, Pop) \in Seq(RecvOp) /\ OnePop(Append(r.strand, Pop))
    BY <1>1, OpsType, AppendFacts, PopJoins DEF NotTwice, AtMostOne
  <1>3. /\ n \in InType /\ n.strand = Append(r.strand, Pop)
        /\ n.queue = r.queue /\ n.phase = "idle" /\ r.queue # <<>>
    BY <1>2 DEF InType, NotTwice, AtMostOne
  <1>4. NotTwice(n)
    BY <1>2, <1>3 DEF NotTwice, AtMostOne
  <1> QED BY <1>3, <1>4

\* What the handler of a strand leaves.
LEMMA RunOutInv ==
    ASSUME NEW o \in OutType, NotTwice(o), o.strand # <<>>
    PROVE  LET op == Head(o.strand)
               n  == RunPosted(Count([o EXCEPT !.strand = Tail(@)], op.len), op)
           IN  /\ n \in OutType /\ NotTwice(n)
               /\ n.strand = Tail(o.strand)
               /\ n.queue = IF Closes(o.queue, op) THEN Tail(Changed(o.queue, op))
                                                   ELSE Changed(o.queue, op)
               /\ n.phase = IF Starts(o.queue, op) /\ ~Closes(o.queue, op)
                            THEN "header" ELSE o.phase
               /\ n.closed = IF Closes(o.queue, op) THEN TRUE ELSE o.closed
               /\ n.returned = o.returned
  <1> DEFINE op == Head(o.strand)
             c  == Count([o EXCEPT !.strand = Tail(@)], op.len)
             n  == RunPosted(c, op)
  <1>1. o.strand \in Seq(SendOp) /\ o.queue \in Seq(SendOp)
    BY DEF OutType
  <1>2. op \in SendOp /\ Tail(o.strand) \in Seq(SendOp) /\ op.len \in Nat
    <2>1. op \in SendOp /\ Tail(o.strand) \in Seq(SendOp)
      BY <1>1, TailFacts
    <2> QED BY <2>1 DEF SendOp, OpType
  <1>3. /\ c \in OutType /\ c.strand = Tail(o.strand) /\ c.queue = o.queue
        /\ c.phase = o.phase /\ c.closed = o.closed
        /\ c.returned = o.returned
    <2> DEFINE t == [o EXCEPT !.strand = Tail(@)]
    <2>1. /\ t \in OutType /\ t.strand = Tail(o.strand) /\ t.queue = o.queue
          /\ t.phase = o.phase /\ t.closed = o.closed /\ t.returned = o.returned
      BY <1>2 DEF OutType
    <2> HIDE DEF t, op
    <2>2. /\ t.total + op.len \in Int /\ t.outstanding + op.len \in Int
          /\ Larger(t.max, t.outstanding + op.len) \in Int
      BY <2>1, <1>2 DEF OutType, Larger
    <2>3. c = [t EXCEPT !.total = @ + op.len, !.outstanding = @ + op.len,
                        !.max = Larger(@, t.outstanding + op.len)]
      BY DEF Count, t, op
    <2> QED BY <2>1, <2>2, <2>3 DEF OutType
  <1> HIDE DEF op, c
  <1>4. MayRun(c.strand, c.queue, c.phase, op)
    BY <1>1, <1>3, HeadMayRun DEF NotTwice, op
  <1>q. op.type = "pop" => c.queue # <<>>
    BY <1>4 DEF MayRun
  <1>5. n = Ran(c, op) /\ Ran(c, op) \in OutType
    BY <1>2, <1>3, <1>q, RunOut
  <1>6. /\ n.strand = c.strand
        /\ n.queue = IF Closes(c.queue, op) THEN Tail(Changed(c.queue, op))
                                            ELSE Changed(c.queue, op)
        /\ n.phase = IF Starts(c.queue, op) /\ ~Closes(c.queue, op)
                     THEN "header" ELSE c.phase
        /\ n.closed = IF Closes(c.queue, op) THEN TRUE ELSE c.closed
        /\ n.returned = c.returned
    BY <1>3, <1>5 DEF Ran, OutType
  <1> HIDE DEF n
  <1>s. c.strand \in Seq(SendOp) /\ c.queue \in Seq(SendOp)
    BY <1>1, <1>2, <1>3
  <1>7. NotTwice(n)
    BY <1>2, <1>s, <1>4, <1>6, RunKeepsDriver DEF NotTwice
  <1> QED BY <1>3, <1>5, <1>6, <1>7 DEF op, c, n

\* The same for the receive strand.
LEMMA RunInInv ==
    ASSUME NEW r \in InType, NotTwice(r), r.strand # <<>>
    PROVE  LET op == Head(r.strand)
               n  == RunPosted([r EXCEPT !.strand = Tail(@)], op)
           IN  /\ n \in InType /\ NotTwice(n)
               /\ n.strand = Tail(r.strand)
               /\ n.queue = IF Closes(r.queue, op) THEN Tail(Changed(r.queue, op))
                                                   ELSE Changed(r.queue, op)
               /\ n.phase = IF Starts(r.queue, op) /\ ~Closes(r.queue, op)
                            THEN "header" ELSE r.phase
               /\ n.closed = IF Closes(r.queue, op) THEN TRUE ELSE r.closed
               /\ n.answers = r.answers /\ n.got = r.got
  <1> DEFINE op == Head(r.strand)
             c  == [r EXCEPT !.strand = Tail(@)]
             n  == RunPosted(c, op)
  <1>1. r.strand \in Seq(RecvOp) /\ r.queue \in Seq(RecvOp)
    BY DEF InType
  <1>2. op \in RecvOp /\ Tail(r.strand) \in Seq(RecvOp)
    BY <1>1, TailFacts
  <1>3. /\ c \in InType /\ c.strand = Tail(r.strand) /\ c.queue = r.queue
        /\ c.phase = r.phase /\ c.closed = r.closed
        /\ c.answers = r.answers /\ c.got = r.got
    BY <1>2 DEF InType
  <1> HIDE DEF op, c
  <1>4. MayRun(c.strand, c.queue, c.phase, op)
    BY <1>1, <1>3, HeadMayRun DEF NotTwice, op
  <1>q. op.type = "pop" => c.queue # <<>>
    BY <1>4 DEF MayRun
  <1>5. n = Ran(c, op) /\ Ran(c, op) \in InType
    BY <1>2, <1>3, <1>q, RunIn
  <1>6. /\ n.strand = c.strand
        /\ n.queue = IF Closes(c.queue, op) THEN Tail(Changed(c.queue, op))
                                            ELSE Changed(c.queue, op)
        /\ n.phase = IF Starts(c.queue, op) /\ ~Closes(c.queue, op)
                     THEN "header" ELSE c.phase
        /\ n.closed = IF Closes(c.queue, op) THEN TRUE ELSE c.closed
        /\ n.answers = c.answers /\ n.got = c.got
    BY <1>3, <1>5 DEF Ran, InType
  <1> HIDE DEF n
  <1>s. c.strand \in Seq(RecvOp) /\ c.queue \in Seq(RecvOp)
    BY <1>1, <1>2, <1>3
  <1>7. NotTwice(n)
    BY <1>2, <1>s, <1>4, <1>6, RunKeepsDriver DEF NotTwice
  <1> QED BY <1>3, <1>5, <1>6, <1>7 DEF op, c, n

-----------------------------------------------------------------------------
(* The initial state and the steps keep the types. *)

\* TypeInv holds of a new channel.
LEMMA InitType == ASSUME ChannelAssumption, Init PROVE TypeInv
  <1>1. RestInv
    BY DEF Init, RestInv, ChannelAssumption
  <1>2. <<>> \in Seq(SendOp) /\ <<>> \in Seq(RecvOp)
    OBVIOUS
  <1>3. NoPop(<<>>)
    BY DEF NoPop
  <1>4. NewOut \in OutType /\ NotTwice(NewOut)
    BY <1>2, <1>3 DEF NewOut, OutType, NotTwice, AtMostOne
  <1>5. NewIn \in InType /\ NotTwice(NewIn)
    BY <1>2, <1>3 DEF NewIn, InType, NoItem, Item, ItemType, NotTwice, AtMostOne
  <1>6. OutInv
    <2>1. out = [p \in Side |-> NewOut]
      BY DEF Init
    <2>2. \A p \in Side : out[p] = NewOut
      BY <2>1
    <2> HIDE DEF Init
    <2> QED BY <2>1, <2>2, <1>4 DEF OutInv
  <1>7. InInv
    <2>1. inn = [p \in Side |-> NewIn]
      BY DEF Init
    <2>2. \A p \in Side : inn[p] = NewIn
      BY <2>1
    <2> QED BY <2>1, <2>2, <1>5 DEF InInv
  <1> QED BY <1>1, <1>6, <1>7 DEF TypeInv

\* The call a user is at, and its size on the channel.
LEMMA CallFacts ==
    ASSUME ChannelAssumption, RestInv, NEW p \in Side, user[p].at <= Len(script[p])
    PROVE  /\ NowCall(p) \in Call
           /\ IsSend(NowCall(p)) => NowCall(p).len \in Nat /\ Cut(NowCall(p).len) \in Nat
           /\ Cut(NowCall(p).len) \in Nat \cup {AnyLen}
  <1>1. script[p] \in Seq(Call) /\ user[p].at \in Nat \ {0}
    BY DEF RestInv
  <1>2. NowCall(p) \in Call
    BY <1>1 DEF NowCall
  <1> DEFINE c == NowCall(p)
  <1> HIDE DEF c
  <1>3. c.len \in Nat \cup {AnyLen} /\ (IsSend(c) => c.len \in Nat)
    BY <1>2 DEF Call, IsSend, c
  <1>4. \A n \in Nat : n # AnyLen /\ n % SizeLimit \in Nat
    BY DEF ChannelAssumption, AnyLen
  <1>5. /\ Cut(c.len) \in Nat \cup {AnyLen}
        /\ c.len \in Nat => Cut(c.len) \in Nat
    BY <1>3, <1>4 DEF Cut
  <1> QED BY <1>2, <1>3, <1>5 DEF c

\* The calls of a user keep TypeInv.
LEMMA UserType ==
    ASSUME ChannelAssumption, TypeInv, NEW p \in Side, UserStep(p)
    PROVE  TypeInv'
  <1> USE DEF TypeInv
  <1>1. NextCall(user[p]) \in [pc : {"call", "post", "wait"}, at : Nat \ {0}]
    BY DEF RestInv, NextCall
  <1>2. CASE Begin(p)
    <2>1. RestInv'
      BY <1>1, <1>2 DEF Begin, RestInv
    <2>2. UNCHANGED <<out, inn>>
      BY <1>2 DEF Begin
    <2> QED BY <2>1, <2>2, OutSame, InSame
  <1>3. CASE PostSend(p)
    <2> DEFINE c == NowCall(p)
               op == Operation("data", Len(sent[p]) + 1, Cut(c.len), c.type = "send")
               o == [out[p] EXCEPT !.strand = Append(@, op)]
    <2>1. user[p].at <= Len(script[p]) /\ IsSend(c)
      BY <1>3 DEF PostSend, UserAt
    <2>2. c.len \in Nat /\ Cut(c.len) \in Nat
      BY <2>1, CallFacts
    <2>3. SetOut(p, o) /\ UNCHANGED inn
      BY <1>3 DEF PostSend
    <2>4. op \in SendOp /\ op.type # "pop"
      <3> DEFINE sync == c.type = "send"
                 k == Len(sent[p]) + 1
                 len == Cut(c.len)
      <3>1. k \in Nat /\ sync \in BOOLEAN /\ len \in Nat
        BY <2>2 DEF RestInv
      <3> HIDE DEF sync, k, len
      <3>2. Operation("data", k, len, sync) \in SendOp
        BY <3>1, OpsType
      <3>3. Operation("data", k, len, sync).type = "data"
        BY <3>1, OpsType
      <3> QED BY <3>2, <3>3 DEF sync, k, len
    <2>5. Append(sent[p], c.len) \in Seq(Nat)
      BY <2>2 DEF RestInv
    <2> HIDE DEF c
    <2>6. RestInv'
      BY <1>1, <1>3, <2>5 DEF PostSend, AfterPost, RestInv, c
    <2>7. out[p] \in OutType /\ NotTwice(out[p])
      BY DEF OutInv
    <2> HIDE DEF op
    <2>8. o \in OutType /\ NotTwice(o)
      BY <2>4, <2>7, PostOut
    <2> HIDE DEF o
    <2>9. OutInv'
      BY <2>3, <2>8, SetOutInv
    <2> QED BY <2>3, <2>6, <2>9, InSame
  <1>4. CASE PostRecv(p)
    <2> DEFINE c == NowCall(p)
               op == Operation("data", asked[p] + 1, Cut(c.len), c.type = "recv")
               r == [inn[p] EXCEPT !.strand = Append(@, op)]
    <2>1. user[p].at <= Len(script[p])
      BY <1>4 DEF PostRecv, UserAt
    <2>2. Cut(c.len) \in Nat \cup {AnyLen}
      BY <2>1, CallFacts
    <2>3. SetIn(p, r) /\ UNCHANGED out
      BY <1>4 DEF PostRecv
    <2>4. op \in RecvOp /\ op.type # "pop"
      <3>1. asked[p] + 1 \in Nat /\ (c.type = "recv") \in BOOLEAN
        BY DEF RestInv
      <3> QED BY <3>1, <2>2, OpsType
    <2> HIDE DEF c
    <2>5. user' \in [Side -> [pc : {"call", "post", "wait"}, at : Nat \ {0}]]
      BY <1>1, <1>4 DEF PostRecv, AfterPost, RestInv
    <2>p. asked' \in [Side -> Nat]
      BY <1>4 DEF PostRecv, RestInv
    <2>6. RestInv'
      BY <1>4, <2>5, <2>p DEF PostRecv, RestInv
    <2>7. inn[p] \in InType /\ NotTwice(inn[p])
      BY DEF InInv
    <2> HIDE DEF op
    <2>8. r \in InType /\ NotTwice(r)
      BY <2>4, <2>7, PostIn
    <2> HIDE DEF r
    <2>9. InInv'
      BY <2>3, <2>8, SetInInv
    <2> QED BY <2>3, <2>6, <2>9, OutSame
  <1>5. CASE Refuse(p)
    <2>1. RestInv'
      BY <1>1, <1>5 DEF Refuse, RestInv
    <2>2. UNCHANGED <<out, inn>>
      BY <1>5 DEF Refuse
    <2> QED BY <2>1, <2>2, OutSame, InSame
  <1>6. CASE Return(p)
    <2>1. RestInv'
      BY <1>1, <1>6 DEF Return, RestInv
    <2>2. UNCHANGED <<out, inn>>
      BY <1>6 DEF Return
    <2> QED BY <2>1, <2>2, OutSame, InSame
  <1> QED BY <1>2, <1>3, <1>4, <1>5, <1>6 DEF UserStep

\* The steps of close keep TypeInv.
LEMMA CloserType ==
    ASSUME TypeInv, NEW p \in Side, CloserStep(p)
    PROVE  TypeInv'
  <1> USE DEF TypeInv
  <1>1. RestInv'
    BY DEF CloserStep, Stop, PostCloseRecv, PostCloseSend, CloseSocket, RestInv
  <1>2. CASE PostCloseRecv(p)
    <2> DEFINE r == [inn[p] EXCEPT !.strand = Append(@, CloseOp)]
    <2>1. SetIn(p, r) /\ UNCHANGED out
      BY <1>2 DEF PostCloseRecv
    <2>2. inn[p] \in InType /\ NotTwice(inn[p])
      BY DEF InInv
    <2>3. r \in InType /\ NotTwice(r)
      BY <2>2, OpsType, PostIn
    <2> HIDE DEF r
    <2> QED BY <1>1, <2>1, <2>3, SetInInv, OutSame
  <1>3. CASE PostCloseSend(p)
    <2> DEFINE o == [out[p] EXCEPT !.strand = Append(@, CloseOp)]
    <2>1. SetOut(p, o) /\ UNCHANGED inn
      BY <1>3 DEF PostCloseSend
    <2>2. out[p] \in OutType /\ NotTwice(out[p])
      BY DEF OutInv
    <2>3. o \in OutType /\ NotTwice(o)
      BY <2>2, OpsType, PostOut
    <2> HIDE DEF o
    <2> QED BY <1>1, <2>1, <2>3, SetOutInv, InSame
  <1>4. CASE Stop(p) \/ CloseSocket(p)
    <2>1. UNCHANGED <<out, inn>>
      BY <1>4 DEF Stop, CloseSocket
    <2> QED BY <1>1, <2>1, OutSame, InSame
  <1> QED BY <1>2, <1>3, <1>4 DEF CloserStep

\* So does the end of a program.
LEMMA AbortType ==
    ASSUME TypeInv, NEW p \in Side, Abort(p)
    PROVE  TypeInv'
  <1>1. RestInv'
    BY DEF TypeInv, Abort, RestInv
  <1>2. UNCHANGED <<out, inn>>
    BY DEF Abort
  <1> QED BY <1>1, <1>2, OutSame, InSame DEF TypeInv

\* The handlers of the strands keep TypeInv.
LEMMA StrandType ==
    ASSUME TypeInv, NEW p \in Side, RunSendStrand(p) \/ RunRecvStrand(p)
    PROVE  TypeInv'
  <1>0. RestInv'
    BY DEF TypeInv, RunSendStrand, RunRecvStrand, RestInv
  <1>1. CASE RunSendStrand(p)
    <2> DEFINE o == out[p]
               n == RunPosted(Count([o EXCEPT !.strand = Tail(@)], Head(o.strand).len),
                              Head(o.strand))
    <2>1. SetOut(p, n) /\ UNCHANGED inn /\ o.strand # <<>>
      BY <1>1 DEF RunSendStrand
    <2>2. o \in OutType /\ NotTwice(o)
      BY DEF TypeInv, OutInv
    <2> HIDE DEF o
    <2>3. n \in OutType /\ NotTwice(n)
      BY <2>1, <2>2, RunOutInv
    <2> HIDE DEF n
    <2> QED BY <1>0, <2>1, <2>3, SetOutInv, InSame DEF TypeInv
  <1>2. CASE RunRecvStrand(p)
    <2> DEFINE r == inn[p]
               n == RunPosted([r EXCEPT !.strand = Tail(@)], Head(r.strand))
    <2>1. SetIn(p, n) /\ UNCHANGED out /\ r.strand # <<>>
      BY <1>2 DEF RunRecvStrand
    <2>2. r \in InType /\ NotTwice(r)
      BY DEF TypeInv, InInv
    <2> HIDE DEF r
    <2>3. n \in InType /\ NotTwice(n)
      BY <2>1, <2>2, RunInInv
    <2> HIDE DEF n
    <2> QED BY <1>0, <2>1, <2>3, SetInInv, OutSame DEF TypeInv
  <1> QED BY <1>1, <1>2

\* The steps of a write keep TypeInv.
LEMMA WriteType ==
    ASSUME TypeInv, NEW p \in Side, WriteStep(p)
    PROVE  TypeInv'
  <1>1. out[p] \in OutType /\ NotTwice(out[p])
    BY DEF TypeInv, OutInv
  <1>2. ASSUME out[p].phase # "idle"
        PROVE  Head(out[p].queue) \in SendOp
    <2>1. out[p].queue \in Seq(SendOp) /\ out[p].queue # <<>>
      BY <1>1, <1>2 DEF OutType, NotTwice, AtMostOne
    <2> QED BY <2>1, TailFacts
  <1>3. CASE WritePart(p)
    <2> DEFINE op == Head(out[p].queue)
    <2>1. PICK part \in {"header", "body"} :
            /\ out[p].phase = part
            /\ wire' = [wire EXCEPT ![Other(p)] = Append(@, Item(op.n, part, op.len))]
            /\ SetOut(p, Taken(out[p], op, part))
            /\ UNCHANGED <<script, user, closer, inn, sent, asked, aborted>>
      BY <1>3 DEF WritePart, Writing
    <2>2. op \in SendOp
      BY <2>1, <1>2
    <2> HIDE DEF op
    <2>3. Item(op.n, part, op.len) \in ItemType
      BY <2>2 DEF Item, ItemType, SendOp, OpType
    <2>4. Other(p) \in Side
      BY DEF Other, Side
    <2>5. wire' \in [Side -> Seq(ItemType)]
      BY <2>1, <2>3, <2>4 DEF TypeInv, RestInv
    <2>6. RestInv'
      BY <2>1, <2>5 DEF TypeInv, RestInv
    <2>7. /\ Taken(out[p], op, part) \in OutType
          /\ Taken(out[p], op, part).phase # "idle"
          /\ Taken(out[p], op, part).queue = out[p].queue
          /\ Taken(out[p], op, part).strand = out[p].strand
      BY <1>1 DEF Taken, OutType
    <2>8. NotTwice(Taken(out[p], op, part))
      BY <1>1, <2>1, <2>7 DEF NotTwice, AtMostOne
    <2> QED BY <2>1, <2>6, <2>7, <2>8, SetOutInv, InSame DEF TypeInv
  <1>4. CASE WriteDone(p)
    <2> DEFINE op == Head(out[p].queue)
               o == Written(out[p], op)
    <2>1. out[p].phase # "idle" /\ SetOut(p, o) /\ UNCHANGED inn
      BY <1>4 DEF WriteDone, Writing
    <2>2. RestInv'
      BY <1>4 DEF WriteDone, TypeInv, RestInv
    <2>3. op \in SendOp
      BY <2>1, <1>2
    <2> HIDE DEF op
    <2>4. /\ out[p].outstanding - op.len \in Int
          /\ (IF op.sync THEN out[p].returned \cup {op.n} ELSE out[p].returned) \in SUBSET Nat
      BY <1>1, <2>3 DEF SendOp, OpType, OutType
    <2>5. /\ o \in OutType /\ o.phase = "pop"
          /\ o.queue = out[p].queue /\ o.strand = out[p].strand
      BY <1>1, <2>4 DEF Written, OutType
    <2>6. NotTwice(o)
      BY <1>1, <2>1, <2>5 DEF NotTwice, AtMostOne
    <2> HIDE DEF o
    <2> QED BY <2>1, <2>2, <2>5, <2>6, SetOutInv, InSame DEF TypeInv
  <1>5. CASE WriteRequeue(p)
    <2> DEFINE o == [out[p] EXCEPT !.phase = "idle", !.strand = Append(@, Pop)]
    <2>1. out[p].phase # "idle" /\ SetOut(p, o) /\ UNCHANGED inn
      BY <1>5 DEF WriteRequeue, Writing
    <2>2. RestInv'
      BY <1>5 DEF WriteRequeue, TypeInv, RestInv
    <2>3. o \in OutType /\ NotTwice(o)
      BY <1>1, <2>1, RequeueOut
    <2> HIDE DEF o
    <2> QED BY <2>1, <2>2, <2>3, SetOutInv, InSame DEF TypeInv
  <1>6. CASE WriteFails(p)
    BY <1>6, AbortType DEF WriteFails
  <1> QED BY <1>3, <1>4, <1>5, <1>6 DEF WriteStep

\* The steps of a read keep TypeInv.
LEMMA ReadType ==
    ASSUME TypeInv, NEW p \in Side, ReadStep(p)
    PROVE  TypeInv'
  <1>1. inn[p] \in InType /\ NotTwice(inn[p])
    BY DEF TypeInv, InInv
  <1>2. ASSUME inn[p].phase # "idle"
        PROVE  Head(inn[p].queue) \in RecvOp
    <2>1. inn[p].queue \in Seq(RecvOp) /\ inn[p].queue # <<>>
      BY <1>1, <1>2 DEF InType, NotTwice, AtMostOne
    <2> QED BY <2>1, TailFacts
  <1>3. ASSUME Arrives(p)
        PROVE  Head(wire[p]) \in ItemType /\ wire' \in [Side -> Seq(ItemType)]
    <2>1. wire[p] \in Seq(ItemType) /\ wire[p] # <<>>
      BY <1>3 DEF Arrives, TypeInv, RestInv
    <2>2. Head(wire[p]) \in ItemType /\ Tail(wire[p]) \in Seq(ItemType)
      BY <2>1, TailFacts
    <2> QED BY <1>3, <2>2 DEF Arrives, TypeInv, RestInv
  <1>a. ASSUME NEW op \in RecvOp, NEW item \in ItemType, NEW ok \in BOOLEAN
        PROVE  Append(inn[p].answers, Answer(op, item, ok))
                 \in Seq([n : Nat, msg : Nat, len : Nat, ok : BOOLEAN])
    <2>1. Answer(op, item, ok) \in [n : Nat, msg : Nat, len : Nat, ok : BOOLEAN]
      BY DEF Answer, RecvOp, OpType, ItemType
    <2>2. inn[p].answers \in Seq([n : Nat, msg : Nat, len : Nat, ok : BOOLEAN])
      BY <1>1 DEF InType
    <2> QED BY <2>1, <2>2, AppendFacts
  <1>k. ASSUME NEW r \in InType, r.phase # "idle", inn[p].phase # "idle",
               r.queue = inn[p].queue, r.strand = inn[p].strand
        PROVE  NotTwice(r)
    BY <1>1, <1>k DEF NotTwice, AtMostOne
  <1>4. CASE ReadHeader(p)
    <2> DEFINE r == inn[p]
               op == Head(r.queue)
               item == Head(wire[p])
               n == IF Fits(op, item) THEN Sized(r) ELSE Mismatch(r, op, item)
    <2>1. r.phase # "idle" /\ Arrives(p) /\ SetIn(p, n)
          /\ UNCHANGED <<script, user, closer, out, sent, asked, aborted>>
      BY <1>4 DEF ReadHeader, Reading
    <2>2. op \in RecvOp /\ item \in ItemType /\ wire' \in [Side -> Seq(ItemType)]
      BY <2>1, <1>2, <1>3
    <2>3. RestInv'
      BY <2>1, <2>2 DEF TypeInv, RestInv
    <2> HIDE DEF op, item
    <2>4. Append(r.answers, Answer(op, item, FALSE))
             \in Seq([n : Nat, msg : Nat, len : Nat, ok : BOOLEAN])
      BY <2>2, <1>a
    <2>5. /\ Sized(r) \in InType /\ Sized(r).phase # "idle"
          /\ Sized(r).queue = r.queue /\ Sized(r).strand = r.strand
      BY <1>1 DEF Sized, InType
    <2>6. /\ Mismatch(r, op, item) \in InType /\ Mismatch(r, op, item).phase # "idle"
          /\ Mismatch(r, op, item).queue = r.queue /\ Mismatch(r, op, item).strand = r.strand
      BY <1>1, <2>4 DEF Mismatch, InType
    <2>7. n \in InType /\ NotTwice(n)
      BY <2>1, <2>5, <2>6, <1>k
    <2> HIDE DEF n
    <2> QED BY <2>1, <2>3, <2>7, SetInInv, OutSame DEF TypeInv
  <1>5. CASE ReadBody(p)
    <2> DEFINE item == Head(wire[p])
               n == [inn[p] EXCEPT !.phase = "read", !.got = item]
    <2>1. inn[p].phase # "idle" /\ Arrives(p) /\ SetIn(p, n)
          /\ UNCHANGED <<script, user, closer, out, sent, asked, aborted>>
      BY <1>5 DEF ReadBody, Reading
    <2>2. item \in ItemType /\ wire' \in [Side -> Seq(ItemType)]
      BY <2>1, <1>3
    <2>3. RestInv'
      BY <2>1, <2>2 DEF TypeInv, RestInv
    <2> HIDE DEF item
    <2>4. /\ n \in InType /\ n.phase # "idle"
          /\ n.queue = inn[p].queue /\ n.strand = inn[p].strand
      BY <1>1, <2>2 DEF InType
    <2> HIDE DEF n
    <2>5. NotTwice(n)
      BY <2>1, <2>4, <1>k
    <2> QED BY <2>1, <2>3, <2>4, <2>5, SetInInv, OutSame DEF TypeInv
  <1>6. CASE ReadDone(p)
    <2> DEFINE r == inn[p]
               op == Head(r.queue)
               all == Append(r.answers, Answer(op, r.got, TRUE))
               n == [r EXCEPT !.phase = "pop", !.answers = all]
    <2>1. r.phase # "idle" /\ UNCHANGED out
          /\ SetIn(p, n)
      BY <1>6 DEF ReadDone, Reading
    <2>2. RestInv'
      BY <1>6 DEF ReadDone, TypeInv, RestInv
    <2>3. op \in RecvOp /\ r.got \in ItemType
      BY <2>1, <1>1, <1>2 DEF InType
    <2> HIDE DEF op
    <2>4. all \in Seq([n : Nat, msg : Nat, len : Nat, ok : BOOLEAN])
      BY <2>3, <1>a
    <2> HIDE DEF all
    <2>5. n \in InType /\ n.phase # "idle" /\ n.queue = r.queue /\ n.strand = r.strand
      BY <1>1, <2>4 DEF InType
    <2> HIDE DEF n
    <2>6. NotTwice(n)
      BY <2>1, <2>5, <1>k
    <2> QED BY <2>1, <2>2, <2>5, <2>6, SetInInv, OutSame DEF TypeInv
  <1>7. CASE ReadRequeue(p)
    <2> DEFINE r == [inn[p] EXCEPT !.phase = "idle", !.strand = Append(@, Pop)]
    <2>1. inn[p].phase # "idle" /\ SetIn(p, r) /\ UNCHANGED out
      BY <1>7 DEF ReadRequeue, Reading
    <2>2. RestInv'
      BY <1>7 DEF ReadRequeue, TypeInv, RestInv
    <2>3. r \in InType /\ NotTwice(r)
      BY <1>1, <2>1, RequeueIn
    <2> HIDE DEF r
    <2> QED BY <2>1, <2>2, <2>3, SetInInv, OutSame DEF TypeInv
  <1>8. CASE ReadFails(p)
    BY <1>8, AbortType DEF ReadFails
  <1> QED BY <1>4, <1>5, <1>6, <1>7, <1>8 DEF ReadStep

\* Every step keeps TypeInv.
LEMMA StepType == ASSUME ChannelAssumption, TypeInv, [Next]_vars PROVE TypeInv'
  <1>1. ASSUME NEW p \in Side, UserStep(p)
        PROVE  TypeInv'
    BY <1>1, UserType
  <1>2. ASSUME NEW p \in Side, CloserStep(p)
        PROVE  TypeInv'
    BY <1>2, CloserType
  <1>3. ASSUME NEW p \in Side, RunSendStrand(p) \/ RunRecvStrand(p)
        PROVE  TypeInv'
    BY <1>3, StrandType
  <1>4. ASSUME NEW p \in Side, WriteStep(p)
        PROVE  TypeInv'
    BY <1>4, WriteType
  <1>5. ASSUME NEW p \in Side, ReadStep(p)
        PROVE  TypeInv'
    BY <1>5, ReadType
  <1>6. ASSUME NEW p \in Side, Fail(p)
        PROVE  TypeInv'
    BY <1>6, AbortType DEF Fail
  <1>7. CASE UNCHANGED vars
    <2>1. RestInv' /\ UNCHANGED <<out, inn>>
      BY <1>7 DEF TypeInv, RestInv, vars
    <2> QED BY <2>1, OutSame, InSame DEF TypeInv
  <1> QED BY <1>1, <1>2, <1>3, <1>4, <1>5, <1>6, <1>7 DEF Next

\* Whatever the sides call, close or fail, every queue, strand and buffer keeps
\* its type; sendOne, receiveOne and the handlers of async_write and async_read
\* never take the front of an empty queue.
THEOREM TypeCorrect == SafetySpec => []TypeOK
  <1>1. Init => TypeInv
    BY InitType, ChannelAssumption
  <1>2. TypeInv /\ [Next]_vars => TypeInv'
    BY StepType, ChannelAssumption
  <1>3. TypeInv => TypeOK
    BY DEF TypeInv, RestInv, OutInv, InInv, TypeOK
  <1> QED BY <1>1, <1>2, <1>3, PTL DEF SafetySpec

-----------------------------------------------------------------------------
(***************************************************************************)
(* When close waits for its user, as libBDX does, a close is the last      *)
(* operation of its strand and of its queue, and it is fulfilled only when *)
(* nothing is left.  posted says whether close has posted it.              *)
(***************************************************************************)
NoClose(s)   == \A i \in DOMAIN s : s[i].type # "close"
AllPop(s)    == \A i \in DOMAIN s : s[i].type = "pop"
CloseLast(s) == \A i, j \in DOMAIN s : s[i].type = "close" /\ j > i => s[j].type = "pop"

Orderly(strand, queue, phase, closed, posted) ==
    /\ ~posted => ~closed /\ NoClose(strand) /\ NoClose(queue)
    /\ closed => strand = <<>> /\ queue = <<>> /\ phase = "idle"
    /\ queue # <<>> /\ phase = "idle" => OnePop(strand)
    /\ CloseLast(strand)
    /\ NoClose(strand) \/ NoClose(queue)
    /\ \A i \in DOMAIN queue : queue[i].type = "close" =>
            i = Len(queue) /\ i # 1 /\ AllPop(strand)

OutPosted(p) == closer[p] \in {"waiting", "closed"}
InPosted(p)  == closer[p] \in {"recvPosted", "waiting", "closed"}

OutOrder == \A p \in Side :
    Orderly(out[p].strand, out[p].queue, out[p].phase, out[p].closed, OutPosted(p))
InnOrder == \A p \in Side :
    Orderly(inn[p].strand, inn[p].queue, inn[p].phase, inn[p].closed, InPosted(p))

CloserInv == \A p \in Side :
    /\ user[p].pc # "call" => user[p].at <= Len(script[p])
    /\ closer[p] # "open" => UserDone(p)
    /\ closer[p] = "closed" => out[p].closed /\ inn[p].closed

OrderInv == CloserInv /\ OutOrder /\ InnOrder

\* The handler of a strand keeps the order.
LEMMA RunKeepsOrder ==
    ASSUME NEW S, NEW strand \in Seq(S), strand # <<>>, NEW queue \in Seq(S),
           NEW phase, NEW closed \in BOOLEAN, NEW posted \in BOOLEAN,
           NEW phase2, NEW queue2, NEW closed2, NEW op, op = Head(strand),
           AtMostOne(strand, queue, phase),
           Orderly(strand, queue, phase, closed, posted),
           queue2 = IF Closes(queue, op) THEN Tail(Changed(queue, op)) ELSE Changed(queue, op),
           phase2 = IF Starts(queue, op) /\ ~Closes(queue, op) THEN "header" ELSE phase,
           closed2 = IF Closes(queue, op) THEN TRUE ELSE closed,
           op.type \in {"data", "close", "pop"}
    PROVE  Orderly(Tail(strand), queue2, phase2, closed2, posted)
  <1> DEFINE t == Tail(strand)
  <1>1. /\ op \in S /\ op = strand[1] /\ 1 \in DOMAIN strand /\ t \in Seq(S)
        /\ Len(strand) \in Nat
        /\ DOMAIN strand = 1..Len(strand) /\ DOMAIN t = 1..Len(strand)-1
        /\ \A i \in 1..Len(strand)-1 : t[i] = strand[i + 1]
    BY TailFacts
  <1>2. ~closed
    BY DEF Orderly
  <1>3. /\ CloseLast(t)
        /\ NoClose(strand) => NoClose(t)
        /\ AllPop(strand) => AllPop(t)
        /\ op.type = "close" => AllPop(t) /\ NoClose(t) /\ ~NoClose(strand) /\ posted
        /\ op.type # "pop" => ~AllPop(strand)
    <2> HIDE DEF t
    <2>1. CloseLast(t)
      <3> SUFFICES ASSUME NEW i \in DOMAIN t, NEW j \in DOMAIN t,
                          t[i].type = "close", j > i
                   PROVE  t[j].type = "pop"
        BY DEF CloseLast
      <3>1. i + 1 \in DOMAIN strand /\ j + 1 \in DOMAIN strand /\ j + 1 > i + 1
        BY <1>1
      <3>2. strand[i + 1].type = "close" /\ t[j] = strand[j + 1]
        BY <1>1
      <3> QED BY <3>1, <3>2 DEF Orderly, CloseLast
    <2>2. ASSUME NoClose(strand)
          PROVE  NoClose(t)
      <3> SUFFICES ASSUME NEW i \in DOMAIN t
                   PROVE  t[i].type # "close"
        BY DEF NoClose
      <3>1. i + 1 \in DOMAIN strand /\ t[i] = strand[i + 1]
        BY <1>1
      <3> QED BY <3>1, <2>2 DEF NoClose
    <2>3. ASSUME AllPop(strand)
          PROVE  AllPop(t)
      <3> SUFFICES ASSUME NEW i \in DOMAIN t
                   PROVE  t[i].type = "pop"
        BY DEF AllPop
      <3>1. i + 1 \in DOMAIN strand /\ t[i] = strand[i + 1]
        BY <1>1
      <3> QED BY <3>1, <2>3 DEF AllPop
    <2>4. ASSUME op.type = "close"
          PROVE  AllPop(t) /\ NoClose(t) /\ ~NoClose(strand) /\ posted
      <3>1. ~NoClose(strand)
        BY <1>1, <2>4 DEF NoClose
      <3>2. AllPop(t)
        <4> SUFFICES ASSUME NEW j \in DOMAIN t
                     PROVE  t[j].type = "pop"
          BY DEF AllPop
        <4>1. j + 1 \in DOMAIN strand /\ j + 1 > 1 /\ t[j] = strand[j + 1]
          BY <1>1
        <4> QED BY <4>1, <1>1, <2>4 DEF Orderly, CloseLast
      <3>3. NoClose(t)
        BY <3>2 DEF AllPop, NoClose
      <3> QED BY <3>1, <3>2, <3>3 DEF Orderly
    <2>5. ASSUME AllPop(strand)
          PROVE  op.type = "pop"
      <3>1. strand[1].type = "pop"
        BY <1>1, <2>5 DEF AllPop
      <3> QED BY <3>1, <1>1
    <2> QED BY <2>1, <2>2, <2>3, <2>4, <2>5
  <1>4. /\ op.type = "pop" => NoPop(t) /\ queue # <<>> /\ phase = "idle"
        /\ op.type # "pop" /\ OnePop(strand) => OnePop(t)
        /\ op.type # "pop" /\ NoPop(strand) => NoPop(t)
    <2>1. MayRun(t, queue, phase, op)
      BY HeadMayRun
    <2>2. op.type = "pop" => NoPop(t) /\ queue # <<>> /\ phase = "idle"
      BY <2>1 DEF MayRun
    <2>3. op.type # "pop" /\ NoPop(strand) => NoPop(t)
      BY PopLeaves
    <2>4. ASSUME op.type # "pop", OnePop(strand)
          PROVE  OnePop(t)
      <3>1. PICK i \in DOMAIN strand : /\ strand[i].type = "pop"
                                       /\ \A j \in DOMAIN strand : strand[j].type = "pop" => j = i
        BY <2>4 DEF OnePop
      <3>2. i # 1 /\ i - 1 \in DOMAIN t /\ t[i - 1].type = "pop"
        BY <1>1, <2>4, <3>1
      <3>3. ASSUME NEW j \in DOMAIN t, t[j].type = "pop"
            PROVE  j = i - 1
        <4>1. j + 1 \in DOMAIN strand /\ strand[j + 1] = t[j] /\ j + 1 - 1 = j
          BY <1>1, <3>3
        <4>2. j + 1 = i
          BY <3>1, <3>3, <4>1
        <4> QED BY <4>1, <4>2
      <3> QED BY <3>2, <3>3 DEF OnePop
    <2> QED BY <2>2, <2>3, <2>4
  <1>5. AllPop(t) /\ NoPop(t) => t = <<>>
    <2> HIDE DEF t
    <2>1. ASSUME AllPop(t), NoPop(t)
          PROVE  DOMAIN t = {}
      BY <2>1 DEF AllPop, NoPop
    <2>2. DOMAIN t = {} => Len(t) = 0
      BY <1>1
    <2> QED BY <1>1, <2>1, <2>2, EmptyIsLen0
  <1>a. /\ Append(queue, op) \in Seq(S) /\ Append(queue, op) # <<>>
        /\ Len(queue) \in Nat /\ Len(Append(queue, op)) = Len(queue) + 1
        /\ DOMAIN queue = 1..Len(queue) /\ DOMAIN Append(queue, op) = 1..Len(queue)+1
        /\ \A i \in 1..Len(queue) : Append(queue, op)[i] = queue[i]
        /\ Append(queue, op)[Len(queue) + 1] = op
    BY <1>1, AppendFacts
  <1> HIDE DEF t
  <1>6. CASE op.type = "data" /\ queue = <<>>
    <2>1. Changed(queue, op) = <<op>> /\ Starts(queue, op) /\ ~Closes(queue, op)
      BY <1>6 DEF Changed, Starts, Closes
    <2>2. queue2 = <<op>> /\ phase2 = "header" /\ ~closed2
      BY <2>1, <1>2
    <2>3. NoClose(queue2)
      BY <2>2, <1>6 DEF NoClose
    <2>4. ~posted => NoClose(t)
      BY <1>3 DEF Orderly
    <2> QED BY <1>3, <2>2, <2>3, <2>4 DEF Orderly, NoClose, t
  <1>7. CASE op.type = "data" /\ queue # <<>>
    <2>1. Changed(queue, op) = Append(queue, op) /\ ~Starts(queue, op) /\ ~Closes(queue, op)
      BY <1>7 DEF Changed, Starts, Closes
    <2>2. queue2 = Append(queue, op) /\ phase2 = phase /\ ~closed2
      BY <2>1, <1>2
    <2>3. NoClose(queue)
      BY <1>3, <1>7 DEF Orderly, NoClose
    <2>4. NoClose(queue2)
      <3>1. /\ Len(queue) \in Nat
            /\ DOMAIN queue = 1..Len(queue) /\ DOMAIN queue2 = 1..Len(queue)+1
            /\ \A i \in 1..Len(queue) : queue2[i] = queue[i]
            /\ queue2[Len(queue) + 1] = op
        BY <2>2, <1>a
      <3> SUFFICES ASSUME NEW i \in DOMAIN queue2
                   PROVE  queue2[i].type # "close"
        BY DEF NoClose
      <3>2. i \in 1..Len(queue) \/ i = Len(queue) + 1
        BY <3>1
      <3> QED BY <3>1, <3>2, <2>3, <1>7 DEF NoClose
    <2>5. phase = "idle" => OnePop(t)
      BY <1>4, <1>7 DEF Orderly
    <2>6. ~posted => NoClose(t)
      BY <1>3 DEF Orderly
    <2> QED BY <1>3, <2>2, <2>4, <2>5, <2>6 DEF Orderly, NoClose, t
  <1>8. CASE op.type = "close" /\ queue = <<>>
    <2>1. Changed(queue, op) = <<op>> /\ Starts(queue, op) /\ Closes(queue, op)
      BY <1>8 DEF Changed, Starts, Closes
    <2>t. Tail(<<op>>) = <<>>
      BY <1>1
    <2>2. queue2 = <<>> /\ closed2 /\ phase2 = phase
      BY <2>1, <2>t
    <2>3. phase = "idle" /\ NoPop(t)
      BY <1>4, <1>8 DEF AtMostOne
    <2>4. t = <<>>
      BY <2>3, <1>3, <1>5, <1>8
    <2> QED BY <2>2, <2>3, <2>4, <1>3, <1>8 DEF Orderly, NoClose, t
  <1>9. CASE op.type = "close" /\ queue # <<>>
    <2>1. Changed(queue, op) = Append(queue, op) /\ ~Starts(queue, op) /\ ~Closes(queue, op)
      BY <1>9 DEF Changed, Starts, Closes
    <2>2. queue2 = Append(queue, op) /\ phase2 = phase /\ ~closed2
      BY <2>1, <1>2
    <2>3. NoClose(queue)
      BY <1>3, <1>9 DEF Orderly
    <2>4. ASSUME NEW i \in DOMAIN queue2, queue2[i].type = "close"
          PROVE  i = Len(queue2) /\ i # 1
      <3>1. /\ Len(queue) \in Nat /\ Len(queue2) = Len(queue) + 1 /\ Len(queue) # 0
            /\ DOMAIN queue = 1..Len(queue) /\ DOMAIN queue2 = 1..Len(queue)+1
            /\ \A k \in 1..Len(queue) : queue2[k] = queue[k]
        BY <2>2, <1>a, <1>9, EmptyIsLen0
      <3>2. i \notin 1..Len(queue)
        BY <3>1, <2>3, <2>4 DEF NoClose
      <3> QED BY <3>1, <3>2
    <2>5. phase = "idle" => OnePop(t)
      BY <1>4, <1>9 DEF Orderly
    <2> QED BY <1>3, <1>9, <2>2, <2>4, <2>5 DEF Orderly, t
  <1>10. CASE op.type = "pop"
    <2> DEFINE q == Tail(queue)
    <2>1. queue # <<>> /\ phase = "idle" /\ NoPop(t)
      BY <1>4, <1>10
    <2>2. Changed(queue, op) = q /\ (Starts(queue, op) <=> q # <<>>)
      BY <1>10 DEF Changed, Starts
    <2>3. /\ q \in Seq(S) /\ Len(queue) \in Nat /\ Len(q) = Len(queue) - 1
          /\ DOMAIN queue = 1..Len(queue) /\ DOMAIN q = 1..Len(queue)-1
          /\ \A i \in 1..Len(queue)-1 : q[i] = queue[i + 1]
      BY <2>1, TailFacts
    <2> HIDE DEF q
    <2>4. ASSUME NoClose(queue)
          PROVE  NoClose(q)
      <3> SUFFICES ASSUME NEW i \in DOMAIN q
                   PROVE  q[i].type # "close"
        BY DEF NoClose
      <3>1. i + 1 \in DOMAIN queue /\ q[i] = queue[i + 1]
        BY <2>3
      <3> QED BY <3>1, <2>4 DEF NoClose
    <2>5. ASSUME NEW i \in DOMAIN q, q[i].type = "close"
          PROVE  i = Len(q) /\ AllPop(t) /\ ~NoClose(queue)
      <3>1. i + 1 \in DOMAIN queue /\ queue[i + 1].type = "close"
        BY <2>3, <2>5
      <3>2. i + 1 = Len(queue) /\ AllPop(strand)
        BY <3>1 DEF Orderly
      <3> QED BY <3>1, <3>2, <2>3, <1>3 DEF NoClose
    <2>6. ~posted => NoClose(t) /\ NoClose(q)
      BY <1>3, <2>4 DEF Orderly
    <2>7. NoClose(t) \/ NoClose(q)
      BY <1>3, <2>4 DEF Orderly
    <2>8. CASE q = <<>>
      <3>1. queue2 = <<>> /\ phase2 = "idle" /\ ~closed2
        BY <2>1, <2>2, <2>8, <1>2 DEF Closes
      <3> QED BY <3>1, <1>3, <2>6 DEF Orderly, NoClose, t
    <2>9. CASE q # <<>> /\ Head(q).type = "close"
      <3>1. Closes(queue, op)
        BY <2>2, <2>9 DEF Closes
      <3>2. queue2 = Tail(q) /\ closed2 /\ phase2 = "idle"
        BY <3>1, <2>1, <2>2
      <3>3. 1 \in DOMAIN q /\ q[1].type = "close"
        BY <2>3, <2>9, TailFacts
      <3>4. Len(q) = 1 /\ AllPop(t) /\ ~NoClose(queue)
        BY <3>3, <2>5
      <3>5. t = <<>>
        BY <3>4, <2>1, <1>5
      <3>a. q \in Seq(S) /\ q # <<>>
        BY <2>3, <2>9
      <3>b. Tail(q) \in Seq(S) /\ Len(Tail(q)) = Len(q) - 1
        BY <3>a, TailFacts
      <3>6. Tail(q) \in Seq(S) /\ Len(Tail(q)) = 0
        BY <3>b, <3>4
      <3>7. queue2 = <<>>
        BY <3>2, <3>6, EmptyIsLen0
      <3>8. posted
        BY <3>4 DEF Orderly
      <3> QED BY <3>2, <3>5, <3>7, <3>8, <1>3 DEF Orderly, NoClose, t
    <2>10. CASE q # <<>> /\ Head(q).type # "close"
      <3>1. Starts(queue, op) /\ ~Closes(queue, op)
        BY <2>2, <2>10 DEF Closes
      <3>2. queue2 = q /\ phase2 = "header" /\ ~closed2
        BY <3>1, <2>2, <1>2
      <3>3. q[1].type # "close"
        BY <2>3, <2>10, TailFacts
      <3> QED BY <3>2, <3>3, <1>3, <2>5, <2>6, <2>7 DEF Orderly, t
    <2> QED BY <2>8, <2>9, <2>10
  <1> QED BY <1>6, <1>7, <1>8, <1>9, <1>10

\* An operation is posted before close has posted its own, or is that one.
LEMMA PostKeepsOrder ==
    ASSUME NEW S, NEW strand \in Seq(S), NEW queue \in Seq(S), NEW op \in S,
           NEW phase, NEW closed, NEW posted \in BOOLEAN,
           op.type \in {"data", "close"}, op.type = "close" => posted,
           Orderly(strand, queue, phase, closed, FALSE)
    PROVE  Orderly(Append(strand, op), queue, phase, closed, posted)
  <1> DEFINE t == Append(strand, op)
  <1>1. /\ t \in Seq(S) /\ Len(strand) \in Nat
        /\ DOMAIN strand = 1..Len(strand) /\ DOMAIN t = 1..Len(strand)+1
        /\ \A i \in 1..Len(strand) : t[i] = strand[i]
        /\ t[Len(strand) + 1] = op
    BY AppendFacts
  <1>2. ~closed /\ NoClose(strand) /\ NoClose(queue)
    BY DEF Orderly
  <1>3. OnePop(strand) => OnePop(t)
    BY PopJoins
  <1> HIDE DEF t
  <1>4. \A i \in DOMAIN t : t[i].type = "close" => i = Len(strand) + 1 /\ op.type = "close"
    BY <1>1, <1>2 DEF NoClose
  <1>5. CloseLast(t)
    BY <1>1, <1>4 DEF CloseLast
  <1>6. ~posted => NoClose(t)
    BY <1>4 DEF NoClose
  <1>7. queue # <<>> /\ phase = "idle" => OnePop(t)
    BY <1>3 DEF Orderly
  <1>8. \A i \in DOMAIN queue : queue[i].type # "close"
    BY <1>2 DEF NoClose
  <1> QED BY <1>2, <1>5, <1>6, <1>7, <1>8 DEF Orderly, t

\* The pop of an operation that has been read or written.
LEMMA RequeueKeepsOrder ==
    ASSUME NEW S, NEW strand \in Seq(S), NEW queue \in Seq(S), Pop \in S,
           NEW phase, NEW closed, NEW posted,
           phase # "idle", AtMostOne(strand, queue, phase),
           Orderly(strand, queue, phase, closed, posted)
    PROVE  Orderly(Append(strand, Pop), queue, "idle", closed, posted)
  <1> DEFINE t == Append(strand, Pop)
  <1>1. /\ t \in Seq(S) /\ Len(strand) \in Nat
        /\ DOMAIN strand = 1..Len(strand) /\ DOMAIN t = 1..Len(strand)+1
        /\ \A i \in 1..Len(strand) : t[i] = strand[i]
        /\ t[Len(strand) + 1] = Pop
    BY AppendFacts
  <1>2. ~closed
    BY DEF Orderly
  <1>3. OnePop(t)
    BY OpsType, PopJoins DEF AtMostOne
  <1> HIDE DEF t
  <1>p. Pop.type = "pop"
    BY OpsType
  <1>4. NoClose(strand) => NoClose(t)
    BY <1>1, <1>p DEF NoClose
  <1>5. AllPop(strand) => AllPop(t)
    BY <1>1, <1>p DEF AllPop
  <1>6. CloseLast(t)
    <2> SUFFICES ASSUME NEW i \in DOMAIN t, NEW j \in DOMAIN t,
                        t[i].type = "close", j > i
                 PROVE  t[j].type = "pop"
      BY DEF CloseLast
    <2>1. CASE j = Len(strand) + 1
      BY <2>1, <1>1, <1>p
    <2>2. CASE j # Len(strand) + 1
      <3>1. i \in DOMAIN strand /\ j \in DOMAIN strand /\ t[i] = strand[i] /\ t[j] = strand[j]
        BY <2>2, <1>1
      <3> QED BY <3>1 DEF Orderly, CloseLast
    <2> QED BY <2>1, <2>2
  <1> QED BY <1>2, <1>3, <1>4, <1>5, <1>6 DEF Orderly, t

\* While a read or write is in progress its phases do not matter.
LEMMA PhaseKeepsOrder ==
    ASSUME NEW strand, NEW queue, NEW phase, NEW phase2, NEW closed, NEW posted,
           phase # "idle", phase2 # "idle",
           Orderly(strand, queue, phase, closed, posted)
    PROVE  Orderly(strand, queue, phase2, closed, posted)
  BY DEF Orderly

\* From what the actions do to one side to the order on both.
LEMMA SetOutOrder ==
    ASSUME TypeInv, OrderInv, NEW p \in Side, NEW o \in OutType, SetOut(p, o), UNCHANGED inn,
           out[p].closed => o.closed,
           \A q \in Side : /\ InPosted(q)' = InPosted(q)
                           /\ q # p => OutPosted(q)' = OutPosted(q),
           Orderly(o.strand, o.queue, o.phase, o.closed, OutPosted(p)')
    PROVE  /\ OutOrder' /\ InnOrder'
           /\ \A q \in Side : /\ out[q].closed => out'[q].closed
                              /\ inn[q].closed => inn'[q].closed
  <1>1. /\ out'[p] = o
        /\ \A q \in Side : q # p => out'[q] = out[q]
    BY DEF SetOut, TypeInv, OutInv
  <1>2. OutOrder'
    <2> SUFFICES ASSUME NEW q \in Side
                 PROVE  Orderly(out'[q].strand, out'[q].queue, out'[q].phase,
                                out'[q].closed, OutPosted(q)')
      BY DEF OutOrder, Orderly, NoClose, AllPop, CloseLast, OnePop
    <2>1. CASE q = p
      BY <2>1, <1>1
    <2>2. CASE q # p
      BY <2>2, <1>1 DEF OrderInv, OutOrder
    <2> QED BY <2>1, <2>2
  <1>3. InnOrder'
    BY DEF OrderInv, InnOrder, Orderly, NoClose, AllPop, CloseLast, OnePop
  <1> QED BY <1>1, <1>2, <1>3

\* The same for what is done to a receive half.
LEMMA SetInOrder ==
    ASSUME TypeInv, OrderInv, NEW p \in Side, NEW r \in InType, SetIn(p, r), UNCHANGED out,
           inn[p].closed => r.closed,
           \A q \in Side : /\ OutPosted(q)' = OutPosted(q)
                           /\ q # p => InPosted(q)' = InPosted(q),
           Orderly(r.strand, r.queue, r.phase, r.closed, InPosted(p)')
    PROVE  /\ OutOrder' /\ InnOrder'
           /\ \A q \in Side : /\ out[q].closed => out'[q].closed
                              /\ inn[q].closed => inn'[q].closed
  <1>1. /\ inn'[p] = r
        /\ \A q \in Side : q # p => inn'[q] = inn[q]
    BY DEF SetIn, TypeInv, InInv
  <1>2. InnOrder'
    <2> SUFFICES ASSUME NEW q \in Side
                 PROVE  Orderly(inn'[q].strand, inn'[q].queue, inn'[q].phase,
                                inn'[q].closed, InPosted(q)')
      BY DEF InnOrder, Orderly, NoClose, AllPop, CloseLast, OnePop
    <2>1. CASE q = p
      BY <2>1, <1>1
    <2>2. CASE q # p
      BY <2>2, <1>1 DEF OrderInv, InnOrder
    <2> QED BY <2>1, <2>2
  <1>3. OutOrder'
    BY DEF OrderInv, OutOrder, Orderly, NoClose, AllPop, CloseLast, OnePop
  <1> QED BY <1>1, <1>2, <1>3

\* Queues and strands stay; so does what close has posted.
LEMMA QueuesSame ==
    ASSUME OrderInv, UNCHANGED <<out, inn>>,
           \A p \in Side : /\ OutPosted(p)' = OutPosted(p)
                           /\ InPosted(p)' = InPosted(p)
    PROVE  OutOrder' /\ InnOrder'
  <1>1. OutOrder'
    BY DEF OrderInv, OutOrder, Orderly, NoClose, AllPop, CloseLast, OnePop
  <1>2. InnOrder'
    BY DEF OrderInv, InnOrder, Orderly, NoClose, AllPop, CloseLast, OnePop
  <1> QED BY <1>1, <1>2

\* A handler of the I/O threads: it changes no user and no closer.
LEMMA CloserSame ==
    ASSUME TypeInv, OrderInv, UNCHANGED <<script, user, closer>>,
           \A q \in Side : /\ out[q].closed => out'[q].closed
                           /\ inn[q].closed => inn'[q].closed
    PROVE  CloserInv'
  BY DEF OrderInv, CloserInv, UserDone

\* What is posted depends on the thread that closes, and on nothing else.
LEMMA PostedSame ==
    ASSUME UNCHANGED closer
    PROVE  \A q \in Side : OutPosted(q)' = OutPosted(q) /\ InPosted(q)' = InPosted(q)
  BY DEF OutPosted, InPosted

\* What the invariants say of one side.
LEMMA SideFacts ==
    ASSUME TypeInv, OrderInv, NEW p \in Side
    PROVE  /\ out[p] \in OutType /\ inn[p] \in InType
           /\ NotTwice(out[p]) /\ NotTwice(inn[p])
           /\ out[p].strand \in Seq(SendOp) /\ out[p].queue \in Seq(SendOp)
           /\ inn[p].strand \in Seq(RecvOp) /\ inn[p].queue \in Seq(RecvOp)
           /\ out[p].closed \in BOOLEAN /\ inn[p].closed \in BOOLEAN
           /\ Orderly(out[p].strand, out[p].queue, out[p].phase, out[p].closed, OutPosted(p))
           /\ Orderly(inn[p].strand, inn[p].queue, inn[p].phase, inn[p].closed, InPosted(p))
           /\ OutPosted(p) \in BOOLEAN /\ InPosted(p) \in BOOLEAN
  <1>1. /\ out[p] \in OutType /\ inn[p] \in InType
        /\ NotTwice(out[p]) /\ NotTwice(inn[p])
    BY DEF TypeInv, OutInv, InInv
  <1>2. /\ Orderly(out[p].strand, out[p].queue, out[p].phase, out[p].closed, OutPosted(p))
        /\ Orderly(inn[p].strand, inn[p].queue, inn[p].phase, inn[p].closed, InPosted(p))
    BY DEF OrderInv, OutOrder, InnOrder
  <1>3. OutPosted(p) \in BOOLEAN /\ InPosted(p) \in BOOLEAN
    BY DEF OutPosted, InPosted
  <1> QED BY <1>1, <1>2, <1>3 DEF OutType, InType

\* OrderInv holds of a new channel.
LEMMA InitOrder == ASSUME Init PROVE OrderInv
  <1>1. /\ out = [p \in Side |-> NewOut] /\ inn = [p \in Side |-> NewIn]
        /\ closer = [p \in Side |-> "open"]
        /\ user = [p \in Side |-> [pc |-> "call", at |-> 1]]
    BY DEF Init
  <1>2. \A p \in Side : /\ out[p] = NewOut /\ inn[p] = NewIn /\ closer[p] = "open"
                        /\ user[p].pc = "call"
    BY <1>1
  <1>5. OutOrder
    <2> SUFFICES ASSUME NEW p \in Side
                 PROVE  Orderly(out[p].strand, out[p].queue, out[p].phase,
                                out[p].closed, OutPosted(p))
      BY DEF OutOrder
    <2>1. /\ out[p].strand = <<>> /\ out[p].queue = <<>>
          /\ out[p].phase = "idle" /\ out[p].closed = FALSE
      BY <1>2 DEF NewOut
    <2>2. ~OutPosted(p)
      BY <1>2 DEF OutPosted
    <2> QED BY <2>1, <2>2 DEF Orderly, NoClose, CloseLast
  <1>6. InnOrder
    <2> SUFFICES ASSUME NEW p \in Side
                 PROVE  Orderly(inn[p].strand, inn[p].queue, inn[p].phase,
                                inn[p].closed, InPosted(p))
      BY DEF InnOrder
    <2>1. /\ inn[p].strand = <<>> /\ inn[p].queue = <<>>
          /\ inn[p].phase = "idle" /\ inn[p].closed = FALSE
      BY <1>2 DEF NewIn
    <2>2. ~InPosted(p)
      BY <1>2 DEF InPosted
    <2> QED BY <2>1, <2>2 DEF Orderly, NoClose, CloseLast
  <1>7. CloserInv
    BY <1>2 DEF CloserInv
  <1> QED BY <1>5, <1>6, <1>7 DEF OrderInv

\* The calls of a user keep OrderInv: none is made once close has begun.
LEMMA UserOrder ==
    ASSUME ChannelAssumption, TypeInv, OrderInv, NEW p \in Side, UserStep(p)
    PROVE  OrderInv'
  <1>1. closer[p] = "open" /\ user[p].at <= Len(script[p]) /\ UNCHANGED <<closer, script>>
    <2>1. user[p].at <= Len(script[p])
      BY DEF UserStep, Begin, PostSend, PostRecv, Refuse, Return, UserAt
    <2>2. user[p].at \in Nat /\ Len(script[p]) \in Nat
      BY DEF TypeInv, RestInv
    <2>3. closer[p] = "open"
      BY <2>1, <2>2 DEF OrderInv, CloserInv, UserDone
    <2>4. UNCHANGED <<closer, script>>
      BY DEF UserStep, Begin, PostSend, PostRecv, Refuse, Return
    <2> QED BY <2>1, <2>3, <2>4
  <1>2. \A q \in Side : OutPosted(q)' = OutPosted(q) /\ InPosted(q)' = InPosted(q)
    BY <1>1, PostedSame
  <1>3. OutPosted(p) = FALSE /\ InPosted(p) = FALSE /\ OutPosted(p)' = FALSE /\ InPosted(p)' = FALSE
    BY <1>1, <1>2 DEF OutPosted, InPosted
  <1>4. /\ \A q \in Side : q # p => user'[q] = user[q]
        /\ user'[p].pc # "call" => user'[p].at <= Len(script[p])
    <2>1. user \in [Side -> [pc : {"call", "post", "wait"}, at : Nat \ {0}]]
      BY DEF TypeInv, RestInv
    <2>2. \/ user' = [user EXCEPT ![p] = NextCall(user[p])]
          \/ user' = [user EXCEPT ![p] = [user[p] EXCEPT !.pc = "post"]]
          \/ user' = [user EXCEPT ![p] = [user[p] EXCEPT !.pc = "wait"]]
      BY DEF UserStep, Begin, PostSend, PostRecv, Refuse, Return, AfterPost
    <2> QED BY <2>1, <2>2, <1>1 DEF NextCall
  <1>5. ASSUME \A q \in Side : /\ out[q].closed => out'[q].closed
                               /\ inn[q].closed => inn'[q].closed
        PROVE  CloserInv'
    <2> SUFFICES ASSUME NEW q \in Side
                 PROVE  /\ user'[q].pc # "call" => user'[q].at <= Len(script'[q])
                        /\ closer'[q] # "open" => user'[q].at > Len(script'[q])
                        /\ closer'[q] = "closed" => out'[q].closed /\ inn'[q].closed
      BY DEF CloserInv, UserDone
    <2>1. CASE q = p
      BY <2>1, <1>1, <1>4
    <2>2. CASE q # p
      BY <2>2, <1>1, <1>4, <1>5 DEF OrderInv, CloserInv, UserDone
    <2> QED BY <2>1, <2>2
  <1>6. CASE UNCHANGED <<out, inn>>
    <2>1. CloserInv'
      BY <1>5, <1>6
    <2> QED BY <2>1, <1>2, <1>6, QueuesSame DEF OrderInv
  <1>7. CASE PostSend(p)
    <2> DEFINE c == NowCall(p)
               op == Operation("data", Len(sent[p]) + 1, Cut(c.len), c.type = "send")
               o == [out[p] EXCEPT !.strand = Append(@, op)]
    <2>1. SetOut(p, o) /\ UNCHANGED inn /\ IsSend(c)
      BY <1>7 DEF PostSend
    <2>2. op \in SendOp /\ op.type = "data"
      <3> DEFINE sync == c.type = "send"
                 k == Len(sent[p]) + 1
                 len == Cut(c.len)
      <3>1. k \in Nat /\ sync \in BOOLEAN /\ len \in Nat
        BY <2>1, <1>1, CallFacts DEF TypeInv, RestInv
      <3> HIDE DEF sync, k, len
      <3>2. Operation("data", k, len, sync) \in SendOp
        BY <3>1, OpsType
      <3>3. Operation("data", k, len, sync).type = "data"
        BY <3>1, OpsType
      <3> QED BY <3>2, <3>3 DEF sync, k, len
    <2> HIDE DEF op
    <2>3. o \in OutType
      BY <2>2, SideFacts, PostOut
    <2>4. /\ o.strand = Append(out[p].strand, op) /\ o.queue = out[p].queue
          /\ o.phase = out[p].phase /\ o.closed = out[p].closed
      BY SideFacts DEF OutType
    <2>5. Orderly(Append(out[p].strand, op), out[p].queue, out[p].phase, out[p].closed, FALSE)
      BY <1>3, <2>2, SideFacts, PostKeepsOrder
    <2> HIDE DEF o
    <2>6. Orderly(o.strand, o.queue, o.phase, o.closed, OutPosted(p)')
      BY <1>3, <2>4, <2>5
    <2>7. /\ OutOrder' /\ InnOrder'
          /\ \A q \in Side : /\ out[q].closed => out'[q].closed
                             /\ inn[q].closed => inn'[q].closed
      BY <1>2, <2>1, <2>3, <2>4, <2>6, SetOutOrder
    <2> QED BY <2>7, <1>5 DEF OrderInv
  <1>8. CASE PostRecv(p)
    <2> DEFINE c == NowCall(p)
               op == Operation("data", asked[p] + 1, Cut(c.len), c.type = "recv")
               r == [inn[p] EXCEPT !.strand = Append(@, op)]
    <2>1. SetIn(p, r) /\ UNCHANGED out
      BY <1>8 DEF PostRecv
    <2>2. op \in RecvOp /\ op.type = "data"
      <3> DEFINE sync == c.type = "recv"
                 k == asked[p] + 1
                 len == Cut(c.len)
      <3>1. k \in Nat /\ sync \in BOOLEAN /\ len \in Nat \cup {AnyLen}
        BY <1>1, CallFacts DEF TypeInv, RestInv
      <3> HIDE DEF sync, k, len
      <3>2. Operation("data", k, len, sync) \in RecvOp
        BY <3>1, OpsType
      <3>3. Operation("data", k, len, sync).type = "data"
        BY <3>1, OpsType
      <3> QED BY <3>2, <3>3 DEF sync, k, len
    <2> HIDE DEF op
    <2>3. r \in InType
      BY <2>2, SideFacts, PostIn
    <2>4. /\ r.strand = Append(inn[p].strand, op) /\ r.queue = inn[p].queue
          /\ r.phase = inn[p].phase /\ r.closed = inn[p].closed
      BY SideFacts DEF InType
    <2>5. Orderly(Append(inn[p].strand, op), inn[p].queue, inn[p].phase, inn[p].closed, FALSE)
      BY <1>3, <2>2, SideFacts, PostKeepsOrder
    <2> HIDE DEF r
    <2>6. Orderly(r.strand, r.queue, r.phase, r.closed, InPosted(p)')
      BY <1>3, <2>4, <2>5
    <2>7. /\ OutOrder' /\ InnOrder'
          /\ \A q \in Side : /\ out[q].closed => out'[q].closed
                             /\ inn[q].closed => inn'[q].closed
      BY <1>2, <2>1, <2>3, <2>4, <2>6, SetInOrder
    <2> QED BY <2>7, <1>5 DEF OrderInv
  <1> QED BY <1>6, <1>7, <1>8 DEF UserStep, Begin, Refuse, Return

\* The steps of close keep OrderInv: nothing is posted after its operations.
LEMMA CloserOrder ==
    ASSUME ~CloseEarly, TypeInv, OrderInv, NEW p \in Side, CloserStep(p)
    PROVE  OrderInv'
  <1>1. /\ closer \in [Side -> {"open", "stopped", "recvPosted", "waiting", "closed"}]
        /\ UNCHANGED <<user, script>>
    BY DEF TypeInv, RestInv, CloserStep, Stop, PostCloseRecv, PostCloseSend, CloseSocket
  <1>2. \A q \in Side : q # p => closer'[q] = closer[q]
    BY <1>1 DEF CloserStep, Stop, PostCloseRecv, PostCloseSend, CloseSocket
  <1>3. closer'[p] # "open" => UserDone(p)
    BY <1>1 DEF OrderInv, CloserInv, CloserStep, Stop, PostCloseRecv, PostCloseSend, CloseSocket
  <1>4. ASSUME closer'[p] = "closed" => out'[p].closed /\ inn'[p].closed,
               \A q \in Side : /\ out[q].closed => out'[q].closed
                               /\ inn[q].closed => inn'[q].closed
        PROVE  CloserInv'
    <2> SUFFICES ASSUME NEW q \in Side
                 PROVE  /\ user'[q].pc # "call" => user'[q].at <= Len(script'[q])
                        /\ closer'[q] # "open" => user'[q].at > Len(script'[q])
                        /\ closer'[q] = "closed" => out'[q].closed /\ inn'[q].closed
      BY DEF CloserInv, UserDone
    <2>1. CASE q = p
      BY <2>1, <1>1, <1>3, <1>4 DEF OrderInv, CloserInv, UserDone
    <2>2. CASE q # p
      BY <2>2, <1>1, <1>2, <1>4 DEF OrderInv, CloserInv, UserDone
    <2> QED BY <2>1, <2>2
  <1>5. CASE Stop(p) \/ CloseSocket(p)
    <2>1. UNCHANGED <<out, inn>>
      BY <1>5 DEF Stop, CloseSocket
    <2>2. /\ closer'[p] = "closed" => out[p].closed /\ inn[p].closed
          /\ OutPosted(p)' = OutPosted(p) /\ InPosted(p)' = InPosted(p)
      BY <1>1, <1>5 DEF Stop, CloseSocket, OutPosted, InPosted
    <2>3. \A q \in Side : OutPosted(q)' = OutPosted(q) /\ InPosted(q)' = InPosted(q)
      BY <1>2, <2>2 DEF OutPosted, InPosted
    <2>4. CloserInv'
      BY <1>4, <2>1, <2>2
    <2> QED BY <2>1, <2>3, <2>4, QueuesSame DEF OrderInv
  <1>6. CASE PostCloseRecv(p)
    <2> DEFINE r == [inn[p] EXCEPT !.strand = Append(@, CloseOp)]
    <2>1. SetIn(p, r) /\ UNCHANGED out /\ closer[p] = "stopped" /\ closer'[p] = "recvPosted"
      BY <1>1, <1>6 DEF PostCloseRecv
    <2>2. /\ \A q \in Side : /\ OutPosted(q)' = OutPosted(q)
                             /\ q # p => InPosted(q)' = InPosted(q)
          /\ InPosted(p) = FALSE /\ InPosted(p)' = TRUE
      BY <1>2, <2>1 DEF OutPosted, InPosted
    <2>3. r \in InType
      BY SideFacts, OpsType, PostIn
    <2>4. /\ r.strand = Append(inn[p].strand, CloseOp) /\ r.queue = inn[p].queue
          /\ r.phase = inn[p].phase /\ r.closed = inn[p].closed
      BY SideFacts DEF InType
    <2>5. Orderly(Append(inn[p].strand, CloseOp), inn[p].queue, inn[p].phase, inn[p].closed, TRUE)
      BY <2>2, SideFacts, OpsType, PostKeepsOrder
    <2> HIDE DEF r
    <2>6. Orderly(r.strand, r.queue, r.phase, r.closed, InPosted(p)')
      BY <2>2, <2>4, <2>5
    <2>7. /\ OutOrder' /\ InnOrder'
          /\ \A q \in Side : /\ out[q].closed => out'[q].closed
                             /\ inn[q].closed => inn'[q].closed
      BY <2>1, <2>2, <2>3, <2>4, <2>6, SetInOrder
    <2> QED BY <2>1, <2>7, <1>4 DEF OrderInv
  <1>7. CASE PostCloseSend(p)
    <2> DEFINE o == [out[p] EXCEPT !.strand = Append(@, CloseOp)]
    <2>1. SetOut(p, o) /\ UNCHANGED inn /\ closer[p] = "recvPosted" /\ closer'[p] = "waiting"
      BY <1>1, <1>7 DEF PostCloseSend
    <2>2. /\ \A q \in Side : /\ InPosted(q)' = InPosted(q)
                             /\ q # p => OutPosted(q)' = OutPosted(q)
          /\ OutPosted(p) = FALSE /\ OutPosted(p)' = TRUE
      BY <1>2, <2>1 DEF OutPosted, InPosted
    <2>3. o \in OutType
      BY SideFacts, OpsType, PostOut
    <2>4. /\ o.strand = Append(out[p].strand, CloseOp) /\ o.queue = out[p].queue
          /\ o.phase = out[p].phase /\ o.closed = out[p].closed
      BY SideFacts DEF OutType
    <2>5. Orderly(Append(out[p].strand, CloseOp), out[p].queue, out[p].phase, out[p].closed, TRUE)
      BY <2>2, SideFacts, OpsType, PostKeepsOrder
    <2> HIDE DEF o
    <2>6. Orderly(o.strand, o.queue, o.phase, o.closed, OutPosted(p)')
      BY <2>2, <2>4, <2>5
    <2>7. /\ OutOrder' /\ InnOrder'
          /\ \A q \in Side : /\ out[q].closed => out'[q].closed
                             /\ inn[q].closed => inn'[q].closed
      BY <2>1, <2>2, <2>3, <2>4, <2>6, SetOutOrder
    <2> QED BY <2>1, <2>7, <1>4 DEF OrderInv
  <1> QED BY <1>5, <1>6, <1>7 DEF CloserStep

\* A step that touches no queue, no user and no closer keeps OrderInv.
LEMMA StillOrder ==
    ASSUME TypeInv, OrderInv, UNCHANGED <<script, user, closer, out, inn>>
    PROVE  OrderInv'
  <1>1. CloserInv'
    BY CloserSame
  <1> QED BY <1>1, PostedSame, QueuesSame DEF OrderInv

\* A handler that changes only one side's half of the socket.
LEMMA OutHandlerOrder ==
    ASSUME TypeInv, OrderInv, NEW p \in Side, NEW o \in OutType, SetOut(p, o),
           UNCHANGED <<script, user, closer, inn>>,
           out[p].closed => o.closed,
           Orderly(o.strand, o.queue, o.phase, o.closed, OutPosted(p))
    PROVE  OrderInv'
  <1>1. \A q \in Side : OutPosted(q)' = OutPosted(q) /\ InPosted(q)' = InPosted(q)
    BY PostedSame
  <1>2. Orderly(o.strand, o.queue, o.phase, o.closed, OutPosted(p)')
    BY <1>1
  <1>3. /\ OutOrder' /\ InnOrder'
        /\ \A q \in Side : /\ out[q].closed => out'[q].closed
                           /\ inn[q].closed => inn'[q].closed
    BY <1>1, <1>2, SetOutOrder
  <1> QED BY <1>3, CloserSame DEF OrderInv

\* The same for the receive half.
LEMMA InHandlerOrder ==
    ASSUME TypeInv, OrderInv, NEW p \in Side, NEW r \in InType, SetIn(p, r),
           UNCHANGED <<script, user, closer, out>>,
           inn[p].closed => r.closed,
           Orderly(r.strand, r.queue, r.phase, r.closed, InPosted(p))
    PROVE  OrderInv'
  <1>1. \A q \in Side : OutPosted(q)' = OutPosted(q) /\ InPosted(q)' = InPosted(q)
    BY PostedSame
  <1>2. Orderly(r.strand, r.queue, r.phase, r.closed, InPosted(p)')
    BY <1>1
  <1>3. /\ OutOrder' /\ InnOrder'
        /\ \A q \in Side : /\ out[q].closed => out'[q].closed
                           /\ inn[q].closed => inn'[q].closed
    BY <1>1, <1>2, SetInOrder
  <1> QED BY <1>3, CloserSame DEF OrderInv

\* The handlers of the strands keep OrderInv.
LEMMA StrandOrder ==
    ASSUME TypeInv, OrderInv, NEW p \in Side, RunSendStrand(p) \/ RunRecvStrand(p)
    PROVE  OrderInv'
  <1>1. CASE RunSendStrand(p)
    <2> DEFINE o == out[p]
               op == Head(o.strand)
               n == RunPosted(Count([o EXCEPT !.strand = Tail(@)], op.len), op)
    <2>1. SetOut(p, n) /\ o.strand # <<>> /\ UNCHANGED <<script, user, closer, inn>>
      BY <1>1 DEF RunSendStrand
    <2>2. /\ o \in OutType /\ NotTwice(o) /\ o.closed \in BOOLEAN
          /\ o.strand \in Seq(SendOp) /\ o.queue \in Seq(SendOp)
          /\ OutPosted(p) \in BOOLEAN
          /\ Orderly(o.strand, o.queue, o.phase, o.closed, OutPosted(p))
      BY SideFacts
    <2>s. op \in SendOp
      BY <2>1, <2>2, TailFacts
    <2> HIDE DEF o
    <2> HIDE DEF op
    <2>3. op.type \in {"data", "close", "pop"}
      BY <2>s DEF SendOp, OpType
    <2> USE DEF op
    <2>4. /\ n \in OutType /\ n.strand = Tail(o.strand)
          /\ n.queue = IF Closes(o.queue, op) THEN Tail(Changed(o.queue, op))
                                              ELSE Changed(o.queue, op)
          /\ n.phase = IF Starts(o.queue, op) /\ ~Closes(o.queue, op)
                       THEN "header" ELSE o.phase
          /\ n.closed = IF Closes(o.queue, op) THEN TRUE ELSE o.closed
      BY <2>1, <2>2, RunOutInv
    <2> HIDE DEF n
    <2>5. AtMostOne(o.strand, o.queue, o.phase)
      BY <2>2 DEF NotTwice
    <2> HIDE DEF op
    <2>6. op = Head(o.strand)
      BY DEF op
    <2>7. Orderly(Tail(o.strand), n.queue, n.phase, n.closed, OutPosted(p))
      BY <2>1, <2>2, <2>3, <2>4, <2>5, <2>6, RunKeepsOrder
    <2>8. Orderly(n.strand, n.queue, n.phase, n.closed, OutPosted(p))
      BY <2>4, <2>7
    <2>9. out[p].closed => n.closed
      BY <2>4 DEF o
    <2> QED BY <2>1, <2>4, <2>8, <2>9, OutHandlerOrder
  <1>2. CASE RunRecvStrand(p)
    <2> DEFINE r == inn[p]
               op == Head(r.strand)
               n == RunPosted([r EXCEPT !.strand = Tail(@)], op)
    <2>1. SetIn(p, n) /\ r.strand # <<>> /\ UNCHANGED <<script, user, closer, out>>
      BY <1>2 DEF RunRecvStrand
    <2>2. /\ r \in InType /\ NotTwice(r) /\ r.closed \in BOOLEAN
          /\ r.strand \in Seq(RecvOp) /\ r.queue \in Seq(RecvOp)
          /\ InPosted(p) \in BOOLEAN
          /\ Orderly(r.strand, r.queue, r.phase, r.closed, InPosted(p))
      BY SideFacts
    <2>s. op \in RecvOp
      BY <2>1, <2>2, TailFacts
    <2> HIDE DEF r
    <2> HIDE DEF op
    <2>3. op.type \in {"data", "close", "pop"}
      BY <2>s DEF RecvOp, OpType
    <2> USE DEF op
    <2>4. /\ n \in InType /\ n.strand = Tail(r.strand)
          /\ n.queue = IF Closes(r.queue, op) THEN Tail(Changed(r.queue, op))
                                              ELSE Changed(r.queue, op)
          /\ n.phase = IF Starts(r.queue, op) /\ ~Closes(r.queue, op)
                       THEN "header" ELSE r.phase
          /\ n.closed = IF Closes(r.queue, op) THEN TRUE ELSE r.closed
      BY <2>1, <2>2, RunInInv
    <2> HIDE DEF n
    <2>5. AtMostOne(r.strand, r.queue, r.phase)
      BY <2>2 DEF NotTwice
    <2> HIDE DEF op
    <2>6. op = Head(r.strand)
      BY DEF op
    <2>7. Orderly(Tail(r.strand), n.queue, n.phase, n.closed, InPosted(p))
      BY <2>1, <2>2, <2>3, <2>4, <2>5, <2>6, RunKeepsOrder
    <2>8. Orderly(n.strand, n.queue, n.phase, n.closed, InPosted(p))
      BY <2>4, <2>7
    <2>9. inn[p].closed => n.closed
      BY <2>4 DEF r
    <2> QED BY <2>1, <2>4, <2>8, <2>9, InHandlerOrder
  <1> QED BY <1>1, <1>2

\* The read or write in progress goes on, or gives way to its pop.
LEMMA WriteOrder ==
    ASSUME TypeInv, TypeInv', OrderInv, NEW p \in Side,
           WritePart(p) \/ WriteDone(p) \/ WriteRequeue(p)
    PROVE  OrderInv'
  <1> DEFINE o == out[p]
  <1>1. /\ o \in OutType /\ NotTwice(o)
        /\ o.strand \in Seq(SendOp) /\ o.queue \in Seq(SendOp)
        /\ Orderly(o.strand, o.queue, o.phase, o.closed, OutPosted(p))
    BY SideFacts
  <1>2. o.phase # "idle" /\ UNCHANGED <<script, user, closer, inn>>
    BY DEF WritePart, WriteDone, WriteRequeue, Writing
  <1>3. out'[p] \in OutType /\ SetOut(p, out'[p])
    <2>1. out'[p] \in OutType
      BY DEF TypeInv, OutInv
    <2>2. \E n : SetOut(p, n)
      BY DEF WritePart, WriteDone, WriteRequeue
    <2> QED BY <2>1, <2>2 DEF SetOut, TypeInv, OutInv
  <1>4. CASE WritePart(p) \/ WriteDone(p)
    <2>1. /\ out'[p].strand = o.strand /\ out'[p].queue = o.queue
          /\ out'[p].closed = o.closed /\ out'[p].phase # "idle"
      <3>1. CASE WritePart(p)
        <4>1. PICK op, part : out'[p] = Taken(o, op, part)
          BY <3>1 DEF WritePart, SetOut, TypeInv, OutInv
        <4> QED BY <4>1, <1>1 DEF Taken, OutType
      <3>2. CASE WriteDone(p)
        <4>1. PICK op : out'[p] = Written(o, op)
          BY <3>2 DEF WriteDone, SetOut, TypeInv, OutInv
        <4> QED BY <4>1, <1>1 DEF Written, OutType
      <3> QED BY <1>4, <3>1, <3>2
    <2>2. Orderly(o.strand, o.queue, out'[p].phase, o.closed, OutPosted(p))
      BY <1>1, <1>2, <2>1, PhaseKeepsOrder
    <2>3. Orderly(out'[p].strand, out'[p].queue, out'[p].phase, out'[p].closed, OutPosted(p))
      BY <2>1, <2>2
    <2> QED BY <1>2, <1>3, <2>1, <2>3, OutHandlerOrder
  <1>5. CASE WriteRequeue(p)
    <2>1. /\ out'[p].strand = Append(o.strand, Pop) /\ out'[p].queue = o.queue
          /\ out'[p].closed = o.closed /\ out'[p].phase = "idle"
      BY <1>1, <1>5 DEF WriteRequeue, SetOut, TypeInv, OutInv, OutType
    <2>2. Orderly(Append(o.strand, Pop), o.queue, "idle", o.closed, OutPosted(p))
      BY <1>1, <1>2, OpsType, RequeueKeepsOrder DEF NotTwice
    <2>3. Orderly(out'[p].strand, out'[p].queue, out'[p].phase, out'[p].closed, OutPosted(p))
      BY <2>1, <2>2
    <2> QED BY <1>2, <1>3, <2>1, <2>3, OutHandlerOrder
  <1> QED BY <1>4, <1>5

\* The same for a read.
LEMMA ReadOrder ==
    ASSUME TypeInv, TypeInv', OrderInv, NEW p \in Side,
           ReadHeader(p) \/ ReadBody(p) \/ ReadDone(p) \/ ReadRequeue(p)
    PROVE  OrderInv'
  <1> DEFINE r == inn[p]
  <1>1. /\ r \in InType /\ NotTwice(r)
        /\ r.strand \in Seq(RecvOp) /\ r.queue \in Seq(RecvOp)
        /\ Orderly(r.strand, r.queue, r.phase, r.closed, InPosted(p))
    BY SideFacts
  <1>2. r.phase # "idle" /\ UNCHANGED <<script, user, closer, out>>
    BY DEF ReadHeader, ReadBody, ReadDone, ReadRequeue, Reading
  <1>3. inn'[p] \in InType /\ SetIn(p, inn'[p])
    <2>1. inn'[p] \in InType
      BY DEF TypeInv, InInv
    <2>2. \E n : SetIn(p, n)
      BY DEF ReadHeader, ReadBody, ReadDone, ReadRequeue
    <2> QED BY <2>1, <2>2 DEF SetIn, TypeInv, InInv
  <1>4. CASE ReadHeader(p) \/ ReadBody(p) \/ ReadDone(p)
    <2>1. /\ inn'[p].strand = r.strand /\ inn'[p].queue = r.queue
          /\ inn'[p].closed = r.closed /\ inn'[p].phase # "idle"
      <3>1. CASE ReadHeader(p)
        <4>1. PICK op, item : inn'[p] \in {Sized(r), Mismatch(r, op, item)}
          BY <3>1 DEF ReadHeader, SetIn, TypeInv, InInv
        <4> QED BY <4>1, <1>1 DEF Sized, Mismatch, InType
      <3>2. CASE ReadBody(p)
        BY <3>2, <1>1 DEF ReadBody, SetIn, TypeInv, InInv, InType
      <3>3. CASE ReadDone(p)
        BY <3>3, <1>1 DEF ReadDone, SetIn, TypeInv, InInv, InType
      <3> QED BY <1>4, <3>1, <3>2, <3>3
    <2>2. Orderly(r.strand, r.queue, inn'[p].phase, r.closed, InPosted(p))
      BY <1>1, <1>2, <2>1, PhaseKeepsOrder
    <2>3. Orderly(inn'[p].strand, inn'[p].queue, inn'[p].phase, inn'[p].closed, InPosted(p))
      BY <2>1, <2>2
    <2> QED BY <1>2, <1>3, <2>1, <2>3, InHandlerOrder
  <1>5. CASE ReadRequeue(p)
    <2>1. /\ inn'[p].strand = Append(r.strand, Pop) /\ inn'[p].queue = r.queue
          /\ inn'[p].closed = r.closed /\ inn'[p].phase = "idle"
      BY <1>1, <1>5 DEF ReadRequeue, SetIn, TypeInv, InInv, InType
    <2>2. Orderly(Append(r.strand, Pop), r.queue, "idle", r.closed, InPosted(p))
      BY <1>1, <1>2, OpsType, RequeueKeepsOrder DEF NotTwice
    <2>3. Orderly(inn'[p].strand, inn'[p].queue, inn'[p].phase, inn'[p].closed, InPosted(p))
      BY <2>1, <2>2
    <2> QED BY <1>2, <1>3, <2>1, <2>3, InHandlerOrder
  <1> QED BY <1>4, <1>5

\* Every step keeps OrderInv if close waits for its user.
LEMMA StepOrder ==
    ASSUME ChannelAssumption, ~CloseEarly, TypeInv, TypeInv', OrderInv, [Next]_vars
    PROVE  OrderInv'
  <1>1. ASSUME NEW p \in Side, UserStep(p)
        PROVE  OrderInv'
    BY <1>1, UserOrder
  <1>2. ASSUME NEW p \in Side, CloserStep(p)
        PROVE  OrderInv'
    BY <1>2, CloserOrder
  <1>3. ASSUME NEW p \in Side, RunSendStrand(p) \/ RunRecvStrand(p)
        PROVE  OrderInv'
    BY <1>3, StrandOrder
  <1>4. ASSUME NEW p \in Side, WritePart(p) \/ WriteDone(p) \/ WriteRequeue(p)
        PROVE  OrderInv'
    BY <1>4, WriteOrder
  <1>5. ASSUME NEW p \in Side, ReadHeader(p) \/ ReadBody(p) \/ ReadDone(p) \/ ReadRequeue(p)
        PROVE  OrderInv'
    BY <1>5, ReadOrder
  <1>6. ASSUME NEW p \in Side, WriteFails(p) \/ ReadFails(p) \/ Fail(p)
        PROVE  OrderInv'
    BY <1>6, StillOrder DEF WriteFails, ReadFails, Fail, Abort
  <1>7. CASE UNCHANGED vars
    BY <1>7, StillOrder DEF vars
  <1> QED BY <1>1, <1>2, <1>3, <1>4, <1>5, <1>6, <1>7 DEF Next, WriteStep, ReadStep

\* A queue that has exactly one driver, as a count of the posted pops.
LEMMA DrivenByCount ==
    ASSUME NEW side, AtMostOne(side.strand, side.queue, side.phase),
           side.queue # <<>> /\ side.phase = "idle" => OnePop(side.strand)
    PROVE  Driven(side)
  <1>1. CASE NoPop(side.strand)
    <2>1. Pops(side) = {}
      BY <1>1 DEF NoPop, Pops
    <2>2. Cardinality(Pops(side)) = 0
      BY <2>1, FS_EmptySet
    <2>3. side.queue # <<>> <=> side.phase # "idle"
      <3>1. ~OnePop(side.strand)
        BY <1>1 DEF NoPop, OnePop
      <3> QED BY <3>1 DEF AtMostOne
    <2> QED BY <2>2, <2>3 DEF Driven
  <1>2. CASE OnePop(side.strand)
    <2>1. PICK i \in DOMAIN side.strand :
            /\ side.strand[i].type = "pop"
            /\ \A j \in DOMAIN side.strand : side.strand[j].type = "pop" => j = i
      BY <1>2 DEF OnePop
    <2>2. Pops(side) = {i}
      BY <2>1 DEF Pops
    <2>3. Cardinality(Pops(side)) = 1
      BY <2>2, FS_Singleton
    <2>4. side.queue # <<>> /\ side.phase = "idle"
      BY <1>2, <2>1 DEF AtMostOne, NoPop
    <2> QED BY <2>3, <2>4 DEF Driven
  <1> QED BY <1>1, <1>2 DEF AtMostOne

\* So TypeInv and OrderInv hold always.
LEMMA OrderHolds == ~CloseEarly => (SafetySpec => [](TypeInv /\ OrderInv))
  <1> SUFFICES ASSUME ~CloseEarly
               PROVE  SafetySpec => [](TypeInv /\ OrderInv)
    OBVIOUS
  <1>1. Init => TypeInv /\ OrderInv
    BY InitType, InitOrder, ChannelAssumption
  <1>2. TypeInv /\ OrderInv /\ [Next]_vars => (TypeInv /\ OrderInv)'
    BY StepType, StepOrder, ChannelAssumption
  <1> QED BY <1>1, <1>2, PTL DEF SafetySpec

\* If close is called when its user is done, then whatever the sides send and
\* receive, and whichever of them fails, every non-empty queue has exactly one
\* read or write in progress or one pop to come: popping and requeueing from
\* outside the strand never stalls a queue and never starts it twice.
THEOREM QueuesDriven == ~CloseEarly => (SafetySpec => []OneDriver)
  <1> SUFFICES ASSUME ~CloseEarly
               PROVE  SafetySpec => []OneDriver
    OBVIOUS
  <1>1. TypeInv /\ OrderInv => OneDriver
    <2> SUFFICES ASSUME TypeInv, OrderInv, NEW p \in Side
                 PROVE  Driven(out[p]) /\ Driven(inn[p])
      BY DEF OneDriver
    <2>1. /\ AtMostOne(out[p].strand, out[p].queue, out[p].phase)
          /\ AtMostOne(inn[p].strand, inn[p].queue, inn[p].phase)
      BY SideFacts DEF NotTwice
    <2>2. /\ out[p].queue # <<>> /\ out[p].phase = "idle" => OnePop(out[p].strand)
          /\ inn[p].queue # <<>> /\ inn[p].phase = "idle" => OnePop(inn[p].strand)
      BY SideFacts DEF Orderly
    <2> QED BY <2>1, <2>2, DrivenByCount
  <1> QED BY <1>1, OrderHolds, PTL

\* Under the same condition, when close has closed the socket and freed the
\* channel no handler, read, write or call that would use them is left.
THEOREM SocketFree == ~CloseEarly => (SafetySpec => []SocketUnused)
  <1> SUFFICES ASSUME ~CloseEarly
               PROVE  SafetySpec => []SocketUnused
    OBVIOUS
  <1>1. TypeInv /\ OrderInv => SocketUnused
    <2> SUFFICES ASSUME TypeInv, OrderInv, NEW p \in Side, closer[p] = "closed"
                 PROVE  /\ user[p].pc = "call"
                        /\ out[p].strand = <<>> /\ out[p].queue = <<>> /\ out[p].phase = "idle"
                        /\ inn[p].strand = <<>> /\ inn[p].queue = <<>> /\ inn[p].phase = "idle"
      BY DEF SocketUnused
    <2>1. out[p].closed /\ inn[p].closed /\ UserDone(p)
      BY DEF OrderInv, CloserInv
    <2>2. user[p].pc = "call"
      <3>1. user[p].at \in Nat /\ Len(script[p]) \in Nat
        BY DEF TypeInv, RestInv
      <3> QED BY <2>1, <3>1 DEF OrderInv, CloserInv, UserDone
    <2> QED BY <2>1, <2>2, SideFacts DEF Orderly
  <1> QED BY <1>1, OrderHolds, PTL

-----------------------------------------------------------------------------
(***************************************************************************)
(* The flow of messages.  The data operations of a side are numbered, and  *)
(* those in its queue and then in its strand are the next ones in order.   *)
(* With how far the operation at the front is, that fixes the headers and  *)
(* bodies on the wire and in the answers.  CloseEarly makes no difference. *)
(***************************************************************************)

\* The data operations of s are numbered a + 1 to b, in order; handlers of close and
\* of finished operations may stand between them.
Run(s, a, b) ==
    /\ a \in Nat /\ b \in Nat /\ a <= b
    /\ \A i \in DOMAIN s : IF s[i].type = "data" THEN s[i].n \in a+1..b ELSE s[i].n = 0
    /\ \A n \in a+1..b : \E i \in DOMAIN s : s[i].type = "data" /\ s[i].n = n
    /\ \A i, j \in DOMAIN s :
          s[i].type = "data" /\ s[j].type = "data" /\ i < j => s[i].n < s[j].n

\* The first from data operations of a side are popped, the rest is queued or posted.
Flows(strand, queue, from, total) ==
    \E mid \in 0..total : Run(queue, from, mid) /\ Run(strand, mid, total)

\* The operation at the front is being worked on, or is finished and to be popped.
Busy(strand, phase) == phase # "idle" \/ ~NoPop(strand)
FrontIsData(strand, queue, phase) ==
    Busy(strand, phase) => queue # <<>> /\ Head(queue).type = "data"

\* Headers and bodies written for the operation at the front.
PutOf(strand, phase) ==
    CASE phase = "header" -> 0
      [] phase = "body" -> 1
      [] phase \in {"written", "pop"} -> 2
      [] phase = "idle" -> IF NoPop(strand) THEN 0 ELSE 2

\* Answers given to operations that are still at the front.
Unpopped(strand, phase) == IF phase \in {"pop", "stuck"} \/ ~NoPop(strand) THEN 1 ELSE 0

\* Headers and bodies a side has read.  An answer stands for both of a message, of
\* which a receive of the wrong size has read only the header.
ItemsRead(answers, phase) ==
    2 * Len(answers) + CASE phase = "body"  -> 1
                         [] phase = "read"  -> 2
                         [] phase = "stuck" -> 0 - 1
                         [] OTHER -> 0

\* The m'th header or body of a side that sends msgs.
Nth(m) == (m + 1) \div 2
ItemAt(msgs, m) == Item(Nth(m), IF m % 2 = 1 THEN "header" ELSE "body", Cut(msgs[Nth(m)]))

\* A sender's operations have the sizes its calls asked for, in 32 bits.
SizesCut(s, msgs) ==
    \A i \in DOMAIN s : s[i].type = "data" => s[i].len = Cut(msgs[s[i].n])

\* A sender of msgs that has written put headers and bodies.
OutFlow(o, put, msgs) ==
    /\ FrontIsData(o.strand, o.queue, o.phase)
    /\ \E from \in 0..Len(msgs) : /\ put = 2 * from + PutOf(o.strand, o.phase)
                                  /\ Flows(o.strand, o.queue, from, Len(msgs))
    /\ SizesCut(o.queue, msgs) /\ SizesCut(o.strand, msgs)
    /\ \A n \in o.returned : n # 0 /\ 2 * n <= put

\* A receiver that was asked for total messages.
InFlow(r, total) ==
    /\ FrontIsData(r.strand, r.queue, r.phase)
    /\ Flows(r.strand, r.queue, Len(r.answers) - Unpopped(r.strand, r.phase), total)

\* What a receiver was given and what is on the wire to it, if the other side sends msgs.
WireFlow(r, w, msgs) ==
    /\ \A j \in 1..Len(w) : w[j] = ItemAt(msgs, ItemsRead(r.answers, r.phase) + j)
    /\ r.phase = "read" => r.got = ItemAt(msgs, ItemsRead(r.answers, r.phase))
    /\ \A i \in 1..Len(r.answers) :
          /\ r.answers[i].n = i /\ r.answers[i].msg = i
          /\ r.answers[i].len = Cut(msgs[i])

PutBy(p) == ItemsRead(inn[Other(p)].answers, inn[Other(p)].phase) + Len(wire[Other(p)])

FlowInv ==
    \A p \in Side :
        /\ OutFlow(out[p], PutBy(p), sent[p])
        /\ InFlow(inn[p], asked[p])
        /\ WireFlow(inn[p], wire[p], sent[Other(p)])

-----------------------------------------------------------------------------
(* Runs. *)

\* A message joins a run at its end.
LEMMA RunAppendData ==
    ASSUME NEW S, NEW s \in Seq(S), NEW a, NEW b, Run(s, a, b),
           NEW e \in S, e.type = "data", e.n = b + 1
    PROVE  Run(Append(s, e), a, b + 1)
  <1> DEFINE t == Append(s, e)
  <1>1. /\ Len(s) \in Nat /\ DOMAIN s = 1..Len(s) /\ DOMAIN t = 1..Len(s)+1
        /\ \A i \in 1..Len(s) : t[i] = s[i]
        /\ t[Len(s) + 1] = e
    BY AppendFacts
  <1> HIDE DEF t
  <1>2. a \in Nat /\ b \in Nat /\ a <= b
    BY DEF Run
  <1>3. ASSUME NEW i \in DOMAIN t
        PROVE  IF t[i].type = "data" THEN t[i].n \in a+1..b+1 ELSE t[i].n = 0
    <2>1. CASE i = Len(s) + 1
      BY <2>1, <1>1, <1>2
    <2>2. CASE i \in 1..Len(s)
      BY <2>2, <1>1, <1>2 DEF Run
    <2> QED BY <1>1, <2>1, <2>2
  <1>4. ASSUME NEW n \in a+1..b+1
        PROVE  \E i \in DOMAIN t : t[i].type = "data" /\ t[i].n = n
    <2>1. CASE n = b + 1
      BY <2>1, <1>1
    <2>2. CASE n \in a+1..b
      BY <2>2, <1>1 DEF Run
    <2> QED BY <1>2, <2>1, <2>2
  <1>5. ASSUME NEW i \in DOMAIN t, NEW j \in DOMAIN t,
               t[i].type = "data", t[j].type = "data", i < j
        PROVE  t[i].n < t[j].n
    <2>1. i \in 1..Len(s)
      BY <1>1, <1>5
    <2>2. CASE j = Len(s) + 1
      BY <2>1, <2>2, <1>1, <1>2, <1>5 DEF Run
    <2>3. CASE j \in 1..Len(s)
      BY <2>1, <2>3, <1>1, <1>5 DEF Run
    <2> QED BY <1>1, <2>2, <2>3
  <1>6. b + 1 \in Nat /\ a <= b + 1
    BY <1>2
  <1>7. Run(t, a, b + 1)
    BY <1>2, <1>3, <1>4, <1>5, <1>6 DEF Run
  <1> QED BY <1>7 DEF t

\* A close or a pop joins a run without a number.
LEMMA RunAppendOther ==
    ASSUME NEW S, NEW s \in Seq(S), NEW a, NEW b, Run(s, a, b),
           NEW e \in S, e.type # "data", e.n = 0
    PROVE  Run(Append(s, e), a, b)
  <1> DEFINE t == Append(s, e)
  <1>1. /\ Len(s) \in Nat /\ DOMAIN s = 1..Len(s) /\ DOMAIN t = 1..Len(s)+1
        /\ \A i \in 1..Len(s) : t[i] = s[i]
        /\ t[Len(s) + 1] = e
    BY AppendFacts
  <1> HIDE DEF t
  <1>2. \A i \in DOMAIN t : i \in DOMAIN s \/ (i = Len(s) + 1 /\ t[i] = e)
    BY <1>1
  <1>3. \A i \in DOMAIN s : i \in DOMAIN t /\ t[i] = s[i]
    BY <1>1
  <1>4. ASSUME NEW i \in DOMAIN t
        PROVE  IF t[i].type = "data" THEN t[i].n \in a+1..b ELSE t[i].n = 0
    BY <1>2, <1>3 DEF Run
  <1>5. ASSUME NEW n \in a+1..b
        PROVE  \E i \in DOMAIN t : t[i].type = "data" /\ t[i].n = n
    BY <1>3 DEF Run
  <1>6. ASSUME NEW i \in DOMAIN t, NEW j \in DOMAIN t,
               t[i].type = "data", t[j].type = "data", i < j
        PROVE  t[i].n < t[j].n
    BY <1>2, <1>3, <1>6 DEF Run
  <1>7. Run(t, a, b)
    BY <1>4, <1>5, <1>6 DEF Run
  <1> QED BY <1>7 DEF t

\* A run whose head is a message loses its first number.
LEMMA RunTailData ==
    ASSUME NEW S, NEW s \in Seq(S), s # <<>>, NEW a, NEW b, Run(s, a, b),
           Head(s).type = "data"
    PROVE  Head(s).n = a + 1 /\ a + 1 <= b /\ Run(Tail(s), a + 1, b)
  <1> DEFINE t == Tail(s)
  <1>1. /\ Head(s) = s[1] /\ 1 \in DOMAIN s /\ Len(s) \in Nat
        /\ DOMAIN s = 1..Len(s) /\ DOMAIN t = 1..Len(s)-1
        /\ \A i \in 1..Len(s)-1 : t[i] = s[i + 1]
    BY TailFacts
  <1> HIDE DEF t
  <1>2. a \in Nat /\ b \in Nat /\ a <= b
    BY DEF Run
  <1>3. s[1].type = "data" /\ s[1].n \in a+1..b
    BY <1>1 DEF Run
  <1>4. s[1].n = a + 1
    <2>1. PICK i \in DOMAIN s : s[i].type = "data" /\ s[i].n = a + 1
      BY <1>2, <1>3 DEF Run
    <2>2. CASE i = 1
      BY <2>1, <2>2
    <2>3. CASE i # 1
      <3>1. 1 < i
        BY <1>1, <2>3
      <3>2. s[1].n < s[i].n
        BY <1>1, <1>3, <2>1, <3>1 DEF Run
      <3> QED BY <1>2, <1>3, <2>1, <3>2
    <2> QED BY <2>2, <2>3
  <1>5. ASSUME NEW i \in DOMAIN t
        PROVE  i + 1 \in DOMAIN s /\ t[i] = s[i + 1] /\ i + 1 # 1
    BY <1>1, <1>5
  <1>6. ASSUME NEW i \in DOMAIN t
        PROVE  IF t[i].type = "data" THEN t[i].n \in a+1+1..b ELSE t[i].n = 0
    <2>1. CASE t[i].type = "data"
      <3>1. s[i + 1].type = "data" /\ 1 < i + 1 /\ s[i + 1].n \in a+1..b
        BY <1>1, <1>5, <2>1 DEF Run
      <3>2. s[1].n < s[i + 1].n
        BY <1>1, <1>3, <1>5, <3>1 DEF Run
      <3> QED BY <1>2, <1>4, <1>5, <2>1, <3>1, <3>2
    <2>2. CASE t[i].type # "data"
      BY <2>2, <1>5 DEF Run
    <2> QED BY <2>1, <2>2
  <1>7. ASSUME NEW n \in a+1+1..b
        PROVE  \E i \in DOMAIN t : t[i].type = "data" /\ t[i].n = n
    <2>1. n \in a+1..b /\ n # a + 1
      BY <1>2
    <2>2. PICK i \in DOMAIN s : s[i].type = "data" /\ s[i].n = n
      BY <2>1 DEF Run
    <2>3. i # 1
      BY <2>1, <2>2, <1>4
    <2>4. i - 1 \in DOMAIN t /\ t[i - 1] = s[i]
      BY <1>1, <2>3
    <2> QED BY <2>2, <2>4
  <1>8. ASSUME NEW i \in DOMAIN t, NEW j \in DOMAIN t,
               t[i].type = "data", t[j].type = "data", i < j
        PROVE  t[i].n < t[j].n
    <2>1. i + 1 < j + 1
      BY <1>1, <1>8
    <2> QED BY <1>5, <1>8, <2>1 DEF Run
  <1>9. a + 1 \in Nat /\ a + 1 <= b
    BY <1>2, <1>3
  <1>10. Run(t, a + 1, b)
    BY <1>2, <1>6, <1>7, <1>8, <1>9 DEF Run
  <1> QED BY <1>1, <1>4, <1>9, <1>10 DEF t

\* A run whose head is a close or a pop keeps its numbers.
LEMMA RunTailOther ==
    ASSUME NEW S, NEW s \in Seq(S), s # <<>>, NEW a, NEW b, Run(s, a, b),
           Head(s).type # "data"
    PROVE  Run(Tail(s), a, b)
  <1> DEFINE t == Tail(s)
  <1>1. /\ Head(s) = s[1] /\ 1 \in DOMAIN s /\ Len(s) \in Nat
        /\ DOMAIN s = 1..Len(s) /\ DOMAIN t = 1..Len(s)-1
        /\ \A i \in 1..Len(s)-1 : t[i] = s[i + 1]
    BY TailFacts
  <1> HIDE DEF t
  <1>2. ASSUME NEW i \in DOMAIN t
        PROVE  i + 1 \in DOMAIN s /\ t[i] = s[i + 1]
    BY <1>1
  <1>3. ASSUME NEW i \in DOMAIN t
        PROVE  IF t[i].type = "data" THEN t[i].n \in a+1..b ELSE t[i].n = 0
    BY <1>2 DEF Run
  <1>4. ASSUME NEW n \in a+1..b
        PROVE  \E i \in DOMAIN t : t[i].type = "data" /\ t[i].n = n
    <2>1. PICK i \in DOMAIN s : s[i].type = "data" /\ s[i].n = n
      BY DEF Run
    <2>2. i # 1
      BY <2>1, <1>1
    <2>3. i - 1 \in DOMAIN t /\ t[i - 1] = s[i]
      BY <1>1, <2>2
    <2> QED BY <2>1, <2>3
  <1>5. ASSUME NEW i \in DOMAIN t, NEW j \in DOMAIN t,
               t[i].type = "data", t[j].type = "data", i < j
        PROVE  t[i].n < t[j].n
    <2>1. i + 1 < j + 1
      BY <1>1, <1>5
    <2> QED BY <1>2, <1>5, <2>1 DEF Run
  <1>6. Run(t, a, b)
    BY <1>3, <1>4, <1>5 DEF Run
  <1> QED BY <1>6 DEF t

-----------------------------------------------------------------------------
(* One handler of a strand, for the flow. *)

\* What is appended to a queue does not change its front.
LEMMA AppendHead ==
    ASSUME NEW S, NEW s \in Seq(S), s # <<>>, NEW e \in S
    PROVE  Append(s, e) # <<>> /\ Head(Append(s, e)) = Head(s)
  <1> DEFINE t == Append(s, e)
  <1>1. Len(s) \in Nat /\ Len(s) # 0
    BY EmptyIsLen0
  <1>2. t \in Seq(S) /\ t # <<>> /\ (\A i \in 1..Len(s) : t[i] = s[i])
    BY AppendFacts
  <1> HIDE DEF t
  <1>3. t[1] = s[1]
    BY <1>1, <1>2
  <1>4. Head(t) = Head(s)
    BY <1>2, <1>3, TailFacts
  <1> QED BY <1>2, <1>4 DEF t

\* The handler at the front is a pop of the one finished operation, or it leaves alone
\* what is being done.
LEMMA HandlerPhase ==
    ASSUME NEW S, NEW strand \in Seq(S), strand # <<>>, NEW queue \in Seq(S), NEW phase,
           AtMostOne(strand, queue, phase), FrontIsData(strand, queue, phase),
           NEW op \in S, op = Head(strand), NEW phase2,
           phase2 = IF Starts(queue, op) /\ ~Closes(queue, op) THEN "header" ELSE phase
    PROVE  /\ op.type = "pop" =>
                  /\ queue # <<>> /\ Head(queue).type = "data"
                  /\ phase = "idle" /\ ~NoPop(strand) /\ NoPop(Tail(strand))
                  /\ phase2 \in {"idle", "header"}
           /\ op.type # "pop" =>
                  /\ NoPop(Tail(strand)) <=> NoPop(strand)
                  /\ phase2 = phase \/ (phase = "idle" /\ NoPop(strand) /\ phase2 = "header")
                  /\ queue = <<>> => phase = "idle" /\ NoPop(strand)
  <1>1. CASE op.type = "pop"
    <2>1. queue # <<>> /\ phase = "idle" /\ NoPop(Tail(strand))
      BY <1>1, HeadMayRun DEF MayRun
    <2>2. ~NoPop(strand)
      BY <1>1, TailFacts DEF NoPop
    <2>3. Head(queue).type = "data"
      BY <2>2 DEF FrontIsData, Busy
    <2> QED BY <1>1, <2>1, <2>2, <2>3
  <1>2. CASE op.type # "pop"
    <2>1. NoPop(Tail(strand)) <=> NoPop(strand)
      <3>1. /\ strand[1] = op /\ Len(strand) \in Nat
            /\ DOMAIN strand = 1..Len(strand) /\ DOMAIN Tail(strand) = 1..Len(strand)-1
            /\ \A i \in 1..Len(strand)-1 : Tail(strand)[i] = strand[i + 1]
        BY TailFacts
      <3>2. ASSUME NoPop(Tail(strand)), NEW i \in 1..Len(strand)
            PROVE  strand[i].type # "pop"
        <4>1. CASE i = 1
          BY <4>1, <3>1, <1>2
        <4>2. CASE i # 1
          <5>1. i - 1 \in 1..Len(strand)-1 /\ Tail(strand)[i - 1] = strand[i]
            BY <4>2, <3>1
          <5> QED BY <5>1, <3>1, <3>2 DEF NoPop
        <4> QED BY <4>1, <4>2
      <3>3. NoPop(strand) => NoPop(Tail(strand))
        BY <1>2, PopLeaves
      <3> QED BY <3>1, <3>2, <3>3 DEF NoPop
    <2>2. queue = <<>> => phase = "idle" /\ NoPop(strand)
      BY DEF FrontIsData, Busy
    <2>3. Starts(queue, op) => queue = <<>>
      BY <1>2 DEF Starts
    <2> QED BY <1>2, <2>1, <2>2, <2>3
  <1> QED BY <1>1, <1>2

\* A handler moves a message from the strand to the queue, or drops the one written: the numbers run on.
LEMMA HandlerFlow ==
    ASSUME NEW S, NEW strand \in Seq(S), strand # <<>>, NEW queue \in Seq(S), NEW phase,
           AtMostOne(strand, queue, phase), FrontIsData(strand, queue, phase),
           NEW from \in Nat, NEW total \in Nat, Flows(strand, queue, from, total),
           NEW op \in S, op = Head(strand), op.type \in {"data", "close", "pop"},
           NEW queue2,
           queue2 = IF Closes(queue, op) THEN Tail(Changed(queue, op)) ELSE Changed(queue, op)
    PROVE  Flows(Tail(strand), queue2, IF op.type = "pop" THEN from + 1 ELSE from, total)
  <1>1. PICK mid \in 0..total : Run(queue, from, mid) /\ Run(strand, mid, total)
    BY DEF Flows
  <1> DEFINE q == Changed(queue, op)
  <1>2. q \in Seq(S) /\ (Closes(queue, op) => q # <<>> /\ Head(q).type = "close")
    <2>1. op.type = "pop" => queue # <<>>
      BY HandlerPhase
    <2> QED BY <2>1, ChangedType DEF Closes
  <1>3. ASSUME NEW a, NEW b, Run(q, a, b)
        PROVE  Run(queue2, a, b)
    BY <1>2, <1>3, RunTailOther
  <1>4. CASE op.type = "pop"
    <2>1. queue # <<>> /\ Head(queue).type = "data"
      BY <1>4, HandlerPhase
    <2>2. from + 1 <= mid /\ Run(Tail(queue), from + 1, mid)
      BY <1>1, <2>1, RunTailData
    <2>3. Run(Tail(strand), mid, total)
      BY <1>1, <1>4, RunTailOther
    <2>4. Run(queue2, from + 1, mid)
      BY <2>2, <1>3, <1>4 DEF Changed
    <2> QED BY <1>4, <2>3, <2>4 DEF Flows
  <1>5. CASE op.type = "data"
    <2>1. op.n = mid + 1 /\ mid + 1 <= total /\ Run(Tail(strand), mid + 1, total)
      BY <1>1, <1>5, RunTailData
    <2>2. Run(Append(queue, op), from, mid + 1)
      BY <1>1, <1>5, <2>1, RunAppendData
    <2>3. Run(queue2, from, mid + 1)
      BY <2>2, <1>3, <1>5 DEF Changed
    <2>4. mid + 1 \in 0..total
      BY <2>1
    <2> QED BY <1>5, <2>1, <2>3, <2>4 DEF Flows
  <1>6. CASE op.type = "close"
    <2>1. Run(Tail(strand), mid, total)
      BY <1>1, <1>6, RunTailOther
    <2>2. op.n = 0
      BY <1>1, <1>6, TailFacts DEF Run
    <2>3. Run(Append(queue, op), from, mid)
      BY <1>1, <1>6, <2>2, RunAppendOther
    <2>4. Run(queue2, from, mid)
      BY <2>3, <1>3, <1>6 DEF Changed
    <2> QED BY <1>6, <2>1, <2>4 DEF Flows
  <1> QED BY <1>4, <1>5, <1>6

\* What is at the front when a handler has run is a message, if a read or write is under way.
LEMMA HandlerFront ==
    ASSUME NEW S, NEW strand \in Seq(S), strand # <<>>, NEW queue \in Seq(S), NEW phase,
           \A e \in S : e.type \in {"data", "close", "pop"},
           AtMostOne(strand, queue, phase), FrontIsData(strand, queue, phase),
           NEW op \in S, op = Head(strand),
           NEW queue2, NEW phase2,
           queue2 = IF Closes(queue, op) THEN Tail(Changed(queue, op)) ELSE Changed(queue, op),
           phase2 = IF Starts(queue, op) /\ ~Closes(queue, op) THEN "header" ELSE phase
    PROVE  FrontIsData(Tail(strand), queue2, phase2)
  <1> DEFINE q == Changed(queue, op)
  <1>1. /\ op.type = "pop" => phase = "idle" /\ NoPop(Tail(strand))
        /\ op.type # "pop" => /\ NoPop(Tail(strand)) <=> NoPop(strand)
                              /\ queue = <<>> => phase = "idle" /\ NoPop(strand)
    BY HandlerPhase
  <1>2. /\ q \in Seq(S)
        /\ Starts(queue, op) => q # <<>>
    <2>1. op.type = "pop" => queue # <<>>
      BY HandlerPhase
    <2> QED BY <2>1, ChangedType
  <1>3. CASE Starts(queue, op) /\ ~Closes(queue, op)
    <2>1. queue2 = q /\ phase2 = "header" /\ q # <<>> /\ Head(q).type # "close"
      BY <1>2, <1>3 DEF Closes
    <2>2. Head(q) \in S /\ Head(q) = q[1] /\ 1 \in DOMAIN q
      BY <1>2, <2>1, TailFacts
    <2>3. MayRun(Tail(strand), queue, phase, op)
      BY HeadMayRun
    <2>4. Tail(strand) \in Seq(S)
      BY TailFacts
    <2>5. AtMostOne(Tail(strand), queue2, phase2)
      BY <2>3, <2>4, RunKeepsDriver
    <2>6. Head(q).type # "pop"
      BY <2>1, <2>2, <2>5 DEF AtMostOne, NoPop
    <2> QED BY <2>1, <2>2, <2>6 DEF FrontIsData
  <1>4. CASE ~(Starts(queue, op) /\ ~Closes(queue, op))
    <2>1. phase2 = phase
      BY <1>4
    <2>2. CASE op.type = "pop" \/ queue = <<>>
      <3>1. ~Busy(Tail(strand), phase2)
        BY <1>1, <2>1, <2>2 DEF Busy
      <3> QED BY <3>1 DEF FrontIsData
    <2>3. CASE op.type # "pop" /\ queue # <<>>
      <3>1. queue2 = Append(queue, op)
        BY <2>3 DEF Closes, Starts, Changed
      <3>2. queue2 # <<>> /\ Head(queue2) = Head(queue)
        <4>1. Append(queue, op) # <<>> /\ Head(Append(queue, op)) = Head(queue)
          BY <2>3, AppendHead
        <4> QED BY <3>1, <4>1
      <3>3. Busy(Tail(strand), phase2) <=> Busy(strand, phase)
        BY <1>1, <2>1, <2>3 DEF Busy
      <3> QED BY <2>3, <3>2, <3>3 DEF FrontIsData
    <2> QED BY <2>2, <2>3
  <1> QED BY <1>3, <1>4

\* The sizes of a queue without its front.
LEMMA SizesTail ==
    ASSUME NEW S, NEW s \in Seq(S), s # <<>>, NEW msgs, SizesCut(s, msgs)
    PROVE  /\ SizesCut(Tail(s), msgs)
           /\ Head(s).type = "data" => Head(s).len = Cut(msgs[Head(s).n])
  <1>1. /\ Head(s) = s[1] /\ 1 \in DOMAIN s /\ Len(s) \in Nat
        /\ DOMAIN s = 1..Len(s) /\ DOMAIN Tail(s) = 1..Len(s)-1
        /\ \A i \in 1..Len(s)-1 : Tail(s)[i] = s[i + 1]
    BY TailFacts
  <1>2. \A i \in DOMAIN Tail(s) : i + 1 \in DOMAIN s /\ Tail(s)[i] = s[i + 1]
    BY <1>1
  <1> QED BY <1>1, <1>2 DEF SizesCut

\* The sizes of a queue with one operation more.
LEMMA SizesAppend ==
    ASSUME NEW S, NEW s \in Seq(S), NEW e \in S, NEW msgs, SizesCut(s, msgs),
           e.type = "data" => e.len = Cut(msgs[e.n])
    PROVE  SizesCut(Append(s, e), msgs)
  <1> DEFINE t == Append(s, e)
  <1>1. /\ Len(s) \in Nat /\ DOMAIN s = 1..Len(s) /\ DOMAIN t = 1..Len(s)+1
        /\ \A i \in 1..Len(s) : t[i] = s[i]
        /\ t[Len(s) + 1] = e
    BY AppendFacts
  <1> HIDE DEF t
  <1>2. \A i \in DOMAIN t : (i \in DOMAIN s /\ t[i] = s[i]) \/ t[i] = e
    BY <1>1
  <1>3. SizesCut(t, msgs)
    BY <1>2 DEF SizesCut
  <1> QED BY <1>3 DEF t

\* A new message leaves the earlier ones as they are.
LEMMA SizesGrow ==
    ASSUME NEW s, NEW a, NEW b, Run(s, a, b), NEW msgs \in Seq(Nat), b <= Len(msgs),
           NEW len \in Nat, SizesCut(s, msgs)
    PROVE  SizesCut(s, Append(msgs, len))
  <1>1. \A i \in 1..Len(msgs) : Append(msgs, len)[i] = msgs[i]
    BY AppendFacts
  <1>2. ASSUME NEW i \in DOMAIN s, s[i].type = "data"
        PROVE  s[i].n \in 1..Len(msgs)
    BY <1>2 DEF Run
  <1> QED BY <1>1, <1>2 DEF SizesCut

\* What is written never goes beyond what is queued.
LEMMA PutBound ==
    ASSUME NEW o \in OutType, NEW put, NEW msgs \in Seq(Nat), OutFlow(o, put, msgs)
    PROVE  put \in Nat /\ put <= 2 * Len(msgs)
  <1>1. PICK from \in 0..Len(msgs) : /\ put = 2 * from + PutOf(o.strand, o.phase)
                                     /\ Flows(o.strand, o.queue, from, Len(msgs))
    BY DEF OutFlow
  <1>2. PutOf(o.strand, o.phase) \in 0..2 /\ (~Busy(o.strand, o.phase) => PutOf(o.strand, o.phase) = 0)
    BY DEF OutType, PutOf, Busy
  <1>3. CASE Busy(o.strand, o.phase)
    <2>1. o.queue \in Seq(SendOp) /\ o.queue # <<>> /\ Head(o.queue).type = "data"
      BY <1>3 DEF OutFlow, FrontIsData, OutType
    <2>2. PICK mid \in 0..Len(msgs) : Run(o.queue, from, mid)
      BY <1>1 DEF Flows
    <2>3. from + 1 <= mid
      BY <2>1, <2>2, RunTailData
    <2>4. from \in Nat /\ Len(msgs) \in Nat /\ mid <= Len(msgs) /\ mid \in Nat
      OBVIOUS
    <2> QED BY <2>3, <2>4, <1>1, <1>2
  <1>4. CASE ~Busy(o.strand, o.phase)
    <2>1. from \in Nat /\ Len(msgs) \in Nat
      OBVIOUS
    <2> QED BY <2>1, <1>1, <1>2, <1>4
  <1> QED BY <1>3, <1>4

\* The operation being written is the next one.
LEMMA FrontOut ==
    ASSUME NEW o \in OutType, NEW put, NEW msgs \in Seq(Nat), OutFlow(o, put, msgs),
           Busy(o.strand, o.phase)
    PROVE  \E from \in 0..Len(msgs) :
              /\ put = 2 * from + PutOf(o.strand, o.phase)
              /\ Flows(o.strand, o.queue, from, Len(msgs))
              /\ o.queue # <<>> /\ from + 1 \in 1..Len(msgs)
              /\ Head(o.queue) \in SendOp /\ Head(o.queue).n = from + 1
              /\ Head(o.queue).len = Cut(msgs[from + 1])
  <1>1. PICK from \in 0..Len(msgs) : /\ put = 2 * from + PutOf(o.strand, o.phase)
                                     /\ Flows(o.strand, o.queue, from, Len(msgs))
    BY DEF OutFlow
  <1>2. o.queue \in Seq(SendOp) /\ o.queue # <<>> /\ Head(o.queue).type = "data"
    BY DEF OutFlow, FrontIsData, OutType
  <1>3. PICK mid \in 0..Len(msgs) : Run(o.queue, from, mid)
    BY <1>1 DEF Flows
  <1>4. Head(o.queue).n = from + 1 /\ from + 1 <= mid
    BY <1>2, <1>3, RunTailData
  <1>5. Head(o.queue).len = Cut(msgs[from + 1])
    <2>1. SizesCut(o.queue, msgs)
      BY DEF OutFlow
    <2> QED BY <1>2, <1>4, <2>1, SizesTail
  <1>6. Head(o.queue) \in SendOp
    BY <1>2, TailFacts
  <1>7. from + 1 \in 1..Len(msgs)
    BY <1>4
  <1> QED BY <1>1, <1>2, <1>4, <1>5, <1>6, <1>7

\* The handler of the send strand keeps the flow: nothing is written by it.
LEMMA OutRunFlow ==
    ASSUME NEW o \in OutType, NotTwice(o), o.strand # <<>>,
           NEW put, NEW msgs \in Seq(Nat), OutFlow(o, put, msgs)
    PROVE  LET op == Head(o.strand)
           IN  OutFlow(RunPosted(Count([o EXCEPT !.strand = Tail(@)], op.len), op), put, msgs)
  <1> DEFINE op == Head(o.strand)
             n  == RunPosted(Count([o EXCEPT !.strand = Tail(@)], op.len), op)
  <1>1. /\ n \in OutType /\ n.strand = Tail(o.strand)
        /\ n.queue = IF Closes(o.queue, op) THEN Tail(Changed(o.queue, op))
                                            ELSE Changed(o.queue, op)
        /\ n.phase = IF Starts(o.queue, op) /\ ~Closes(o.queue, op)
                     THEN "header" ELSE o.phase
        /\ n.returned = o.returned
    BY RunOutInv
  <1>2. /\ o.strand \in Seq(SendOp) /\ o.queue \in Seq(SendOp)
        /\ AtMostOne(o.strand, o.queue, o.phase)
        /\ FrontIsData(o.strand, o.queue, o.phase)
    BY DEF OutType, NotTwice, OutFlow
  <1>3. op \in SendOp /\ op.type \in {"data", "close", "pop"} /\ op = Head(o.strand)
    <2>1. op \in SendOp
      BY <1>2, TailFacts
    <2> HIDE DEF op
    <2>2. op.type \in {"data", "close", "pop"}
      BY <2>1 DEF SendOp, OpType
    <2> QED BY <2>1, <2>2 DEF op
  <1> HIDE DEF n, op
  <1>4. PICK from \in 0..Len(msgs) : /\ put = 2 * from + PutOf(o.strand, o.phase)
                                     /\ Flows(o.strand, o.queue, from, Len(msgs))
    BY DEF OutFlow
  <1>5. from \in Nat /\ Len(msgs) \in Nat
    OBVIOUS
  <1>p. /\ op.type = "pop" =>
              /\ o.queue # <<>> /\ Head(o.queue).type = "data"
              /\ o.phase = "idle" /\ ~NoPop(o.strand) /\ NoPop(n.strand)
              /\ n.phase \in {"idle", "header"}
        /\ op.type # "pop" =>
              /\ NoPop(n.strand) <=> NoPop(o.strand)
              /\ n.phase = o.phase \/ (o.phase = "idle" /\ NoPop(o.strand) /\ n.phase = "header")
    BY <1>1, <1>2, <1>3, HandlerPhase, SMTT(30)
  <1>6. Flows(n.strand, n.queue, IF op.type = "pop" THEN from + 1 ELSE from, Len(msgs))
    BY <1>1, <1>2, <1>3, <1>4, <1>5, HandlerFlow
  <1>7. FrontIsData(n.strand, n.queue, n.phase)
    <2>1. \A e \in SendOp : e.type \in {"data", "close", "pop"}
      BY DEF SendOp, OpType
    <2> QED BY <2>1, <1>1, <1>2, <1>3, HandlerFront, ZenonT(30)
  <1>8. /\ put = 2 * (IF op.type = "pop" THEN from + 1 ELSE from) + PutOf(n.strand, n.phase)
        /\ op.type = "pop" => from + 1 <= Len(msgs)
    <2>2. CASE op.type = "pop"
      <3>1. PutOf(o.strand, o.phase) = 2 /\ PutOf(n.strand, n.phase) = 0
        BY <1>p, <2>2 DEF PutOf
      <3>2. PICK mid \in 0..Len(msgs) : Run(o.queue, from, mid)
        BY <1>4 DEF Flows
      <3>3. from + 1 <= mid
        BY <1>p, <2>2, <3>2, <1>2, RunTailData
      <3> QED BY <1>4, <1>5, <2>2, <3>1, <3>3
    <2>3. CASE op.type # "pop"
      <3>1. PutOf(o.strand, o.phase) = PutOf(n.strand, n.phase)
        BY <1>p, <2>3 DEF PutOf
      <3> QED BY <1>4, <1>5, <2>3, <3>1
    <2> QED BY <2>2, <2>3
  <1>9. SizesCut(n.strand, msgs) /\ SizesCut(n.queue, msgs)
    <2>0. SizesCut(o.strand, msgs) /\ SizesCut(o.queue, msgs)
      BY DEF OutFlow
    <2>1. SizesCut(n.strand, msgs) /\ (op.type = "data" => op.len = Cut(msgs[op.n]))
      BY <1>1, <1>2, <1>3, <2>0, SizesTail
    <2>q. op.type = "pop" => o.queue # <<>>
      BY <1>p
    <2>2. SizesCut(Changed(o.queue, op), msgs)
      <3>1. CASE op.type = "pop"
        BY <3>1, <1>2, <2>0, <2>q, SizesTail DEF Changed
      <3>2. CASE op.type # "pop"
        BY <3>2, <1>2, <1>3, <2>0, <2>1, SizesAppend DEF Changed
      <3> QED BY <3>1, <3>2
    <2>3. /\ Changed(o.queue, op) \in Seq(SendOp)
          /\ Closes(o.queue, op) => Changed(o.queue, op) # <<>>
      BY <1>2, <1>3, <2>q, ChangedType DEF Closes
    <2>4. Closes(o.queue, op) => SizesCut(Tail(Changed(o.queue, op)), msgs)
      BY <2>2, <2>3, SizesTail
    <2> QED BY <1>1, <2>1, <2>2, <2>4
  <1>10. \A k \in n.returned : k # 0 /\ 2 * k <= put
    BY <1>1 DEF OutFlow
  <1>11. OutFlow(n, put, msgs)
    <2>1. PICK after \in 0..Len(msgs) : after = IF op.type = "pop" THEN from + 1 ELSE from
      BY <1>5, <1>8
    <2> QED BY <2>1, <1>6, <1>7, <1>8, <1>9, <1>10 DEF OutFlow
  <1> QED BY <1>11 DEF n, op

-----------------------------------------------------------------------------
(* The flow of a sender. *)

\* The headers and bodies of a stream alternate.
LEMMA NthFacts ==
    \A k \in Nat : /\ Nth(2 * k + 1) = k + 1 /\ (2 * k + 1) % 2 = 1
                   /\ Nth(2 * k + 2) = k + 1 /\ (2 * k + 2) % 2 = 0
  BY DEF Nth

\* A send is posted: the flow is one message longer.
LEMMA OutPostFlow ==
    ASSUME NEW o \in OutType, NEW put, NEW msgs \in Seq(Nat), OutFlow(o, put, msgs),
           NEW len \in Nat, NEW op \in SendOp, op.type = "data",
           op.n = Len(msgs) + 1, op.len = Cut(len)
    PROVE  OutFlow([o EXCEPT !.strand = Append(@, op)], put, Append(msgs, len))
  <1> DEFINE n == [o EXCEPT !.strand = Append(@, op)]
             new == Append(msgs, len)
  <1>1. o.strand \in Seq(SendOp) /\ o.queue \in Seq(SendOp)
    BY DEF OutType
  <1>2. /\ n.strand = Append(o.strand, op) /\ n.queue = o.queue
        /\ n.phase = o.phase /\ n.returned = o.returned
    BY DEF OutType
  <1>3. /\ new \in Seq(Nat) /\ Len(msgs) \in Nat /\ Len(new) = Len(msgs) + 1
        /\ new[Len(msgs) + 1] = len
    BY AppendFacts
  <1> HIDE DEF n, new
  <1>4. PICK from \in 0..Len(msgs) : /\ put = 2 * from + PutOf(o.strand, o.phase)
                                     /\ Flows(o.strand, o.queue, from, Len(msgs))
    BY DEF OutFlow
  <1>5. PICK mid \in 0..Len(msgs) : /\ Run(o.queue, from, mid)
                                    /\ Run(o.strand, mid, Len(msgs))
    BY <1>4 DEF Flows
  <1>6. NoPop(n.strand) <=> NoPop(o.strand)
    <2>1. NoPop(o.strand) => NoPop(n.strand)
      BY <1>1, <1>2, PopJoins
    <2>2. /\ Len(o.strand) \in Nat /\ DOMAIN o.strand = 1..Len(o.strand)
          /\ DOMAIN n.strand = 1..Len(o.strand)+1
          /\ \A i \in 1..Len(o.strand) : n.strand[i] = o.strand[i]
      BY <1>1, <1>2, AppendFacts
    <2>3. \A i \in DOMAIN o.strand : i \in DOMAIN n.strand /\ n.strand[i] = o.strand[i]
      BY <2>2
    <2> QED BY <2>1, <2>3 DEF NoPop
  <1>7. FrontIsData(n.strand, n.queue, n.phase)
    BY <1>2, <1>6 DEF OutFlow, FrontIsData, Busy
  <1>8. from \in 0..Len(new) /\ put = 2 * from + PutOf(n.strand, n.phase)
    BY <1>2, <1>3, <1>4, <1>6 DEF PutOf
  <1>9. Flows(n.strand, n.queue, from, Len(new))
    <2>1. Run(n.strand, mid, Len(msgs) + 1)
      BY <1>1, <1>2, <1>5, RunAppendData
    <2>2. mid \in 0..Len(new)
      BY <1>3
    <2> QED BY <2>1, <2>2, <1>2, <1>3, <1>5 DEF Flows
  <1>10. SizesCut(n.queue, new) /\ SizesCut(n.strand, new)
    <2>1. SizesCut(o.queue, msgs) /\ SizesCut(o.strand, msgs)
      BY DEF OutFlow
    <2>2. mid <= Len(msgs) /\ Len(msgs) <= Len(msgs)
      BY <1>3
    <2>3. SizesCut(o.queue, new) /\ SizesCut(o.strand, new)
      BY <1>5, <2>1, <2>2, SizesGrow DEF new
    <2>4. op.len = Cut(new[op.n])
      BY <1>3
    <2> QED BY <1>1, <1>2, <2>3, <2>4, SizesAppend
  <1>11. \A k \in n.returned : k # 0 /\ 2 * k <= put
    BY <1>2 DEF OutFlow
  <1>12. OutFlow(n, put, new)
    BY <1>7, <1>8, <1>9, <1>10, <1>11 DEF OutFlow
  <1> QED BY <1>12 DEF n, new

\* A close is posted: the flow stays.
LEMMA OutCloseFlow ==
    ASSUME NEW o \in OutType, NEW put, NEW msgs \in Seq(Nat), OutFlow(o, put, msgs)
    PROVE  OutFlow([o EXCEPT !.strand = Append(@, CloseOp)], put, msgs)
  <1> DEFINE n == [o EXCEPT !.strand = Append(@, CloseOp)]
  <1>1. o.strand \in Seq(SendOp) /\ o.queue \in Seq(SendOp)
    BY DEF OutType
  <1>2. /\ n.strand = Append(o.strand, CloseOp) /\ n.queue = o.queue
        /\ n.phase = o.phase /\ n.returned = o.returned
    BY DEF OutType
  <1>3. CloseOp \in SendOp /\ CloseOp.type = "close" /\ CloseOp.n = 0
    BY OpsType DEF CloseOp, Operation
  <1> HIDE DEF n
  <1>4. PICK from \in 0..Len(msgs) : /\ put = 2 * from + PutOf(o.strand, o.phase)
                                     /\ Flows(o.strand, o.queue, from, Len(msgs))
    BY DEF OutFlow
  <1>5. PICK mid \in 0..Len(msgs) : /\ Run(o.queue, from, mid)
                                    /\ Run(o.strand, mid, Len(msgs))
    BY <1>4 DEF Flows
  <1>6. NoPop(n.strand) <=> NoPop(o.strand)
    <2>1. NoPop(o.strand) => NoPop(n.strand)
      BY <1>1, <1>2, <1>3, PopJoins
    <2>2. /\ Len(o.strand) \in Nat /\ DOMAIN o.strand = 1..Len(o.strand)
          /\ DOMAIN n.strand = 1..Len(o.strand)+1
          /\ \A i \in 1..Len(o.strand) : n.strand[i] = o.strand[i]
      BY <1>1, <1>2, <1>3, AppendFacts
    <2>3. \A i \in DOMAIN o.strand : i \in DOMAIN n.strand /\ n.strand[i] = o.strand[i]
      BY <2>2
    <2> QED BY <2>1, <2>3 DEF NoPop
  <1>7. FrontIsData(n.strand, n.queue, n.phase)
    BY <1>2, <1>6 DEF OutFlow, FrontIsData, Busy
  <1>8. put = 2 * from + PutOf(n.strand, n.phase)
    BY <1>2, <1>4, <1>6 DEF PutOf
  <1>9. Flows(n.strand, n.queue, from, Len(msgs))
    <2>1. Run(n.strand, mid, Len(msgs))
      BY <1>1, <1>2, <1>3, <1>5, RunAppendOther
    <2> QED BY <2>1, <1>2, <1>5 DEF Flows
  <1>10. SizesCut(n.queue, msgs) /\ SizesCut(n.strand, msgs)
    BY <1>1, <1>2, <1>3, SizesAppend DEF OutFlow
  <1>11. \A k \in n.returned : k # 0 /\ 2 * k <= put
    BY <1>2 DEF OutFlow
  <1>12. OutFlow(n, put, msgs)
    BY <1>7, <1>8, <1>9, <1>10, <1>11 DEF OutFlow
  <1> QED BY <1>12 DEF n

\* The kernel takes the next header or body.
LEMMA OutTakenFlow ==
    ASSUME NEW o \in OutType, NotTwice(o), NEW put, NEW msgs \in Seq(Nat), OutFlow(o, put, msgs),
           NEW part \in {"header", "body"}, o.phase = part
    PROVE  LET op == Head(o.queue)
           IN  /\ OutFlow(Taken(o, op, part), put + 1, msgs)
               /\ Item(op.n, part, op.len) = ItemAt(msgs, put + 1)
  <1> DEFINE op == Head(o.queue)
             n  == Taken(o, op, part)
  <1>1. PICK from \in 0..Len(msgs) :
              /\ put = 2 * from + PutOf(o.strand, o.phase)
              /\ Flows(o.strand, o.queue, from, Len(msgs))
              /\ o.queue # <<>>
              /\ op.n = from + 1 /\ op.len = Cut(msgs[from + 1])
    BY FrontOut DEF Busy
  <1>2. /\ n.strand = o.strand /\ n.queue = o.queue /\ n.returned = o.returned
        /\ n.phase = IF part = "header" THEN "body" ELSE "written"
    BY DEF Taken, OutType
  <1> HIDE DEF n, op
  <1>3. PutOf(o.strand, o.phase) = (IF part = "header" THEN 0 ELSE 1)
    BY DEF PutOf
  <1>4. PutOf(n.strand, n.phase) = (IF part = "header" THEN 1 ELSE 2)
    BY <1>2 DEF PutOf
  <1>5. from \in Nat /\ put \in Nat
    BY <1>1, <1>3
  <1>6. put + 1 = 2 * from + PutOf(n.strand, n.phase)
    BY <1>1, <1>3, <1>4, <1>5
  <1>7. ASSUME NEW k \in n.returned
        PROVE  k # 0 /\ 2 * k <= put + 1
    <2>1. k # 0 /\ 2 * k <= put /\ k \in Nat
      BY <1>2 DEF OutFlow, OutType
    <2> QED BY <2>1, <1>5
  <1>8. FrontIsData(n.strand, n.queue, n.phase)
    BY <1>2 DEF OutFlow, FrontIsData, Busy
  <1>9. SizesCut(n.queue, msgs) /\ SizesCut(n.strand, msgs)
    BY <1>2 DEF OutFlow
  <1>10. Flows(n.strand, n.queue, from, Len(msgs))
    BY <1>1, <1>2
  <1>11. OutFlow(n, put + 1, msgs)
    BY <1>6, <1>7, <1>8, <1>9, <1>10 DEF OutFlow
  <1>12. Item(op.n, part, op.len) = ItemAt(msgs, put + 1)
    <2>1. CASE part = "header"
      <3>p. put + 1 = 2 * from + 1
        BY <1>1, <1>3, <1>5, <2>1
      <3>1. Nth(put + 1) = from + 1 /\ (put + 1) % 2 = 1
        BY <1>5, <3>p, NthFacts
      <3> QED BY <3>1, <2>1, <1>1 DEF ItemAt
    <2>2. CASE part = "body"
      <3>p. put + 1 = 2 * from + 2
        BY <1>1, <1>3, <1>5, <2>2
      <3>1. Nth(put + 1) = from + 1 /\ (put + 1) % 2 = 0
        BY <1>5, <3>p, NthFacts
      <3> QED BY <3>1, <2>2, <1>1 DEF ItemAt
    <2> QED BY <2>1, <2>2
  <1> QED BY <1>11, <1>12 DEF n, op

\* The handler of async_write marks its operation as done.
LEMMA OutWrittenFlow ==
    ASSUME NEW o \in OutType, NEW put, NEW msgs \in Seq(Nat), OutFlow(o, put, msgs),
           o.phase = "written"
    PROVE  OutFlow(Written(o, Head(o.queue)), put, msgs)
  <1> DEFINE op == Head(o.queue)
             n  == Written(o, op)
  <1>1. PICK from \in 0..Len(msgs) :
              /\ put = 2 * from + PutOf(o.strand, o.phase)
              /\ Flows(o.strand, o.queue, from, Len(msgs))
              /\ op.n = from + 1
    BY FrontOut DEF Busy
  <1>2. /\ n.strand = o.strand /\ n.queue = o.queue /\ n.phase = "pop"
        /\ n.returned \subseteq o.returned \cup {op.n}
    BY DEF Written, OutType
  <1> HIDE DEF n, op
  <1>3. PutOf(o.strand, o.phase) = 2 /\ PutOf(n.strand, n.phase) = 2
    BY <1>2 DEF PutOf
  <1>4. ASSUME NEW k \in n.returned
        PROVE  k # 0 /\ 2 * k <= put
    <2>1. CASE k = op.n
      BY <2>1, <1>1, <1>3
    <2>2. CASE k \in o.returned
      BY <2>2 DEF OutFlow
    <2> QED BY <2>1, <2>2, <1>2
  <1>5. FrontIsData(n.strand, n.queue, n.phase)
    BY <1>2 DEF OutFlow, FrontIsData, Busy
  <1>6. SizesCut(n.queue, msgs) /\ SizesCut(n.strand, msgs)
    BY <1>2 DEF OutFlow
  <1>7. Flows(n.strand, n.queue, from, Len(msgs)) /\ put = 2 * from + PutOf(n.strand, n.phase)
    BY <1>1, <1>2, <1>3
  <1>8. OutFlow(n, put, msgs)
    BY <1>4, <1>5, <1>6, <1>7 DEF OutFlow
  <1> QED BY <1>8 DEF n, op

\* The pop of a written operation is posted: the flow stays.
LEMMA OutRequeueFlow ==
    ASSUME NEW o \in OutType, NEW put, NEW msgs \in Seq(Nat), OutFlow(o, put, msgs),
           o.phase = "pop"
    PROVE  OutFlow([o EXCEPT !.phase = "idle", !.strand = Append(@, Pop)], put, msgs)
  <1> DEFINE n == [o EXCEPT !.phase = "idle", !.strand = Append(@, Pop)]
  <1>1. o.strand \in Seq(SendOp) /\ o.queue \in Seq(SendOp)
    BY DEF OutType
  <1>2. /\ n.strand = Append(o.strand, Pop) /\ n.queue = o.queue
        /\ n.phase = "idle" /\ n.returned = o.returned
    BY DEF OutType
  <1>3. Pop \in SendOp /\ Pop.type = "pop" /\ Pop.n = 0
    BY OpsType DEF Pop, Operation
  <1> HIDE DEF n
  <1>4. PICK from \in 0..Len(msgs) : /\ put = 2 * from + PutOf(o.strand, o.phase)
                                     /\ Flows(o.strand, o.queue, from, Len(msgs))
    BY DEF OutFlow
  <1>5. PICK mid \in 0..Len(msgs) : /\ Run(o.queue, from, mid)
                                    /\ Run(o.strand, mid, Len(msgs))
    BY <1>4 DEF Flows
  <1>6. ~NoPop(n.strand)
    <2>1. Len(o.strand) + 1 \in DOMAIN n.strand /\ n.strand[Len(o.strand) + 1] = Pop
      BY <1>1, <1>2, <1>3, AppendFacts
    <2> QED BY <2>1, <1>3 DEF NoPop
  <1>7. FrontIsData(n.strand, n.queue, n.phase)
    BY <1>2 DEF OutFlow, FrontIsData, Busy
  <1>8. put = 2 * from + PutOf(n.strand, n.phase)
    BY <1>2, <1>4, <1>6 DEF PutOf
  <1>9. Flows(n.strand, n.queue, from, Len(msgs))
    <2>1. Run(n.strand, mid, Len(msgs))
      BY <1>1, <1>2, <1>3, <1>5, RunAppendOther
    <2> QED BY <2>1, <1>2, <1>5 DEF Flows
  <1>10. SizesCut(n.queue, msgs) /\ SizesCut(n.strand, msgs)
    BY <1>1, <1>2, <1>3, SizesAppend DEF OutFlow
  <1>11. \A k \in n.returned : k # 0 /\ 2 * k <= put
    BY <1>2 DEF OutFlow
  <1>12. OutFlow(n, put, msgs)
    BY <1>7, <1>8, <1>9, <1>10, <1>11 DEF OutFlow
  <1> QED BY <1>12 DEF n

-----------------------------------------------------------------------------
(* The flow of a receiver. *)

\* Phases with nothing read of the message at the front.
LEMMA ItemsReadFacts ==
    ASSUME NEW r \in InType
    PROVE  /\ Len(r.answers) \in Nat /\ ItemsRead(r.answers, r.phase) \in Int
           /\ r.phase \in {"idle", "header", "pop"} =>
                ItemsRead(r.answers, r.phase) = 2 * Len(r.answers)
           /\ r.phase = "body" => ItemsRead(r.answers, r.phase) = 2 * Len(r.answers) + 1
           /\ r.phase = "read" => ItemsRead(r.answers, r.phase) = 2 * Len(r.answers) + 2
           /\ r.phase = "stuck" => ItemsRead(r.answers, r.phase) = 2 * Len(r.answers) - 1
           /\ ItemsRead(r.answers, r.phase) >= 2 * Len(r.answers) - 1
  <1>1. Len(r.answers) \in Nat /\ r.phase \in {"idle", "header", "body", "read", "pop", "stuck"}
    BY DEF InType
  <1>2. CASE r.phase \in {"idle", "header", "pop"}
    <2>1. ItemsRead(r.answers, r.phase) = 2 * Len(r.answers) + 0
      BY <1>2 DEF ItemsRead
    <2> QED BY <1>1, <1>2, <2>1
  <1>3. CASE r.phase = "body"
    <2>1. ItemsRead(r.answers, r.phase) = 2 * Len(r.answers) + 1
      BY <1>3 DEF ItemsRead
    <2> QED BY <1>1, <1>3, <2>1
  <1>4. CASE r.phase = "read"
    <2>1. ItemsRead(r.answers, r.phase) = 2 * Len(r.answers) + 2
      BY <1>4 DEF ItemsRead
    <2> QED BY <1>1, <1>4, <2>1
  <1>5. CASE r.phase = "stuck"
    <2>1. ItemsRead(r.answers, r.phase) = 2 * Len(r.answers) + (0 - 1)
      BY <1>5 DEF ItemsRead
    <2> QED BY <1>1, <1>5, <2>1
  <1> QED BY <1>1, <1>2, <1>3, <1>4, <1>5

\* A receive is posted: one message more is asked for.
LEMMA InPostFlow ==
    ASSUME NEW r \in InType, NEW total \in Nat, InFlow(r, total),
           NEW op \in RecvOp, op.type = "data", op.n = total + 1
    PROVE  InFlow([r EXCEPT !.strand = Append(@, op)], total + 1)
  <1> DEFINE n == [r EXCEPT !.strand = Append(@, op)]
  <1>1. r.strand \in Seq(RecvOp) /\ r.queue \in Seq(RecvOp)
    BY DEF InType
  <1>2. /\ n.strand = Append(r.strand, op) /\ n.queue = r.queue
        /\ n.phase = r.phase /\ n.answers = r.answers
    BY DEF InType
  <1> HIDE DEF n
  <1> DEFINE from == Len(r.answers) - Unpopped(r.strand, r.phase)
  <1>3. PICK mid \in 0..total : /\ Run(r.queue, from, mid)
                                /\ Run(r.strand, mid, total)
    BY DEF InFlow, Flows
  <1>4. NoPop(n.strand) <=> NoPop(r.strand)
    <2>1. NoPop(r.strand) => NoPop(n.strand)
      BY <1>1, <1>2, PopJoins
    <2>2. /\ Len(r.strand) \in Nat /\ DOMAIN r.strand = 1..Len(r.strand)
          /\ DOMAIN n.strand = 1..Len(r.strand)+1
          /\ \A i \in 1..Len(r.strand) : n.strand[i] = r.strand[i]
      BY <1>1, <1>2, AppendFacts
    <2>3. \A i \in DOMAIN r.strand : i \in DOMAIN n.strand /\ n.strand[i] = r.strand[i]
      BY <2>2
    <2> QED BY <2>1, <2>3 DEF NoPop
  <1>5. FrontIsData(n.strand, n.queue, n.phase)
    BY <1>2, <1>4 DEF InFlow, FrontIsData, Busy
  <1>6. Len(n.answers) - Unpopped(n.strand, n.phase) = from
    BY <1>2, <1>4 DEF Unpopped
  <1> HIDE DEF from
  <1>7. Flows(n.strand, n.queue, from, total + 1)
    <2>1. Run(n.strand, mid, total + 1)
      BY <1>1, <1>2, <1>3, RunAppendData
    <2>2. mid \in 0..total+1
      OBVIOUS
    <2> QED BY <2>1, <2>2, <1>2, <1>3 DEF Flows
  <1>8. InFlow(n, total + 1)
    BY <1>5, <1>6, <1>7 DEF InFlow
  <1> QED BY <1>8 DEF n

\* A close is posted: the flow stays.
LEMMA InCloseFlow ==
    ASSUME NEW r \in InType, NEW total \in Nat, InFlow(r, total)
    PROVE  InFlow([r EXCEPT !.strand = Append(@, CloseOp)], total)
  <1> DEFINE n == [r EXCEPT !.strand = Append(@, CloseOp)]
  <1>1. r.strand \in Seq(RecvOp) /\ r.queue \in Seq(RecvOp)
    BY DEF InType
  <1>2. /\ n.strand = Append(r.strand, CloseOp) /\ n.queue = r.queue
        /\ n.phase = r.phase /\ n.answers = r.answers
    BY DEF InType
  <1>3. CloseOp \in RecvOp /\ CloseOp.type = "close" /\ CloseOp.n = 0
    BY OpsType DEF CloseOp, Operation
  <1> HIDE DEF n
  <1> DEFINE from == Len(r.answers) - Unpopped(r.strand, r.phase)
  <1>4. PICK mid \in 0..total : /\ Run(r.queue, from, mid)
                                /\ Run(r.strand, mid, total)
    BY DEF InFlow, Flows
  <1>5. NoPop(n.strand) <=> NoPop(r.strand)
    <2>1. NoPop(r.strand) => NoPop(n.strand)
      BY <1>1, <1>2, <1>3, PopJoins
    <2>2. /\ Len(r.strand) \in Nat /\ DOMAIN r.strand = 1..Len(r.strand)
          /\ DOMAIN n.strand = 1..Len(r.strand)+1
          /\ \A i \in 1..Len(r.strand) : n.strand[i] = r.strand[i]
      BY <1>1, <1>2, <1>3, AppendFacts
    <2>3. \A i \in DOMAIN r.strand : i \in DOMAIN n.strand /\ n.strand[i] = r.strand[i]
      BY <2>2
    <2> QED BY <2>1, <2>3 DEF NoPop
  <1>6. FrontIsData(n.strand, n.queue, n.phase)
    BY <1>2, <1>5 DEF InFlow, FrontIsData, Busy
  <1>7. Len(n.answers) - Unpopped(n.strand, n.phase) = from
    BY <1>2, <1>5 DEF Unpopped
  <1> HIDE DEF from
  <1>8. Flows(n.strand, n.queue, from, total)
    <2>1. Run(n.strand, mid, total)
      BY <1>1, <1>2, <1>3, <1>4, RunAppendOther
    <2> QED BY <2>1, <1>2, <1>4 DEF Flows
  <1>9. InFlow(n, total)
    BY <1>6, <1>7, <1>8 DEF InFlow
  <1> QED BY <1>9 DEF n

\* The handler of the receive strand keeps the flow: nothing is read by it.
LEMMA InRunFlow ==
    ASSUME NEW r \in InType, NotTwice(r), r.strand # <<>>,
           NEW total \in Nat, InFlow(r, total)
    PROVE  LET n == RunPosted([r EXCEPT !.strand = Tail(@)], Head(r.strand))
           IN  /\ InFlow(n, total)
               /\ n.answers = r.answers /\ n.got = r.got
               /\ ItemsRead(n.answers, n.phase) = ItemsRead(r.answers, r.phase)
               /\ n.phase = "read" => r.phase = "read"
  <1> DEFINE op == Head(r.strand)
             n  == RunPosted([r EXCEPT !.strand = Tail(@)], op)
  <1>1. /\ n \in InType /\ n.strand = Tail(r.strand)
        /\ n.queue = IF Closes(r.queue, op) THEN Tail(Changed(r.queue, op))
                                            ELSE Changed(r.queue, op)
        /\ n.phase = IF Starts(r.queue, op) /\ ~Closes(r.queue, op)
                     THEN "header" ELSE r.phase
        /\ n.answers = r.answers /\ n.got = r.got
    BY RunInInv
  <1>2. /\ r.strand \in Seq(RecvOp) /\ r.queue \in Seq(RecvOp)
        /\ AtMostOne(r.strand, r.queue, r.phase)
        /\ FrontIsData(r.strand, r.queue, r.phase)
    BY DEF InType, NotTwice, InFlow
  <1>3. op \in RecvOp /\ op.type \in {"data", "close", "pop"} /\ op = Head(r.strand)
    <2>1. op \in RecvOp
      BY <1>2, TailFacts
    <2> HIDE DEF op
    <2>2. op.type \in {"data", "close", "pop"}
      BY <2>1 DEF RecvOp, OpType
    <2> QED BY <2>1, <2>2 DEF op
  <1> HIDE DEF n, op
  <1> DEFINE from == Len(r.answers) - Unpopped(r.strand, r.phase)
  <1>4. Flows(r.strand, r.queue, from, total) /\ from \in Nat /\ Len(r.answers) \in Nat
    <2>1. Flows(r.strand, r.queue, from, total) /\ Len(r.answers) \in Nat
      BY DEF InFlow, InType
    <2> HIDE DEF from
    <2>2. from \in Nat
      BY <2>1 DEF Flows, Run
    <2> QED BY <2>1, <2>2
  <1>5. Flows(n.strand, n.queue, IF op.type = "pop" THEN from + 1 ELSE from, total)
    <2> HIDE DEF from
    <2> QED BY <1>1, <1>2, <1>3, <1>4, HandlerFlow
  <1>6. FrontIsData(n.strand, n.queue, n.phase)
    <2>1. \A e \in RecvOp : e.type \in {"data", "close", "pop"}
      BY DEF RecvOp, OpType
    <2> QED BY <2>1, <1>1, <1>2, <1>3, HandlerFront
  <1>7. /\ op.type = "pop" =>
              /\ r.phase = "idle" /\ ~NoPop(r.strand) /\ NoPop(n.strand)
              /\ n.phase \in {"idle", "header"}
        /\ op.type # "pop" =>
              /\ NoPop(n.strand) <=> NoPop(r.strand)
              /\ n.phase = r.phase \/ (r.phase = "idle" /\ NoPop(r.strand) /\ n.phase = "header")
    BY <1>1, <1>2, <1>3, HandlerPhase
  <1>8. Len(n.answers) - Unpopped(n.strand, n.phase) = IF op.type = "pop" THEN from + 1 ELSE from
    <2>1. CASE op.type = "pop"
      <3>1. Unpopped(n.strand, n.phase) = 0 /\ Unpopped(r.strand, r.phase) = 1
        BY <1>7, <2>1 DEF Unpopped
      <3> QED BY <3>1, <2>1, <1>1, <1>4
    <2>2. CASE op.type # "pop"
      <3>1. Unpopped(n.strand, n.phase) = Unpopped(r.strand, r.phase)
        BY <1>7, <2>2 DEF Unpopped
      <3> QED BY <3>1, <2>2, <1>1
    <2> QED BY <2>1, <2>2
  <1>9. n.phase = r.phase \/ (r.phase \in {"idle", "header"} /\ n.phase \in {"idle", "header"})
    BY <1>7
  <1>10. ItemsRead(n.answers, n.phase) = ItemsRead(r.answers, r.phase)
    BY <1>1, <1>9, ItemsReadFacts
  <1>11. InFlow(n, total)
    BY <1>5, <1>6, <1>8 DEF InFlow
  <1> QED BY <1>1, <1>9, <1>10, <1>11 DEF n, op

\* A reader's operation at the front is the next one, and posted.
LEMMA FrontIn ==
    ASSUME NEW r \in InType, NotTwice(r), NEW total \in Nat, InFlow(r, total),
           r.phase \in {"header", "body", "read"}
    PROVE  /\ r.queue # <<>> /\ Head(r.queue) \in RecvOp
           /\ Head(r.queue).n = Len(r.answers) + 1 /\ Len(r.answers) + 1 <= total
           /\ NoPop(r.strand)
           /\ Flows(r.strand, r.queue, Len(r.answers), total)
  <1>1. r.queue \in Seq(RecvOp) /\ r.queue # <<>> /\ Head(r.queue).type = "data"
    BY DEF InFlow, FrontIsData, Busy, InType
  <1>2. NoPop(r.strand) /\ Len(r.answers) \in Nat
    BY DEF NotTwice, AtMostOne, InType
  <1>3. Unpopped(r.strand, r.phase) = 0
    BY <1>2 DEF Unpopped
  <1>4. Flows(r.strand, r.queue, Len(r.answers), total)
    <2>1. Len(r.answers) - 0 = Len(r.answers)
      BY <1>2
    <2> QED BY <2>1, <1>3 DEF InFlow
  <1>5. PICK mid \in 0..total : Run(r.queue, Len(r.answers), mid)
    BY <1>4 DEF Flows
  <1>6. Head(r.queue).n = Len(r.answers) + 1 /\ Len(r.answers) + 1 <= mid
    BY <1>1, <1>5, RunTailData
  <1>7. Head(r.queue) \in RecvOp
    BY <1>1, TailFacts
  <1> QED BY <1>1, <1>2, <1>4, <1>5, <1>6, <1>7

\* A step of the reader: the phase changes, and an answer may be added.
LEMMA InPhaseFlow ==
    ASSUME NEW r \in InType, NotTwice(r), NEW total \in Nat, InFlow(r, total),
           r.phase \in {"header", "body", "read"},
           NEW n \in InType, n.strand = r.strand, n.queue = r.queue,
           \/ n.answers = r.answers /\ n.phase \in {"body", "read"}
           \/ Len(n.answers) = Len(r.answers) + 1 /\ n.phase \in {"pop", "stuck"}
    PROVE  InFlow(n, total)
  <1>1. /\ NoPop(r.strand) /\ Flows(r.strand, r.queue, Len(r.answers), total)
        /\ Len(r.answers) \in Nat
    BY FrontIn DEF InType
  <1>2. Len(n.answers) - Unpopped(n.strand, n.phase) = Len(r.answers)
    <2>1. CASE n.answers = r.answers /\ n.phase \in {"body", "read"}
      <3>1. Unpopped(n.strand, n.phase) = 0
        BY <1>1, <2>1 DEF Unpopped
      <3> QED BY <3>1, <2>1, <1>1
    <2>2. CASE Len(n.answers) = Len(r.answers) + 1 /\ n.phase \in {"pop", "stuck"}
      <3>1. Unpopped(n.strand, n.phase) = 1
        BY <2>2 DEF Unpopped
      <3> QED BY <3>1, <2>2, <1>1
    <2> QED BY <2>1, <2>2
  <1>3. FrontIsData(n.strand, n.queue, n.phase)
    BY DEF InFlow, FrontIsData, Busy
  <1> QED BY <1>1, <1>2, <1>3 DEF InFlow

\* The pop of an answered receive is posted: the flow stays.
LEMMA InRequeueFlow ==
    ASSUME NEW r \in InType, NEW total \in Nat, InFlow(r, total), r.phase = "pop"
    PROVE  InFlow([r EXCEPT !.phase = "idle", !.strand = Append(@, Pop)], total)
  <1> DEFINE n == [r EXCEPT !.phase = "idle", !.strand = Append(@, Pop)]
  <1>1. r.strand \in Seq(RecvOp) /\ r.queue \in Seq(RecvOp)
    BY DEF InType
  <1>2. /\ n.strand = Append(r.strand, Pop) /\ n.queue = r.queue
        /\ n.phase = "idle" /\ n.answers = r.answers
    BY DEF InType
  <1>3. Pop \in RecvOp /\ Pop.type = "pop" /\ Pop.n = 0
    BY OpsType DEF Pop, Operation
  <1> HIDE DEF n
  <1> DEFINE from == Len(r.answers) - Unpopped(r.strand, r.phase)
  <1>4. PICK mid \in 0..total : /\ Run(r.queue, from, mid)
                                /\ Run(r.strand, mid, total)
    BY DEF InFlow, Flows
  <1>5. ~NoPop(n.strand)
    <2>1. Len(r.strand) + 1 \in DOMAIN n.strand /\ n.strand[Len(r.strand) + 1] = Pop
      BY <1>1, <1>2, <1>3, AppendFacts
    <2> QED BY <2>1, <1>3 DEF NoPop
  <1>6. FrontIsData(n.strand, n.queue, n.phase)
    BY <1>2 DEF InFlow, FrontIsData, Busy
  <1>7. Len(n.answers) - Unpopped(n.strand, n.phase) = from
    BY <1>2, <1>5 DEF Unpopped
  <1> HIDE DEF from
  <1>8. Flows(n.strand, n.queue, from, total)
    <2>1. Run(n.strand, mid, total)
      BY <1>1, <1>2, <1>3, <1>4, RunAppendOther
    <2> QED BY <2>1, <1>2, <1>4 DEF Flows
  <1>9. InFlow(n, total)
    BY <1>6, <1>7, <1>8 DEF InFlow
  <1> QED BY <1>9 DEF n

-----------------------------------------------------------------------------
(* The flow on the wire. *)

\* A side has read no negative number of items: an answer of the wrong size is counted for a header.
LEMMA NothingOwed ==
    ASSUME NEW r \in InType, NEW total, InFlow(r, total)
    PROVE  ItemsRead(r.answers, r.phase) >= 0
  <1>1. /\ Len(r.answers) \in Nat /\ ItemsRead(r.answers, r.phase) \in Int
        /\ r.phase # "stuck" => ItemsRead(r.answers, r.phase) >= 2 * Len(r.answers)
        /\ r.phase = "stuck" => ItemsRead(r.answers, r.phase) = 2 * Len(r.answers) - 1
    BY ItemsReadFacts DEF InType
  <1>2. CASE r.phase = "stuck"
    <2>1. Unpopped(r.strand, r.phase) = 1
      BY <1>2 DEF Unpopped
    <2>2. Flows(r.strand, r.queue, Len(r.answers) - 1, total)
      BY <2>1 DEF InFlow
    <2>3. Len(r.answers) - 1 \in Nat
      BY <2>2 DEF Flows, Run
    <2> QED BY <2>3, <1>1, <1>2
  <1>3. CASE r.phase # "stuck"
    BY <1>1, <1>3
  <1> QED BY <1>2, <1>3

\* The item that joins the wire is the next of the stream.
LEMMA WireAdds ==
    ASSUME NEW r \in InType, NEW w \in Seq(ItemType), NEW msgs, WireFlow(r, w, msgs),
           NEW e \in ItemType, e = ItemAt(msgs, ItemsRead(r.answers, r.phase) + Len(w) + 1)
    PROVE  WireFlow(r, Append(w, e), msgs)
  <1> DEFINE t == Append(w, e)
  <1>1. /\ Len(w) \in Nat /\ Len(t) = Len(w) + 1
        /\ \A i \in 1..Len(w) : t[i] = w[i]
        /\ t[Len(w) + 1] = e
    BY AppendFacts
  <1> HIDE DEF t
  <1>2. ItemsRead(r.answers, r.phase) \in Int
    BY ItemsReadFacts
  <1>3. ASSUME NEW j \in 1..Len(t)
        PROVE  t[j] = ItemAt(msgs, ItemsRead(r.answers, r.phase) + j)
    <2>1. CASE j = Len(w) + 1
      <3>1. ItemsRead(r.answers, r.phase) + Len(w) + 1 = ItemsRead(r.answers, r.phase) + j
        BY <1>1, <1>2, <2>1
      <3> QED BY <1>1, <2>1, <3>1
    <2>2. CASE j \in 1..Len(w)
      BY <1>1, <2>2 DEF WireFlow
    <2> QED BY <1>1, <2>1, <2>2
  <1>4. WireFlow(r, t, msgs)
    BY <1>3 DEF WireFlow
  <1> QED BY <1>4 DEF t

\* A new message leaves what is on the wire and in the answers as it is.
LEMMA WireGrows ==
    ASSUME NEW r \in InType, NEW w \in Seq(ItemType), NEW msgs \in Seq(Nat),
           WireFlow(r, w, msgs), ItemsRead(r.answers, r.phase) + Len(w) <= 2 * Len(msgs),
           ItemsRead(r.answers, r.phase) >= 0, NEW len \in Nat
    PROVE  WireFlow(r, w, Append(msgs, len))
  <1> DEFINE new == Append(msgs, len)
             m == ItemsRead(r.answers, r.phase)
  <1>1. Len(msgs) \in Nat /\ \A i \in 1..Len(msgs) : new[i] = msgs[i]
    BY AppendFacts
  <1>2. /\ Len(r.answers) \in Nat /\ Len(w) \in Nat
        /\ m \in Int /\ m >= 2 * Len(r.answers) - 1
        /\ r.phase = "read" => m = 2 * Len(r.answers) + 2
    BY ItemsReadFacts
  <1> HIDE DEF new, m
  <1>3. m + Len(w) <= 2 * Len(msgs) /\ m >= 0
    BY DEF m
  <1>4. ASSUME NEW k \in Int, 1 <= k, k <= 2 * Len(msgs)
        PROVE  ItemAt(new, k) = ItemAt(msgs, k)
    <2>1. Nth(k) \in 1..Len(msgs)
      BY <1>1, <1>4 DEF Nth
    <2> QED BY <1>1, <2>1 DEF ItemAt
  <1>5. /\ \A j \in 1..Len(w) : w[j] = ItemAt(msgs, m + j)
        /\ r.phase = "read" => r.got = ItemAt(msgs, m)
        /\ \A i \in 1..Len(r.answers) :
              /\ r.answers[i].n = i /\ r.answers[i].msg = i
              /\ r.answers[i].len = Cut(msgs[i])
    BY DEF WireFlow, m
  <1>6. ASSUME NEW j \in 1..Len(w)
        PROVE  w[j] = ItemAt(new, m + j)
    <2>1. m + j \in Int /\ 1 <= m + j /\ m + j <= 2 * Len(msgs)
      BY <1>1, <1>2, <1>3
    <2> QED BY <2>1, <1>4, <1>5
  <1>7. r.phase = "read" => r.got = ItemAt(new, m)
    <2> SUFFICES ASSUME r.phase = "read"
                 PROVE  r.got = ItemAt(new, m)
      OBVIOUS
    <2>1. 1 <= m /\ m <= 2 * Len(msgs)
      BY <1>1, <1>2, <1>3
    <2> QED BY <2>1, <1>2, <1>4, <1>5
  <1>8. ASSUME NEW i \in 1..Len(r.answers)
        PROVE  Cut(new[i]) = Cut(msgs[i])
    <2>1. i \in 1..Len(msgs)
      BY <1>1, <1>2, <1>3
    <2> QED BY <1>1, <2>1
  <1>9. WireFlow(r, w, new)
    BY <1>5, <1>6, <1>7, <1>8 DEF WireFlow, m
  <1> QED BY <1>9 DEF new

\* A step of the reader takes the next item off the wire or none, and may answer.
LEMMA WireTakes ==
    ASSUME NEW r \in InType, NEW w \in Seq(ItemType), NEW msgs, WireFlow(r, w, msgs),
           NEW n \in InType, NEW w2,
           \/ /\ ItemsRead(n.answers, n.phase) = ItemsRead(r.answers, r.phase)
              /\ w2 = w
           \/ /\ ItemsRead(n.answers, n.phase) = ItemsRead(r.answers, r.phase) + 1
              /\ w # <<>> /\ w2 = Tail(w),
           n.phase = "read" => n.got = ItemAt(msgs, ItemsRead(n.answers, n.phase)),
           \/ n.answers = r.answers
           \/ \E a : /\ n.answers = Append(r.answers, a)
                     /\ a.n = Len(r.answers) + 1 /\ a.msg = Len(r.answers) + 1
                     /\ a.len = Cut(msgs[Len(r.answers) + 1])
    PROVE  WireFlow(n, w2, msgs)
  <1> DEFINE m == ItemsRead(r.answers, r.phase)
  <1>1. m \in Int /\ Len(r.answers) \in Nat /\ Len(w) \in Nat
    BY ItemsReadFacts
  <1>2. \A j \in 1..Len(w) : w[j] = ItemAt(msgs, m + j)
    BY DEF WireFlow
  <1> HIDE DEF m
  <1> DEFINE m2 == ItemsRead(n.answers, n.phase)
  <1>c. (m2 = m /\ w2 = w) \/ (m2 = m + 1 /\ w # <<>> /\ w2 = Tail(w))
    BY DEF m
  <1> HIDE DEF m2
  <1>3. ASSUME NEW j \in 1..Len(w2)
        PROVE  w2[j] = ItemAt(msgs, m2 + j)
    <2>1. CASE m2 = m /\ w2 = w
      BY <1>2, <2>1
    <2>2. CASE m2 = m + 1 /\ w # <<>> /\ w2 = Tail(w)
      <3>1. j + 1 \in 1..Len(w) /\ w2[j] = w[j + 1]
        BY <1>1, <2>2, TailFacts
      <3>2. m2 + j = m + (j + 1)
        BY <1>1, <2>2
      <3> QED BY <1>2, <3>1, <3>2
    <2> QED BY <1>c, <2>1, <2>2
  <1>4. ASSUME NEW i \in 1..Len(n.answers)
        PROVE  /\ n.answers[i].n = i /\ n.answers[i].msg = i
               /\ n.answers[i].len = Cut(msgs[i])
    <2>1. CASE n.answers = r.answers
      BY <2>1 DEF WireFlow
    <2>2. CASE n.answers # r.answers
      <3> DEFINE A == [n : Nat, msg : Nat, len : Nat, ok : BOOLEAN]
      <3>1. PICK a : /\ n.answers = Append(r.answers, a)
                     /\ a.n = Len(r.answers) + 1 /\ a.msg = Len(r.answers) + 1
                     /\ a.len = Cut(msgs[Len(r.answers) + 1])
        BY <2>2
      <3>2. r.answers \in Seq(A)
        BY DEF InType
      <3> HIDE DEF A
      <3>3. /\ Len(n.answers) = Len(r.answers) + 1
            /\ \A j \in 1..Len(r.answers) : n.answers[j] = r.answers[j]
            /\ n.answers[Len(r.answers) + 1] = a
        BY <3>1, <3>2
      <3>4. CASE i = Len(r.answers) + 1
        BY <3>1, <3>3, <3>4
      <3>5. CASE i \in 1..Len(r.answers)
        BY <3>3, <3>5 DEF WireFlow
      <3> QED BY <1>1, <3>3, <3>4, <3>5
    <2> QED BY <2>1, <2>2
  <1> QED BY <1>3, <1>4 DEF WireFlow, m2

-----------------------------------------------------------------------------
(* The steps keep the flow. *)

\* The two sides.
LEMMA Peers ==
    ASSUME NEW p \in Side
    PROVE  /\ Other(p) \in Side /\ Other(p) # p /\ Other(Other(p)) = p
           /\ \A r \in Side : r = p \/ r = Other(p)
  BY DEF Side, Other

\* The types the flow of one side needs.
LEMMA FlowTypes ==
    ASSUME TypeInv, NEW p \in Side
    PROVE  /\ out[p] \in OutType /\ NotTwice(out[p])
           /\ inn[p] \in InType /\ NotTwice(inn[p])
           /\ wire[p] \in Seq(ItemType) /\ sent[p] \in Seq(Nat) /\ asked[p] \in Nat
  BY DEF TypeInv, OutInv, InInv, RestInv

\* A step that moves nothing keeps FlowInv.
LEMMA FlowSame ==
    ASSUME FlowInv, UNCHANGED <<out, inn, wire, sent, asked>>
    PROVE  FlowInv'
  BY DEF FlowInv, PutBy

\* The sender of p takes a step that writes nothing.
LEMMA OutTurn ==
    ASSUME TypeInv, FlowInv, NEW p \in Side, NEW n, SetOut(p, n),
           OutFlow(n, PutBy(p), sent[p]), UNCHANGED <<inn, wire, sent, asked>>
    PROVE  FlowInv'
  <1>1. \A r \in Side : out'[r] = IF r = p THEN n ELSE out[r]
    BY DEF SetOut, TypeInv, OutInv
  <1>2. \A r \in Side : PutBy(r)' = PutBy(r)
    BY DEF PutBy
  <1> SUFFICES ASSUME NEW r \in Side
               PROVE  /\ OutFlow(out'[r], PutBy(r)', sent'[r])
                      /\ InFlow(inn'[r], asked'[r])
                      /\ WireFlow(inn'[r], wire'[r], sent'[Other(r)])
    BY DEF FlowInv
  <1> QED BY <1>1, <1>2 DEF FlowInv

\* The receiver of p takes a step: what it has read and what is on the wire to it are
\* together as much as before.
LEMMA InTurn ==
    ASSUME TypeInv, FlowInv, NEW p \in Side, NEW n, SetIn(p, n), NEW w,
           wire' = [wire EXCEPT ![p] = w], asked' \in [Side -> Nat],
           \A r \in Side \ {p} : asked'[r] = asked[r],
           InFlow(n, asked'[p]), WireFlow(n, w, sent[Other(p)]),
           ItemsRead(n.answers, n.phase) + Len(w)
                = ItemsRead(inn[p].answers, inn[p].phase) + Len(wire[p]),
           UNCHANGED <<out, sent>>
    PROVE  FlowInv'
  <1>1. \A r \in Side : /\ inn'[r] = IF r = p THEN n ELSE inn[r]
                        /\ wire'[r] = IF r = p THEN w ELSE wire[r]
    BY DEF SetIn, TypeInv, InInv, RestInv
  <1>2. \A r \in Side : PutBy(r)' = PutBy(r)
    <2> SUFFICES ASSUME NEW r \in Side
                 PROVE  PutBy(r)' = PutBy(r)
      OBVIOUS
    <2>1. Other(r) \in Side
      BY Peers
    <2> QED BY <2>1, <1>1 DEF PutBy
  <1> SUFFICES ASSUME NEW r \in Side
               PROVE  /\ OutFlow(out'[r], PutBy(r)', sent'[r])
                      /\ InFlow(inn'[r], asked'[r])
                      /\ WireFlow(inn'[r], wire'[r], sent'[Other(r)])
    BY DEF FlowInv
  <1>3. CASE r = p
    BY <1>1, <1>2, <1>3 DEF FlowInv
  <1>4. CASE r # p
    BY <1>1, <1>2, <1>4 DEF FlowInv
  <1> QED BY <1>3, <1>4

\* A send call keeps FlowInv.
LEMMA PostSendFlow ==
    ASSUME ChannelAssumption, TypeInv, FlowInv, NEW p \in Side, PostSend(p)
    PROVE  FlowInv'
  <1> DEFINE c == NowCall(p)
             q == Other(p)
             op == Operation("data", Len(sent[p]) + 1, Cut(c.len), c.type = "send")
  <1>1. /\ q \in Side /\ q # p /\ Other(q) = p
        /\ \A r \in Side : r = p \/ r = q
    BY Peers
  <1>2. c.len \in Nat /\ Cut(c.len) \in Nat
    <2>1. user[p].at <= Len(script[p]) /\ IsSend(c)
      BY DEF PostSend, UserAt
    <2> QED BY <2>1, CallFacts DEF TypeInv
  <1>3. /\ out[p] \in OutType /\ sent[p] \in Seq(Nat)
        /\ inn[q] \in InType /\ wire[q] \in Seq(ItemType) /\ Len(sent[p]) + 1 \in Nat
    BY <1>1, FlowTypes
  <1>4. op \in SendOp /\ op.type = "data" /\ op.n = Len(sent[p]) + 1 /\ op.len = Cut(c.len)
    <2> DEFINE sync == c.type = "send"
               k == Len(sent[p]) + 1
               len == Cut(c.len)
    <2>1. k \in Nat /\ sync \in BOOLEAN /\ len \in Nat
      BY <1>2, <1>3
    <2> HIDE DEF sync, k, len
    <2>2. Operation("data", k, len, sync) \in SendOp
      BY <2>1, OpsType
    <2> QED BY <2>2 DEF Operation, sync, k, len
  <1>5. /\ sent' = [sent EXCEPT ![p] = Append(@, c.len)]
        /\ SetOut(p, [out[p] EXCEPT !.strand = Append(@, op)])
        /\ UNCHANGED <<inn, wire, asked>>
    BY DEF PostSend
  <1> HIDE DEF c, op, q
  <1>6. /\ out'[p] = [out[p] EXCEPT !.strand = Append(@, op)] /\ out'[q] = out[q]
        /\ sent'[p] = Append(sent[p], c.len) /\ sent'[q] = sent[q]
    BY <1>1, <1>5 DEF SetOut, TypeInv, OutInv, RestInv
  <1>7. PutBy(p)' = PutBy(p) /\ PutBy(q)' = PutBy(q)
    BY <1>5 DEF PutBy
  <1>8. OutFlow(out[p], PutBy(p), sent[p])
    BY DEF FlowInv
  <1>9. OutFlow(out'[p], PutBy(p), sent'[p])
    <2> DEFINE len == c.len
    <2>1. len \in Nat /\ op.len = Cut(len)
      BY <1>2, <1>4
    <2> HIDE DEF len
    <2>2. OutFlow([out[p] EXCEPT !.strand = Append(@, op)], PutBy(p), Append(sent[p], len))
      BY <1>3, <1>4, <1>8, <2>1, OutPostFlow
    <2> QED BY <1>6, <2>2 DEF len
  <1>10. WireFlow(inn[q], wire[q], sent'[p])
    <2>1. PutBy(p) <= 2 * Len(sent[p])
      BY <1>3, <1>8, PutBound
    <2>2. WireFlow(inn[q], wire[q], sent[p]) /\ InFlow(inn[q], asked[q])
      BY <1>1 DEF FlowInv
    <2>3. ItemsRead(inn[q].answers, inn[q].phase) >= 0
      BY <1>3, <2>2, NothingOwed
    <2>4. PutBy(p) = ItemsRead(inn[q].answers, inn[q].phase) + Len(wire[q])
      BY DEF PutBy, q
    <2>5. ItemsRead(inn[q].answers, inn[q].phase) + Len(wire[q]) <= 2 * Len(sent[p])
      BY <2>1, <2>4
    <2>6. WireFlow(inn[q], wire[q], Append(sent[p], c.len))
      BY <1>2, <1>3, <2>2, <2>3, <2>5, WireGrows
    <2> QED BY <1>6, <2>6
  <1> SUFFICES ASSUME NEW r \in Side
               PROVE  /\ OutFlow(out'[r], PutBy(r)', sent'[r])
                      /\ InFlow(inn'[r], asked'[r])
                      /\ WireFlow(inn'[r], wire'[r], sent'[Other(r)])
    BY DEF FlowInv
  <1>11. CASE r = p
    <2>1. /\ InFlow(inn[p], asked[p])
          /\ WireFlow(inn[p], wire[p], sent[q])
      BY DEF FlowInv, q
    <2> QED BY <1>5, <1>6, <1>7, <1>9, <1>11, <2>1 DEF q
  <1>12. CASE r = q
    <2>1. /\ OutFlow(out[q], PutBy(q), sent[q])
          /\ InFlow(inn[q], asked[q])
      BY <1>1 DEF FlowInv
    <2> QED BY <1>1, <1>5, <1>6, <1>7, <1>10, <1>12, <2>1
  <1> QED BY <1>1, <1>11, <1>12

\* What the kernel takes from one side joins the wire to the other.
LEMMA WritePartFlow ==
    ASSUME TypeInv, FlowInv, NEW p \in Side, WritePart(p)
    PROVE  FlowInv'
  <1> DEFINE q  == Other(p)
             op == Head(out[p].queue)
  <1>1. /\ q \in Side /\ q # p /\ Other(q) = p
        /\ \A r \in Side : r = p \/ r = q
    BY Peers
  <1>2. PICK part \in {"header", "body"} :
              /\ out[p].phase = part
              /\ wire' = [wire EXCEPT ![q] = Append(@, Item(op.n, part, op.len))]
              /\ SetOut(p, Taken(out[p], op, part))
              /\ UNCHANGED <<inn, sent, asked>>
    BY DEF WritePart, Writing
  <1>3. /\ out[p] \in OutType /\ NotTwice(out[p]) /\ sent[p] \in Seq(Nat)
        /\ inn[q] \in InType /\ wire[q] \in Seq(ItemType)
    BY <1>1, FlowTypes
  <1>4. OutFlow(out[p], PutBy(p), sent[p])
    BY DEF FlowInv
  <1>5. /\ OutFlow(Taken(out[p], op, part), PutBy(p) + 1, sent[p])
        /\ Item(op.n, part, op.len) = ItemAt(sent[p], PutBy(p) + 1)
    BY <1>2, <1>3, <1>4, OutTakenFlow
  <1>6. Item(op.n, part, op.len) \in ItemType
    <2>1. op \in SendOp
      BY <1>2, <1>3, <1>4, FrontOut DEF Busy
    <2> HIDE DEF op
    <2> QED BY <2>1 DEF SendOp, OpType, Item, ItemType
  <1> DEFINE e == Item(op.n, part, op.len)
  <1> HIDE DEF e
  <1>7. /\ out'[p] = Taken(out[p], op, part) /\ out'[q] = out[q]
        /\ wire'[q] = Append(wire[q], e) /\ wire'[p] = wire[p]
    BY <1>1, <1>2 DEF SetOut, TypeInv, OutInv, RestInv, e
  <1>8. /\ PutBy(p) = ItemsRead(inn[q].answers, inn[q].phase) + Len(wire[q])
        /\ PutBy(p)' = ItemsRead(inn[q].answers, inn[q].phase) + Len(wire'[q])
        /\ PutBy(q)' = PutBy(q)
    BY <1>1, <1>2, <1>7 DEF PutBy
  <1>9. /\ ItemsRead(inn[q].answers, inn[q].phase) \in Int
        /\ Len(wire[q]) \in Nat /\ Len(wire'[q]) = Len(wire[q]) + 1
    BY <1>3, <1>6, <1>7, ItemsReadFacts, AppendFacts DEF e
  <1>10. PutBy(p)' = PutBy(p) + 1
    BY <1>8, <1>9
  <1>11. WireFlow(inn[q], wire'[q], sent[p])
    <2>1. WireFlow(inn[q], wire[q], sent[p])
      BY <1>1 DEF FlowInv
    <2>2. e \in ItemType
      BY <1>6 DEF e
    <2>3. e = ItemAt(sent[p], ItemsRead(inn[q].answers, inn[q].phase) + Len(wire[q]) + 1)
      BY <1>5, <1>8 DEF e
    <2> QED BY <1>3, <1>7, <2>1, <2>2, <2>3, WireAdds
  <1> HIDE DEF q, op
  <1> SUFFICES ASSUME NEW r \in Side
               PROVE  /\ OutFlow(out'[r], PutBy(r)', sent'[r])
                      /\ InFlow(inn'[r], asked'[r])
                      /\ WireFlow(inn'[r], wire'[r], sent'[Other(r)])
    BY DEF FlowInv
  <1>12. CASE r = p
    <2>1. /\ InFlow(inn[p], asked[p])
          /\ WireFlow(inn[p], wire[p], sent[q])
      BY DEF FlowInv, q
    <2> QED BY <1>2, <1>5, <1>7, <1>10, <1>12, <2>1 DEF q
  <1>13. CASE r = q
    <2>1. /\ OutFlow(out[q], PutBy(q), sent[q])
          /\ InFlow(inn[q], asked[q])
      BY <1>1 DEF FlowInv
    <2> QED BY <1>1, <1>2, <1>7, <1>8, <1>11, <1>13, <2>1
  <1> QED BY <1>1, <1>12, <1>13

\* A wire set to itself.
LEMMA WireStays == ASSUME TypeInv, NEW p \in Side PROVE [wire EXCEPT ![p] = wire[p]] = wire
  BY DEF TypeInv, RestInv

\* What a receiver that keeps its answers was given stays as it was.
LEMMA WireKeeps ==
    ASSUME NEW r \in InType, NEW w \in Seq(ItemType), NEW msgs, WireFlow(r, w, msgs),
           NEW n \in InType, n.answers = r.answers, n.got = r.got,
           ItemsRead(n.answers, n.phase) = ItemsRead(r.answers, r.phase),
           n.phase = "read" => r.phase = "read"
    PROVE  WireFlow(n, w, msgs)
  BY DEF WireFlow

\* A receive call keeps FlowInv.
LEMMA PostRecvFlow ==
    ASSUME ChannelAssumption, TypeInv, FlowInv, NEW p \in Side, PostRecv(p)
    PROVE  FlowInv'
  <1> DEFINE c == NowCall(p)
             op == Operation("data", asked[p] + 1, Cut(c.len), c.type = "recv")
             n == [inn[p] EXCEPT !.strand = Append(@, op)]
  <1>1. /\ asked' = [asked EXCEPT ![p] = @ + 1] /\ SetIn(p, n)
        /\ UNCHANGED <<out, wire, sent>>
    BY DEF PostRecv
  <1>2. inn[p] \in InType /\ NotTwice(inn[p]) /\ wire[p] \in Seq(ItemType) /\ asked[p] \in Nat
    BY FlowTypes
  <1>3. Cut(c.len) \in Nat \cup {AnyLen}
    BY CallFacts DEF PostRecv, UserAt, TypeInv
  <1>4. op \in RecvOp /\ op.type = "data" /\ op.n = asked[p] + 1
    <2> DEFINE sync == c.type = "recv"
               k == asked[p] + 1
               len == Cut(c.len)
    <2>1. k \in Nat /\ sync \in BOOLEAN /\ len \in Nat \cup {AnyLen}
      BY <1>2, <1>3
    <2> HIDE DEF sync, k, len
    <2>2. Operation("data", k, len, sync) \in RecvOp
      BY <2>1, OpsType
    <2> QED BY <2>2 DEF Operation, sync, k, len
  <1> HIDE DEF op
  <1>5. InFlow(inn[p], asked[p]) /\ WireFlow(inn[p], wire[p], sent[Other(p)])
    BY DEF FlowInv
  <1>6. InFlow(n, asked[p] + 1)
    BY <1>2, <1>4, <1>5, InPostFlow
  <1>7. n \in InType /\ n.answers = inn[p].answers /\ n.phase = inn[p].phase /\ n.got = inn[p].got
    <2>1. n \in InType
      BY <1>2, <1>4, PostIn
    <2> QED BY <2>1, <1>2 DEF InType
  <1> HIDE DEF n
  <1>8. WireFlow(n, wire[p], sent[Other(p)])
    BY <1>2, <1>5, <1>7, WireKeeps
  <1>9. /\ asked' \in [Side -> Nat] /\ asked'[p] = asked[p] + 1
        /\ \A r \in Side \ {p} : asked'[r] = asked[r]
    BY <1>1, <1>2 DEF TypeInv, RestInv
  <1>10. wire' = [wire EXCEPT ![p] = wire[p]]
    BY <1>1, WireStays
  <1> QED BY <1>1, <1>6, <1>7, <1>8, <1>9, <1>10, InTurn

\* The close of the receive half keeps FlowInv.
LEMMA CloseRecvFlow ==
    ASSUME TypeInv, FlowInv, NEW p \in Side, PostCloseRecv(p)
    PROVE  FlowInv'
  <1> DEFINE n == [inn[p] EXCEPT !.strand = Append(@, CloseOp)]
  <1>1. SetIn(p, n) /\ UNCHANGED <<out, wire, sent, asked>>
    BY DEF PostCloseRecv
  <1>2. inn[p] \in InType /\ NotTwice(inn[p]) /\ wire[p] \in Seq(ItemType) /\ asked[p] \in Nat
    BY FlowTypes
  <1>3. InFlow(inn[p], asked[p]) /\ WireFlow(inn[p], wire[p], sent[Other(p)])
    BY DEF FlowInv
  <1>4. InFlow(n, asked[p])
    BY <1>2, <1>3, InCloseFlow
  <1>5. n \in InType /\ n.answers = inn[p].answers /\ n.phase = inn[p].phase /\ n.got = inn[p].got
    <2>1. n \in InType
      BY <1>2, OpsType, PostIn
    <2> QED BY <2>1, <1>2 DEF InType
  <1> HIDE DEF n
  <1>6. WireFlow(n, wire[p], sent[Other(p)])
    BY <1>2, <1>3, <1>5, WireKeeps
  <1>7. wire' = [wire EXCEPT ![p] = wire[p]]
    BY <1>1, WireStays
  <1>8. asked' \in [Side -> Nat]
    BY <1>1 DEF TypeInv, RestInv
  <1> QED BY <1>1, <1>4, <1>5, <1>6, <1>7, <1>8, InTurn

\* The handlers of the strands keep FlowInv.
LEMMA StrandFlow ==
    ASSUME TypeInv, FlowInv, NEW p \in Side, RunSendStrand(p) \/ RunRecvStrand(p)
    PROVE  FlowInv'
  <1>1. CASE RunSendStrand(p)
    <2> DEFINE o == out[p]
               op == Head(o.strand)
               n == RunPosted(Count([o EXCEPT !.strand = Tail(@)], op.len), op)
    <2>1. SetOut(p, n) /\ o.strand # <<>> /\ UNCHANGED <<inn, wire, sent, asked>>
      BY <1>1 DEF RunSendStrand
    <2>2. o \in OutType /\ NotTwice(o) /\ sent[p] \in Seq(Nat) /\ OutFlow(o, PutBy(p), sent[p])
      BY FlowTypes DEF FlowInv
    <2> HIDE DEF o
    <2>3. OutFlow(n, PutBy(p), sent[p])
      BY <2>1, <2>2, OutRunFlow
    <2> HIDE DEF n
    <2> QED BY <2>1, <2>3, OutTurn
  <1>2. CASE RunRecvStrand(p)
    <2> DEFINE r == inn[p]
               n == RunPosted([r EXCEPT !.strand = Tail(@)], Head(r.strand))
    <2>1. SetIn(p, n) /\ r.strand # <<>> /\ UNCHANGED <<out, wire, sent, asked>>
      BY <1>2 DEF RunRecvStrand
    <2>2. /\ r \in InType /\ NotTwice(r) /\ asked[p] \in Nat /\ wire[p] \in Seq(ItemType)
          /\ InFlow(r, asked[p]) /\ WireFlow(r, wire[p], sent[Other(p)])
      BY FlowTypes DEF FlowInv
    <2> HIDE DEF r
    <2>3. /\ InFlow(n, asked[p])
          /\ n.answers = r.answers /\ n.got = r.got
          /\ ItemsRead(n.answers, n.phase) = ItemsRead(r.answers, r.phase)
          /\ n.phase = "read" => r.phase = "read"
      BY <2>1, <2>2, InRunFlow
    <2>4. n \in InType
      BY <2>1, <2>2, RunInInv
    <2> HIDE DEF n
    <2>5. WireFlow(n, wire[p], sent[Other(p)])
      BY <2>2, <2>3, <2>4, WireKeeps
    <2>6. wire' = [wire EXCEPT ![p] = wire[p]]
      BY <2>1, WireStays
    <2>7. asked' \in [Side -> Nat]
      BY <2>1 DEF TypeInv, RestInv
    <2> QED BY <2>1, <2>3, <2>5, <2>6, <2>7, InTurn DEF r
  <1> QED BY <1>1, <1>2

\* The steps of a write, and the close of the send half, keep FlowInv.
LEMMA WriteFlow ==
    ASSUME TypeInv, FlowInv, NEW p \in Side,
           PostCloseSend(p) \/ WritePart(p) \/ WriteDone(p) \/ WriteRequeue(p)
    PROVE  FlowInv'
  <1> DEFINE o == out[p]
  <1>1. o \in OutType /\ NotTwice(o) /\ sent[p] \in Seq(Nat) /\ OutFlow(o, PutBy(p), sent[p])
    BY FlowTypes DEF FlowInv
  <1>2. CASE PostCloseSend(p)
    <2>1. SetOut(p, [o EXCEPT !.strand = Append(@, CloseOp)]) /\ UNCHANGED <<inn, wire, sent, asked>>
      BY <1>2 DEF PostCloseSend
    <2> HIDE DEF o
    <2>2. OutFlow([o EXCEPT !.strand = Append(@, CloseOp)], PutBy(p), sent[p])
      BY <1>1, OutCloseFlow
    <2> QED BY <2>1, <2>2, OutTurn
  <1>3. CASE WritePart(p)
    BY <1>3, WritePartFlow
  <1>4. CASE WriteDone(p)
    <2>1. /\ SetOut(p, Written(o, Head(o.queue))) /\ o.phase = "written"
          /\ UNCHANGED <<inn, wire, sent, asked>>
      BY <1>4 DEF WriteDone, Writing
    <2> HIDE DEF o
    <2>2. OutFlow(Written(o, Head(o.queue)), PutBy(p), sent[p])
      BY <1>1, <2>1, OutWrittenFlow
    <2> QED BY <2>1, <2>2, OutTurn
  <1>5. CASE WriteRequeue(p)
    <2>1. /\ SetOut(p, [o EXCEPT !.phase = "idle", !.strand = Append(@, Pop)]) /\ o.phase = "pop"
          /\ UNCHANGED <<inn, wire, sent, asked>>
      BY <1>5 DEF WriteRequeue, Writing
    <2> HIDE DEF o
    <2>2. OutFlow([o EXCEPT !.phase = "idle", !.strand = Append(@, Pop)], PutBy(p), sent[p])
      BY <1>1, <2>1, OutRequeueFlow
    <2> QED BY <2>1, <2>2, OutTurn
  <1> QED BY <1>2, <1>3, <1>4, <1>5

\* The next item on the wire to a side.
LEMMA NextItem ==
    ASSUME NEW r \in InType, NEW w \in Seq(ItemType), w # <<>>, NEW msgs, WireFlow(r, w, msgs)
    PROVE  Head(w) = ItemAt(msgs, ItemsRead(r.answers, r.phase) + 1)
  <1>1. Head(w) = w[1] /\ 1 \in 1..Len(w)
    BY TailFacts
  <1> QED BY <1>1 DEF WireFlow

\* The steps of a read keep FlowInv: the header read is the next message's.
LEMMA ReadFlow ==
    ASSUME TypeInv, TypeInv', FlowInv, NEW p \in Side,
           ReadHeader(p) \/ ReadBody(p) \/ ReadDone(p) \/ ReadRequeue(p)
    PROVE  FlowInv'
  <1> DEFINE r == inn[p]
             msgs == sent[Other(p)]
             got == Len(r.answers)
             op == Head(r.queue)
  <1>1. /\ r \in InType /\ NotTwice(r) /\ asked[p] \in Nat /\ wire[p] \in Seq(ItemType)
        /\ InFlow(r, asked[p]) /\ WireFlow(r, wire[p], msgs)
    BY FlowTypes DEF FlowInv
  <1>2. PICK n : SetIn(p, n) /\ UNCHANGED <<out, sent, asked>>
    BY DEF ReadHeader, ReadBody, ReadDone, ReadRequeue
  <1>3. inn'[p] = n /\ n \in InType
    BY <1>2 DEF SetIn, TypeInv, InInv
  <1>4. /\ asked' \in [Side -> Nat] /\ asked'[p] = asked[p]
        /\ \A s \in Side \ {p} : asked'[s] = asked[s]
    BY <1>2 DEF TypeInv, RestInv
  <1>5. got \in Nat
    BY <1>1 DEF InType
  <1>t. wire[p] # <<>> => /\ Len(wire[p]) \in Nat
                          /\ Len(Tail(wire[p])) = Len(wire[p]) - 1
    BY <1>1, TailFacts
  <1>i. ItemsRead(r.answers, r.phase) \in Int
    BY <1>1, ItemsReadFacts
  <1>j. /\ n.phase \in {"idle", "header", "pop"} =>
                ItemsRead(n.answers, n.phase) = 2 * Len(n.answers)
        /\ n.phase = "body" => ItemsRead(n.answers, n.phase) = 2 * Len(n.answers) + 1
        /\ n.phase = "read" => ItemsRead(n.answers, n.phase) = 2 * Len(n.answers) + 2
        /\ n.phase = "stuck" => ItemsRead(n.answers, n.phase) = 2 * Len(n.answers) - 1
    BY <1>3, ItemsReadFacts
  <1>6. CASE ReadHeader(p)
    <2> DEFINE item == Head(wire[p])
    <2>1. /\ r.phase = "header" /\ wire[p] # <<>> /\ wire' = [wire EXCEPT ![p] = Tail(@)]
          /\ n = IF Fits(op, item) THEN Sized(r) ELSE Mismatch(r, op, item)
      BY <1>3, <1>6 DEF ReadHeader, Reading, Arrives, SetIn, TypeInv, InInv
    <2>2. op.n = got + 1
      BY <1>1, <2>1, FrontIn
    <2>3. ItemsRead(r.answers, r.phase) = 2 * got
      BY <1>1, <2>1, ItemsReadFacts
    <2>4. item.n = got + 1 /\ item.len = Cut(msgs[got + 1])
      <3>1. item = ItemAt(msgs, 2 * got + 1)
        BY <1>1, <2>1, <2>3, NextItem
      <3> HIDE DEF item, got
      <3>2. Nth(2 * got + 1) = got + 1
        BY <1>5, NthFacts
      <3> QED BY <3>1, <3>2 DEF ItemAt, Item
    <2>5. /\ n.strand = r.strand /\ n.queue = r.queue
          /\ \/ n.answers = r.answers /\ n.phase = "body"
             \/ n.answers = Append(r.answers, Answer(op, item, FALSE)) /\ n.phase = "stuck"
      BY <1>1, <2>1 DEF Sized, Mismatch, InType
    <2> DEFINE a == Answer(op, item, FALSE)
    <2>6. a.n = got + 1 /\ a.msg = got + 1 /\ a.len = Cut(msgs[got + 1])
      BY <2>2, <2>4 DEF Answer
    <2>7. n.answers = Append(r.answers, a) => Len(n.answers) = got + 1
      BY <1>1, <1>5 DEF InType
    <2> HIDE DEF a, item
    <2>8. ItemsRead(n.answers, n.phase) = ItemsRead(r.answers, r.phase) + 1
      <3>1. CASE n.answers = r.answers /\ n.phase = "body"
        BY <1>5, <1>j, <2>3, <3>1
      <3>2. CASE n.answers = Append(r.answers, a) /\ n.phase = "stuck"
        BY <1>5, <1>j, <2>3, <2>7, <3>2
      <3> QED BY <2>5, <3>1, <3>2 DEF a
    <2>9. WireFlow(n, Tail(wire[p]), msgs)
      <3>1. /\ n.phase # "read"
            /\ n.answers = r.answers \/ n.answers = Append(r.answers, a)
        BY <2>5 DEF a
      <3> QED BY <1>1, <1>3, <2>1, <2>6, <2>8, <3>1, WireTakes
    <2>10. InFlow(n, asked[p])
      <3>1. \/ n.answers = r.answers /\ n.phase \in {"body", "read"}
            \/ Len(n.answers) = Len(r.answers) + 1 /\ n.phase \in {"pop", "stuck"}
        BY <2>5, <2>7 DEF a
      <3> QED BY <1>1, <1>3, <2>1, <2>5, <3>1, InPhaseFlow
    <2>11. ItemsRead(n.answers, n.phase) + Len(Tail(wire[p]))
             = ItemsRead(r.answers, r.phase) + Len(wire[p])
      BY <1>t, <1>i, <2>1, <2>8
    <2> QED BY <1>2, <1>4, <2>1, <2>9, <2>10, <2>11, InTurn
  <1>7. CASE ReadBody(p)
    <2>1. /\ r.phase = "body" /\ wire[p] # <<>> /\ wire' = [wire EXCEPT ![p] = Tail(@)]
          /\ n = [r EXCEPT !.phase = "read", !.got = Head(wire[p])]
      BY <1>3, <1>7 DEF ReadBody, Reading, Arrives, SetIn, TypeInv, InInv
    <2>2. /\ n.strand = r.strand /\ n.queue = r.queue /\ n.answers = r.answers
          /\ n.phase = "read" /\ n.got = Head(wire[p])
      BY <1>1, <2>1 DEF InType
    <2>3. ItemsRead(n.answers, n.phase) = ItemsRead(r.answers, r.phase) + 1
      <3>1. ItemsRead(r.answers, r.phase) = 2 * got + 1
        BY <1>1, <2>1, ItemsReadFacts
      <3>2. ItemsRead(n.answers, n.phase) = 2 * got + 2
        BY <1>j, <2>2
      <3> QED BY <1>5, <3>1, <3>2
    <2>4. n.got = ItemAt(msgs, ItemsRead(n.answers, n.phase))
      BY <1>1, <2>1, <2>2, <2>3, NextItem
    <2>5. WireFlow(n, Tail(wire[p]), msgs)
      BY <1>1, <1>3, <2>1, <2>2, <2>3, <2>4, WireTakes
    <2>6. InFlow(n, asked[p])
      BY <1>1, <1>3, <2>1, <2>2, InPhaseFlow
    <2>7. ItemsRead(n.answers, n.phase) + Len(Tail(wire[p]))
            = ItemsRead(r.answers, r.phase) + Len(wire[p])
      BY <1>t, <1>i, <2>1, <2>3
    <2> QED BY <1>2, <1>4, <2>1, <2>5, <2>6, <2>7, InTurn
  <1>8. CASE ReadDone(p)
    <2> DEFINE a == Answer(op, r.got, TRUE)
    <2>1. /\ r.phase = "read" /\ UNCHANGED wire
          /\ n = [r EXCEPT !.phase = "pop", !.answers = Append(@, a)]
      BY <1>3, <1>8 DEF ReadDone, Reading, SetIn, TypeInv, InInv
    <2>2. op.n = got + 1
      BY <1>1, <2>1, FrontIn
    <2>3. ItemsRead(r.answers, r.phase) = 2 * got + 2
      BY <1>1, <2>1, ItemsReadFacts
    <2>4. r.got.n = got + 1 /\ r.got.len = Cut(msgs[got + 1])
      <3>1. r.got = ItemAt(msgs, 2 * got + 2)
        BY <1>1, <2>1, <2>3 DEF WireFlow
      <3> HIDE DEF got
      <3>2. Nth(2 * got + 2) = got + 1
        BY <1>5, NthFacts
      <3> QED BY <3>1, <3>2 DEF ItemAt, Item
    <2>5. a.n = got + 1 /\ a.msg = got + 1 /\ a.len = Cut(msgs[got + 1])
      BY <2>2, <2>4 DEF Answer
    <2> HIDE DEF a
    <2>6. /\ n.strand = r.strand /\ n.queue = r.queue /\ n.phase = "pop"
          /\ n.answers = Append(r.answers, a) /\ Len(n.answers) = got + 1
      BY <1>1, <2>1 DEF InType
    <2>7. ItemsRead(n.answers, n.phase) = ItemsRead(r.answers, r.phase)
      BY <1>5, <1>j, <2>3, <2>6
    <2>8. WireFlow(n, wire[p], msgs)
      <3>1. n.phase # "read"
        BY <2>6
      <3> HIDE DEF r, msgs
      <3> QED BY <1>1, <1>3, <2>5, <2>6, <2>7, <3>1, WireTakes
    <2>9. InFlow(n, asked[p])
      BY <1>1, <1>3, <2>1, <2>6, InPhaseFlow
    <2>10. wire' = [wire EXCEPT ![p] = wire[p]]
      BY <2>1, WireStays
    <2> QED BY <1>2, <1>4, <2>7, <2>8, <2>9, <2>10, InTurn
  <1>9. CASE ReadRequeue(p)
    <2>1. /\ r.phase = "pop" /\ UNCHANGED wire
          /\ n = [r EXCEPT !.phase = "idle", !.strand = Append(@, Pop)]
      BY <1>3, <1>9 DEF ReadRequeue, Reading, SetIn, TypeInv, InInv
    <2>2. n.phase = "idle" /\ n.answers = r.answers /\ n.got = r.got
      BY <1>1, <2>1 DEF InType
    <2>3. InFlow(n, asked[p])
      <3> HIDE DEF r
      <3> QED BY <1>1, <2>1, InRequeueFlow
    <2>4. ItemsRead(n.answers, n.phase) = ItemsRead(r.answers, r.phase)
      BY <1>1, <1>3, <2>1, <2>2, ItemsReadFacts
    <2>5. WireFlow(n, wire[p], msgs)
      BY <1>1, <1>3, <2>2, <2>4, WireKeeps
    <2>6. wire' = [wire EXCEPT ![p] = wire[p]]
      BY <2>1, WireStays
    <2> QED BY <1>2, <1>4, <2>3, <2>4, <2>5, <2>6, InTurn
  <1> QED BY <1>6, <1>7, <1>8, <1>9

\* FlowInv holds of a new channel.
LEMMA InitFlow == ASSUME Init PROVE FlowInv
  <1> SUFFICES ASSUME NEW p \in Side
               PROVE  /\ OutFlow(out[p], PutBy(p), sent[p])
                      /\ InFlow(inn[p], asked[p])
                      /\ WireFlow(inn[p], wire[p], sent[Other(p)])
    BY DEF FlowInv
  <1>1. Other(p) \in Side
    BY Peers
  <1>2. /\ out[p] = NewOut /\ inn[p] = NewIn /\ inn[Other(p)] = NewIn
        /\ sent[p] = <<>> /\ asked[p] = 0 /\ wire[p] = <<>> /\ wire[Other(p)] = <<>>
    BY <1>1 DEF Init
  <1>3. /\ NoPop(<<>>) /\ Len(<<>>) = 0 /\ DOMAIN <<>> = {}
        /\ Unpopped(<<>>, "idle") = 0 /\ PutOf(<<>>, "idle") = 0
        /\ ItemsRead(<<>>, "idle") = 0
    BY DEF NoPop, Unpopped, PutOf, ItemsRead
  <1>4. Flows(<<>>, <<>>, 0, 0)
    <2>1. Run(<<>>, 0, 0)
      BY <1>3 DEF Run
    <2> QED BY <2>1 DEF Flows
  <1>5. FrontIsData(<<>>, <<>>, "idle")
    BY <1>3 DEF FrontIsData, Busy
  <1>6. PutBy(p) = 0
    BY <1>2, <1>3 DEF PutBy, NewIn
  <1>7. OutFlow(out[p], PutBy(p), sent[p])
    <2>1. \A msgs : SizesCut(<<>>, msgs)
      BY <1>3 DEF SizesCut
    <2> QED BY <1>2, <1>3, <1>4, <1>5, <1>6, <2>1 DEF OutFlow, NewOut
  <1>8. InFlow(inn[p], asked[p])
    BY <1>2, <1>3, <1>4, <1>5 DEF InFlow, NewIn
  <1>9. WireFlow(inn[p], wire[p], sent[Other(p)])
    BY <1>2, <1>3 DEF WireFlow, NewIn
  <1> QED BY <1>7, <1>8, <1>9

\* Every step keeps FlowInv.
LEMMA StepFlow ==
    ASSUME ChannelAssumption, TypeInv, TypeInv', FlowInv, [Next]_vars
    PROVE  FlowInv'
  <1>1. ASSUME NEW p \in Side, UserStep(p)
        PROVE  FlowInv'
    <2>1. CASE PostSend(p)
      BY <2>1, PostSendFlow
    <2>2. CASE PostRecv(p)
      BY <2>2, PostRecvFlow
    <2>3. CASE Begin(p) \/ Refuse(p) \/ Return(p)
      BY <2>3, FlowSame DEF Begin, Refuse, Return
    <2> QED BY <1>1, <2>1, <2>2, <2>3 DEF UserStep
  <1>2. ASSUME NEW p \in Side, CloserStep(p)
        PROVE  FlowInv'
    <2>1. CASE PostCloseRecv(p)
      BY <2>1, CloseRecvFlow
    <2>2. CASE PostCloseSend(p)
      BY <2>2, WriteFlow
    <2>3. CASE Stop(p) \/ CloseSocket(p)
      BY <2>3, FlowSame DEF Stop, CloseSocket
    <2> QED BY <1>2, <2>1, <2>2, <2>3 DEF CloserStep
  <1>3. ASSUME NEW p \in Side, RunSendStrand(p) \/ RunRecvStrand(p)
        PROVE  FlowInv'
    BY <1>3, StrandFlow
  <1>4. ASSUME NEW p \in Side, WritePart(p) \/ WriteDone(p) \/ WriteRequeue(p)
        PROVE  FlowInv'
    BY <1>4, WriteFlow
  <1>5. ASSUME NEW p \in Side, ReadHeader(p) \/ ReadBody(p) \/ ReadDone(p) \/ ReadRequeue(p)
        PROVE  FlowInv'
    BY <1>5, ReadFlow
  <1>6. ASSUME NEW p \in Side, WriteFails(p) \/ ReadFails(p) \/ Fail(p)
        PROVE  FlowInv'
    BY <1>6, FlowSame DEF WriteFails, ReadFails, Fail, Abort
  <1>7. CASE UNCHANGED vars
    BY <1>7, FlowSame DEF vars
  <1> QED BY <1>1, <1>2, <1>3, <1>4, <1>5, <1>6, <1>7 DEF Next, WriteStep, ReadStep

\* The flow of messages is an invariant.
LEMMA FlowHolds == SafetySpec => [](TypeInv /\ FlowInv)
  <1>1. Init => TypeInv /\ FlowInv
    BY InitType, InitFlow, ChannelAssumption
  <1>2. TypeInv /\ FlowInv /\ [Next]_vars => (TypeInv /\ FlowInv)'
    BY StepType, StepFlow, ChannelAssumption
  <1> QED BY <1>1, <1>2, PTL DEF SafetySpec

-----------------------------------------------------------------------------
(* What was sent are lengths of the script, one per call at most. *)

SentInv ==
    /\ script \in Scripts
    /\ \A p \in Side :
          /\ \A i \in 1..Len(sent[p]) : sent[p][i] \in {script[p][k].len : k \in DOMAIN script[p]}
          /\ Len(sent[p]) < user[p].at + IF user[p].pc = "wait" THEN 1 ELSE 0

\* SentInv holds of a new channel.
LEMMA InitSent == ASSUME Init PROVE SentInv
  BY DEF Init, SentInv

\* Every step keeps SentInv: what is sent is a call of the script.
LEMMA StepSent ==
    ASSUME ChannelAssumption, TypeInv, SentInv, [Next]_vars
    PROVE  SentInv'
  <1>1. CASE UNCHANGED <<script, user, sent>>
    BY <1>1 DEF SentInv
  <1>2. ASSUME NEW p \in Side, UserStep(p)
        PROVE  SentInv'
    <2>1. /\ user[p] \in [pc : {"call", "post", "wait"}, at : Nat \ {0}] /\ sent[p] \in Seq(Nat)
          /\ Len(sent[p]) \in Nat
      BY DEF TypeInv, RestInv
    <2>2. NextCall(user[p]).at = user[p].at + 1 /\ NextCall(user[p]).pc = "call"
      BY DEF NextCall
    <2>3. /\ UNCHANGED script
          /\ \A r \in Side \ {p} : user'[r] = user[r] /\ sent'[r] = sent[r]
      BY <1>2 DEF UserStep, Begin, PostSend, PostRecv, Refuse, Return, AfterPost, TypeInv, RestInv
    <2>4. /\ \A i \in 1..Len(sent'[p]) : sent'[p][i] \in {script[p][k].len : k \in DOMAIN script[p]}
          /\ Len(sent'[p]) < user'[p].at + IF user'[p].pc = "wait" THEN 1 ELSE 0
      <3>0. /\ \A i \in 1..Len(sent[p]) : sent[p][i] \in {script[p][k].len : k \in DOMAIN script[p]}
            /\ Len(sent[p]) < user[p].at + IF user[p].pc = "wait" THEN 1 ELSE 0
        BY DEF SentInv
      <3>1. CASE PostSend(p)
        <4> DEFINE len == NowCall(p).len
        <4>1. len \in Nat /\ len \in {script[p][k].len : k \in DOMAIN script[p]}
          <5>1. user[p].at <= Len(script[p]) /\ IsSend(NowCall(p))
            BY <3>1 DEF PostSend, UserAt
          <5>2. len \in Nat
            BY <5>1, CallFacts DEF TypeInv
          <5>3. user[p].at \in DOMAIN script[p]
            BY <5>1, <2>1 DEF TypeInv, RestInv
          <5> QED BY <5>2, <5>3 DEF NowCall
        <4>2. /\ sent'[p] = Append(sent[p], len) /\ user[p].pc = "post"
              /\ user'[p] = IF Waits(NowCall(p)) THEN [user[p] EXCEPT !.pc = "wait"]
                                                 ELSE NextCall(user[p])
          BY <3>1 DEF PostSend, AfterPost, UserAt, TypeInv, RestInv
        <4> HIDE DEF len
        <4>3. /\ Len(sent'[p]) = Len(sent[p]) + 1
              /\ \A i \in 1..Len(sent[p]) : sent'[p][i] = sent[p][i]
              /\ sent'[p][Len(sent[p]) + 1] = len
          BY <2>1, <4>1, <4>2, AppendFacts
        <4>4. \A i \in 1..Len(sent'[p]) : sent'[p][i] \in {script[p][k].len : k \in DOMAIN script[p]}
          <5> SUFFICES ASSUME NEW i \in 1..Len(sent'[p])
                       PROVE  sent'[p][i] \in {script[p][k].len : k \in DOMAIN script[p]}
            OBVIOUS
          <5>1. CASE i = Len(sent[p]) + 1
            BY <5>1, <4>1, <4>3
          <5>2. CASE i \in 1..Len(sent[p])
            BY <5>2, <3>0, <4>3
          <5> QED BY <2>1, <4>3, <5>1, <5>2
        <4>5. Len(sent[p]) + 1 < user'[p].at + IF user'[p].pc = "wait" THEN 1 ELSE 0
          <5>1. CASE Waits(NowCall(p))
            BY <5>1, <2>1, <3>0, <4>2
          <5>2. CASE ~Waits(NowCall(p))
            BY <5>2, <2>1, <2>2, <3>0, <4>2
          <5> QED BY <5>1, <5>2
        <4> QED BY <4>3, <4>4, <4>5
      <3>2. CASE PostRecv(p)
        <4>1. /\ sent'[p] = sent[p] /\ user[p].pc = "post"
              /\ user'[p] = IF Waits(NowCall(p)) THEN [user[p] EXCEPT !.pc = "wait"]
                                                 ELSE NextCall(user[p])
          BY <3>2 DEF PostRecv, AfterPost, UserAt, TypeInv, RestInv
        <4>2. CASE Waits(NowCall(p))
          BY <4>1, <4>2, <2>1, <3>0
        <4>3. CASE ~Waits(NowCall(p))
          BY <4>1, <4>3, <2>1, <2>2, <3>0
        <4> QED BY <4>2, <4>3
      <3>3. CASE Begin(p)
        <4>1. /\ sent'[p] = sent[p] /\ user[p].pc = "call"
              /\ user'[p] = NextCall(user[p]) \/ user'[p] = [user[p] EXCEPT !.pc = "post"]
          BY <3>3 DEF Begin, UserAt, TypeInv, RestInv
        <4>2. CASE user'[p] = NextCall(user[p])
          BY <4>1, <4>2, <2>1, <2>2, <3>0
        <4>3. CASE user'[p] = [user[p] EXCEPT !.pc = "post"]
          BY <4>1, <4>3, <2>1, <3>0
        <4> QED BY <4>1, <4>2, <4>3
      <3>4. CASE Refuse(p) \/ Return(p)
        <4>1. sent'[p] = sent[p] /\ user'[p] = NextCall(user[p])
          BY <3>4 DEF Refuse, Return, UserAt, TypeInv, RestInv
        <4> QED BY <4>1, <2>1, <2>2, <3>0
      <3> QED BY <1>2, <3>1, <3>2, <3>3, <3>4 DEF UserStep
    <2>5. script' \in Scripts /\ script'[p] = script[p]
      BY <2>3 DEF SentInv
    <2>6. ASSUME NEW r \in Side
          PROVE  /\ \A i \in 1..Len(sent'[r]) :
                        sent'[r][i] \in {script'[r][k].len : k \in DOMAIN script'[r]}
                 /\ Len(sent'[r]) < user'[r].at + IF user'[r].pc = "wait" THEN 1 ELSE 0
      <3>1. CASE r = p
        BY <2>4, <2>5, <3>1, Zenon
      <3>2. CASE r # p
        <4>1. sent'[r] = sent[r] /\ user'[r] = user[r] /\ script' = script
          BY <2>3, <3>2
        <4>2. /\ \A i \in 1..Len(sent[r]) : sent[r][i] \in {script[r][k].len : k \in DOMAIN script[r]}
              /\ Len(sent[r]) < user[r].at + IF user[r].pc = "wait" THEN 1 ELSE 0
          BY DEF SentInv
        <4> QED BY <4>1, <4>2, Zenon
      <3> QED BY <3>1, <3>2
    <2> QED BY <2>5, <2>6 DEF SentInv
  <1>3. ASSUME NEW p \in Side,
               CloserStep(p) \/ RunSendStrand(p) \/ RunRecvStrand(p) \/ WriteStep(p)
                 \/ ReadStep(p) \/ Fail(p)
        PROVE  UNCHANGED <<script, user, sent>>
    BY <1>3 DEF CloserStep, Stop, PostCloseRecv, PostCloseSend, CloseSocket, RunSendStrand,
                RunRecvStrand, WriteStep, WritePart, WriteDone, WriteRequeue, WriteFails,
                ReadStep, ReadHeader, ReadBody, ReadDone, ReadRequeue, ReadFails, Fail, Abort
  <1> QED BY <1>1, <1>2, <1>3 DEF Next, vars

\* No call sends more than a header can say.
LengthsFit == \A s \in Scripts, p \in Side : \A k \in DOMAIN s[p] : s[p][k].len < SizeLimit

\* A length that fits a header of 32 bits is sent as it is.
LEMMA SentWhole ==
    ASSUME ChannelAssumption, LengthsFit, TypeInv, SentInv, NEW p \in Side, NEW i \in 1..Len(sent[p])
    PROVE  Cut(sent[p][i]) = sent[p][i] /\ sent[p][i] \in Nat
  <1>1. sent[p][i] \in Nat
    BY DEF TypeInv, RestInv
  <1>2. sent[p][i] < SizeLimit
    <2>1. script \in Scripts /\ sent[p][i] \in {script[p][k].len : k \in DOMAIN script[p]}
      BY DEF SentInv
    <2>2. PICK k \in DOMAIN script[p] : sent[p][i] = script[p][k].len
      BY <2>1
    <2> QED BY <2>1, <2>2 DEF LengthsFit
  <1> QED BY <1>1, <1>2 DEF Cut, AnyLen, ChannelAssumption

\* A receive is answered with a message that has been sent.
LEMMA AnswersSent ==
    ASSUME TypeInv, FlowInv, NEW p \in Side
    PROVE  /\ Len(inn[p].answers) <= Len(sent[Other(p)])
           /\ inn[p].phase = "read" => Len(inn[p].answers) + 1 <= Len(sent[Other(p)])
           /\ inn[p].phase \in {"header", "body"} /\ wire[p] # <<>> =>
                Len(inn[p].answers) + 1 <= Len(sent[Other(p)])
  <1> DEFINE q == Other(p)
             r == inn[p]
             m == ItemsRead(r.answers, r.phase)
  <1>1. q \in Side /\ Other(q) = p
    BY Peers
  <1>2. /\ r \in InType /\ Len(wire[p]) \in Nat /\ wire[p] \in Seq(ItemType)
        /\ sent[q] \in Seq(Nat) /\ out[q] \in OutType
        /\ OutFlow(out[q], PutBy(q), sent[q])
    BY <1>1, FlowTypes DEF FlowInv
  <1>3. PutBy(q) = m + Len(wire[p])
    BY <1>1 DEF PutBy
  <1>4. PutBy(q) <= 2 * Len(sent[q]) /\ Len(sent[q]) \in Nat
    BY <1>2, PutBound
  <1>5. /\ Len(r.answers) \in Nat /\ m \in Int
        /\ m >= 2 * Len(r.answers) - 1
        /\ r.phase = "read" => m = 2 * Len(r.answers) + 2
        /\ r.phase = "body" => m = 2 * Len(r.answers) + 1
        /\ r.phase = "header" => m = 2 * Len(r.answers)
    BY <1>2, ItemsReadFacts
  <1>6. wire[p] # <<>> => Len(wire[p]) # 0
    BY <1>2, EmptyIsLen0
  <1> HIDE DEF q, m, r
  <1>7. m + Len(wire[p]) <= 2 * Len(sent[q])
    BY <1>3, <1>4
  <1>8. Len(r.answers) <= Len(sent[q])
    BY <1>2, <1>4, <1>5, <1>7
  <1>9. r.phase = "read" => Len(r.answers) + 1 <= Len(sent[q])
    BY <1>2, <1>4, <1>5, <1>7, SMTT(30)
  <1>10. r.phase \in {"header", "body"} /\ wire[p] # <<>> => Len(r.answers) + 1 <= Len(sent[q])
    <2> SUFFICES ASSUME r.phase \in {"header", "body"}, wire[p] # <<>>
                 PROVE  Len(r.answers) + 1 <= Len(sent[q])
      OBVIOUS
    <2>1. m >= 2 * Len(r.answers)
      BY <1>5
    <2>2. Len(wire[p]) >= 1
      BY <1>2, <1>6
    <2> QED BY <1>2, <1>4, <1>5, <1>7, <2>1, <2>2
  <1> QED BY <1>8, <1>9, <1>10 DEF q, r

\* So TypeInv, FlowInv and SentInv hold always.
LEMMA SentHolds == SafetySpec => [](TypeInv /\ FlowInv /\ SentInv)
  <1>1. Init => SentInv
    BY InitSent
  <1>2. TypeInv /\ SentInv /\ [Next]_vars => SentInv'
    BY StepSent, ChannelAssumption
  <1> QED BY <1>1, <1>2, FlowHolds, PTL DEF SafetySpec

\* Whatever the sides send and receive, whenever they close and whichever of them fails,
\* the n'th receive of a side is answered n'th, with the other side's n'th message, whole
\* if it succeeds: handlers that set promises outside the strand do not reorder them.  The
\* condition is needed, for a header has 32 bits.
THEOREM AnsweredInOrder == LengthsFit => (SafetySpec => []InOrder)
  <1> SUFFICES ASSUME LengthsFit
               PROVE  SafetySpec => []InOrder
    OBVIOUS
  <1>1. TypeInv /\ FlowInv /\ SentInv => InOrder
    <2> SUFFICES ASSUME TypeInv, FlowInv, SentInv, NEW p \in Side
                 PROVE  /\ \A i \in DOMAIN inn[p].answers :
                            LET a == inn[p].answers[i] IN
                            /\ a.n = i /\ a.msg = i
                            /\ a.ok => a.len = sent[Other(p)][i]
                        /\ \A part \in {"header", "body"} :
                            inn[p].phase = part /\ wire[p] # <<>> => Head(wire[p]).part = part
      BY DEF InOrder
    <2> DEFINE r == inn[p]
               msgs == sent[Other(p)]
    <2>1. /\ r \in InType /\ wire[p] \in Seq(ItemType) /\ WireFlow(r, wire[p], msgs)
          /\ Other(p) \in Side
      BY FlowTypes, Peers DEF FlowInv
    <2>2. DOMAIN r.answers = 1..Len(r.answers) /\ Len(r.answers) \in Nat /\ Len(msgs) \in Nat
          /\ Len(r.answers) <= Len(msgs)
      BY <2>1, FlowTypes, AnswersSent DEF InType
    <2>3. ASSUME NEW i \in DOMAIN r.answers
          PROVE  /\ r.answers[i].n = i /\ r.answers[i].msg = i
                 /\ r.answers[i].len = msgs[i]
      <3>1. i \in 1..Len(msgs)
        BY <2>2
      <3>2. Cut(msgs[i]) = msgs[i]
        BY <2>1, <3>1, SentWhole, ChannelAssumption
      <3> QED BY <2>1, <2>2, <3>2 DEF WireFlow
    <2>4. ASSUME NEW part \in {"header", "body"}, r.phase = part, wire[p] # <<>>
          PROVE  Head(wire[p]).part = part
      <3> DEFINE m == ItemsRead(r.answers, r.phase)
                 k == Len(r.answers)
      <3>1. Head(wire[p]) = ItemAt(msgs, m + 1)
        BY <2>1, <2>4, NextItem
      <3>2. m = IF part = "header" THEN 2 * k ELSE 2 * k + 1
        BY <2>1, <2>4, ItemsReadFacts
      <3>3. k \in Nat
        BY <2>2
      <3> HIDE DEF m, k, r, msgs
      <3>4. (m + 1) % 2 = 1 <=> part = "header"
        <4>1. /\ (2 * k + 1) % 2 = 1 /\ (2 * k + 2) % 2 = 0
          BY <3>3, NthFacts
        <4>2. CASE part = "header"
          BY <4>1, <4>2, <3>2
        <4>3. CASE part = "body"
          <5>1. m + 1 = 2 * k + 2
            BY <3>2, <3>3, <4>3
          <5> QED BY <4>1, <4>3, <5>1
        <4> QED BY <4>2, <4>3
      <3> QED BY <3>1, <3>4 DEF ItemAt, Item
    <2> QED BY <2>3, <2>4
  <1> QED BY <1>1, SentHolds, PTL

\* When the promise of a synchronous send is set, in the handler of async_write and outside
\* the strand, its operation is the one at the front and is written: no later step reads
\* the caller's buffer, also after an early close or a failure.
THEOREM BuffersReleased == SafetySpec => []BufferReleased
  <1>1. TypeInv /\ FlowInv => BufferReleased
    <2> SUFFICES ASSUME TypeInv, FlowInv, NEW p \in Side, NEW n \in out[p].returned
                 PROVE  /\ \A i \in 2..Len(out[p].queue) : out[p].queue[i].n # n
                        /\ out[p].phase \in {"header", "body"} => Head(out[p].queue).n # n
      BY DEF BufferReleased
    <2> DEFINE o == out[p]
               put == PutBy(p)
               msgs == sent[p]
    <2>1. o \in OutType /\ msgs \in Seq(Nat) /\ OutFlow(o, put, msgs) /\ o.queue \in Seq(SendOp)
      BY FlowTypes DEF FlowInv, OutType
    <2>2. n \in Nat /\ n # 0 /\ 2 * n <= put /\ put \in Nat
      BY <2>1, PutBound DEF OutFlow, OutType
    <2> HIDE DEF o, put, msgs
    <2>3. CASE Busy(o.strand, o.phase)
      <3>1. PICK from \in 0..Len(msgs) :
                  /\ put = 2 * from + PutOf(o.strand, o.phase)
                  /\ Flows(o.strand, o.queue, from, Len(msgs))
                  /\ o.queue # <<>> /\ Head(o.queue).n = from + 1
        BY <2>1, <2>3, FrontOut
      <3>2. PutOf(o.strand, o.phase) \in 0..2
            /\ (o.phase \in {"header", "body"} => PutOf(o.strand, o.phase) <= 1)
        BY <2>1 DEF PutOf, OutType
      <3>3. from \in Nat
        OBVIOUS
      <3>4. n <= from + 1 /\ (o.phase \in {"header", "body"} => n <= from)
        BY <2>2, <3>1, <3>2, <3>3
      <3>5. Head(o.queue).type = "data" /\ Head(o.queue) = o.queue[1]
            /\ DOMAIN o.queue = 1..Len(o.queue) /\ 1 \in DOMAIN o.queue /\ Len(o.queue) \in Nat
        BY <2>1, <2>3, <3>1, TailFacts DEF OutFlow, FrontIsData
      <3>6. PICK mid \in 0..Len(msgs) : Run(o.queue, from, mid)
        BY <3>1 DEF Flows
      <3>7. ASSUME NEW i \in 2..Len(o.queue)
            PROVE  o.queue[i].n # n
        <4>1. i \in DOMAIN o.queue /\ 1 < i
          BY <3>5
        <4>2. CASE o.queue[i].type = "data"
          <5>1. o.queue[1].n < o.queue[i].n
            BY <3>5, <3>6, <4>1, <4>2 DEF Run
          <5>2. o.queue[i].n \in from+1..mid
            BY <3>6, <4>1, <4>2 DEF Run
          <5> QED BY <2>2, <3>1, <3>3, <3>4, <3>5, <5>1, <5>2
        <4>3. CASE o.queue[i].type # "data"
          BY <2>2, <3>6, <4>1, <4>3 DEF Run
        <4> QED BY <4>2, <4>3
      <3>8. o.phase \in {"header", "body"} => Head(o.queue).n # n
        BY <2>2, <3>1, <3>3, <3>4
      <3> QED BY <3>7, <3>8 DEF o
    <2>4. CASE ~Busy(o.strand, o.phase)
      <3>1. PICK from \in 0..Len(msgs) :
                  /\ put = 2 * from + PutOf(o.strand, o.phase)
                  /\ Flows(o.strand, o.queue, from, Len(msgs))
        BY <2>1 DEF OutFlow
      <3>2. PutOf(o.strand, o.phase) = 0 /\ o.phase = "idle"
        BY <2>4 DEF PutOf, Busy
      <3>3. PICK mid \in 0..Len(msgs) : Run(o.queue, from, mid)
        BY <3>1 DEF Flows
      <3>4. from \in Nat
        OBVIOUS
      <3>5. n <= from
        BY <2>2, <3>1, <3>2, <3>4
      <3>6. ASSUME NEW i \in 2..Len(o.queue)
            PROVE  o.queue[i].n # n
        <4>1. i \in DOMAIN o.queue
          BY <2>1
        <4>2. o.queue[i].n \in from+1..mid \/ o.queue[i].n = 0
          BY <3>3, <4>1 DEF Run
        <4> QED BY <2>2, <3>4, <3>5, <4>2
      <3> QED BY <3>2, <3>6 DEF o
    <2> QED BY <2>3, <2>4
  <1> QED BY <1>1, FlowHolds, PTL

-----------------------------------------------------------------------------
(* The channel implements a FIFO pipe. *)

\* The messages and the answers of a side, as FifoPipe has them.
Msgs(s)  == [i \in DOMAIN s |-> [n |-> i, len |-> s[i]]]
Given(a) == [i \in DOMAIN a |-> [n |-> a[i].msg, len |-> a[i].len]]

Named   == [n : Nat, len : Nat]
Answers == [n : Nat, msg : Nat, len : Nat, ok : BOOLEAN]

\* The messages sent, numbered, are a sequence of the pipe's messages.
LEMMA MsgsType ==
    ASSUME NEW s \in Seq(Nat)
    PROVE  /\ Msgs(s) \in Seq(Named) /\ Len(Msgs(s)) = Len(s)
           /\ \A i \in 1..Len(s) : Msgs(s)[i] = [n |-> i, len |-> s[i]]
  <1>1. /\ DOMAIN s = 1..Len(s) /\ Len(s) \in Nat
        /\ \A i \in 1..Len(s) : s[i] \in Nat
    OBVIOUS
  <1>2. Msgs(s) = [i \in 1..Len(s) |-> [n |-> i, len |-> s[i]]]
    BY <1>1 DEF Msgs
  <1>3. \A i \in 1..Len(s) : [n |-> i, len |-> s[i]] \in Named
    BY <1>1 DEF Named
  <1> QED BY <1>1, <1>2, <1>3

\* A send appends a message to them.
LEMMA MsgsAppend ==
    ASSUME NEW s \in Seq(Nat), NEW len \in Nat
    PROVE  Msgs(Append(s, len)) = Append(Msgs(s), [n |-> Len(s) + 1, len |-> len])
  <1> DEFINE t == Append(s, len)
             e == [n |-> Len(s) + 1, len |-> len]
             u == Append(Msgs(s), e)
  <1>1. /\ t \in Seq(Nat) /\ Len(s) \in Nat /\ Len(t) = Len(s) + 1
        /\ \A i \in 1..Len(s) : t[i] = s[i]
        /\ t[Len(s) + 1] = len
    BY AppendFacts
  <1>2. e \in Named
    BY <1>1 DEF Named
  <1> HIDE DEF t, e
  <1>3. /\ Msgs(s) \in Seq(Named) /\ Len(Msgs(s)) = Len(s)
        /\ \A i \in 1..Len(s) : Msgs(s)[i] = [n |-> i, len |-> s[i]]
    BY MsgsType
  <1>4. /\ u \in Seq(Named) /\ Len(u) = Len(s) + 1
        /\ \A i \in 1..Len(s) : u[i] = Msgs(s)[i]
        /\ u[Len(s) + 1] = e
    BY <1>2, <1>3, AppendFacts
  <1>5. /\ Msgs(t) \in Seq(Named) /\ Len(Msgs(t)) = Len(t)
        /\ \A i \in 1..Len(t) : Msgs(t)[i] = [n |-> i, len |-> t[i]]
    BY <1>1, MsgsType
  <1> HIDE DEF u
  <1>6. ASSUME NEW i \in 1..Len(Msgs(t))
        PROVE  Msgs(t)[i] = u[i]
    <2>1. CASE i = Len(s) + 1
      BY <2>1, <1>1, <1>4, <1>5 DEF e
    <2>2. CASE i \in 1..Len(s)
      <3>1. Msgs(t)[i] = [n |-> i, len |-> s[i]]
        BY <2>2, <1>1, <1>5
      <3>2. u[i] = [n |-> i, len |-> s[i]]
        BY <2>2, <1>3, <1>4
      <3> QED BY <3>1, <3>2
    <2> QED BY <1>1, <1>5, <2>1, <2>2
  <1>7. Msgs(t) = u
    BY <1>1, <1>4, <1>5, <1>6, SeqEqual
  <1> QED BY <1>7 DEF t, e, u

\* The answers given are a sequence of the pipe's messages.
LEMMA GivenType ==
    ASSUME NEW a \in Seq(Answers)
    PROVE  /\ Given(a) \in Seq(Named) /\ Len(Given(a)) = Len(a)
           /\ \A i \in 1..Len(a) : Given(a)[i] = [n |-> a[i].msg, len |-> a[i].len]
  <1>1. /\ DOMAIN a = 1..Len(a) /\ Len(a) \in Nat
        /\ \A i \in 1..Len(a) : a[i] \in Answers
    OBVIOUS
  <1>2. Given(a) = [i \in 1..Len(a) |-> [n |-> a[i].msg, len |-> a[i].len]]
    BY <1>1 DEF Given
  <1>3. \A i \in 1..Len(a) : [n |-> a[i].msg, len |-> a[i].len] \in Named
    BY <1>1 DEF Named, Answers
  <1> QED BY <1>1, <1>2, <1>3

\* An answer appends a message to them.
LEMMA GivenAppend ==
    ASSUME NEW a \in Seq(Answers), NEW x \in Answers
    PROVE  Given(Append(a, x)) = Append(Given(a), [n |-> x.msg, len |-> x.len])
  <1> DEFINE t == Append(a, x)
             e == [n |-> x.msg, len |-> x.len]
             u == Append(Given(a), e)
  <1>1. /\ t \in Seq(Answers) /\ Len(a) \in Nat /\ Len(t) = Len(a) + 1
        /\ \A i \in 1..Len(a) : t[i] = a[i]
        /\ t[Len(a) + 1] = x
    BY AppendFacts
  <1>2. e \in Named
    BY DEF Named, Answers
  <1> HIDE DEF t, e
  <1>3. /\ Given(a) \in Seq(Named) /\ Len(Given(a)) = Len(a)
        /\ \A i \in 1..Len(a) : Given(a)[i] = [n |-> a[i].msg, len |-> a[i].len]
    BY GivenType
  <1>4. /\ u \in Seq(Named) /\ Len(u) = Len(a) + 1
        /\ \A i \in 1..Len(a) : u[i] = Given(a)[i]
        /\ u[Len(a) + 1] = e
    BY <1>2, <1>3, AppendFacts
  <1>5. /\ Given(t) \in Seq(Named) /\ Len(Given(t)) = Len(t)
        /\ \A i \in 1..Len(t) : Given(t)[i] = [n |-> t[i].msg, len |-> t[i].len]
    BY <1>1, GivenType
  <1> HIDE DEF u
  <1>6. ASSUME NEW i \in 1..Len(Given(t))
        PROVE  Given(t)[i] = u[i]
    <2>1. CASE i = Len(a) + 1
      BY <2>1, <1>1, <1>4, <1>5 DEF e
    <2>2. CASE i \in 1..Len(a)
      <3>1. Given(t)[i] = [n |-> a[i].msg, len |-> a[i].len]
        BY <2>2, <1>1, <1>5
      <3>2. u[i] = [n |-> a[i].msg, len |-> a[i].len]
        BY <2>2, <1>3, <1>4
      <3> QED BY <3>1, <3>2
    <2> QED BY <1>1, <1>5, <2>1, <2>2
  <1>7. Given(t) = u
    BY <1>1, <1>4, <1>5, <1>6, SeqEqual
  <1> QED BY <1>7 DEF t, e, u

\* The state of the pipe.
PipeSent  == [p \in Side |-> Msgs(sent[p])]
PipeGiven == [p \in Side |-> Given(inn[p].answers)]

\* A send call is a Send of the pipe.
LEMMA SendsToPipe ==
    ASSUME ChannelAssumption, TypeInv, SentInv, NEW p \in Side, PostSend(p)
    PROVE  \E m \in [n : Position, len : Lengths] :
              PipeSent' = [PipeSent EXCEPT ![p] = Append(@, m)]
  <1> DEFINE len == NowCall(p).len
             m == [n |-> Len(sent[p]) + 1, len |-> len]
  <1>1. /\ user[p].at <= Len(script[p]) /\ IsSend(NowCall(p)) /\ user[p].pc = "post"
        /\ sent' = [sent EXCEPT ![p] = Append(@, len)]
    BY DEF PostSend, UserAt
  <1>2. /\ sent \in [Side -> Seq(Nat)] /\ sent[p] \in Seq(Nat) /\ Len(sent[p]) \in Nat
        /\ script[p] \in Seq(Call) /\ user[p].at \in Nat \ {0}
    BY DEF TypeInv, RestInv
  <1>3. len \in Nat
    BY <1>1, CallFacts DEF TypeInv
  <1>4. Len(sent[p]) < user[p].at /\ script \in Scripts
    <2>1. Len(sent[p]) < user[p].at + 0
      BY <1>1 DEF SentInv
    <2> QED BY <1>2, <2>1 DEF SentInv
  <1>5. Len(sent[p]) + 1 \in Position
    <2>1. Len(sent[p]) + 1 \in 1..Len(script[p])
      BY <1>1, <1>2, <1>4
    <2> DEFINE all == {1..Len(s[r]) : s \in Scripts, r \in Side}
    <2>2. 1..Len(script[p]) \in all
      BY <1>4
    <2> HIDE DEF all
    <2>3. Len(sent[p]) + 1 \in UNION all
      BY <2>1, <2>2
    <2> QED BY <2>3 DEF Position, all
  <1>6. len \in Lengths
    <2>1. user[p].at \in DOMAIN script[p]
      BY <1>1, <1>2
    <2>2. len = script[p][user[p].at].len
      BY DEF NowCall
    <2> DEFINE lens(s, r) == {s[r][i].len : i \in DOMAIN s[r]}
               all == {lens(s, r) : s \in Scripts, r \in Side}
    <2>3. len \in lens(script, p)
      BY <2>1, <2>2
    <2>4. Lengths = UNION all
      BY DEF Lengths
    <2> HIDE DEF lens, len
    <2>5. lens(script, p) \in all
      BY <1>4
    <2> HIDE DEF all
    <2> QED BY <2>3, <2>4, <2>5
  <1>7. m \in [n : Position, len : Lengths]
    BY <1>5, <1>6
  <1> HIDE DEF len
  <1>8. Msgs(Append(sent[p], len)) = Append(Msgs(sent[p]), m)
    BY <1>2, <1>3, MsgsAppend
  <1>9. \A r \in Side : Msgs(sent'[r]) = IF r = p THEN Append(Msgs(sent[p]), m) ELSE Msgs(sent[r])
    <2>1. \A r \in Side : sent'[r] = IF r = p THEN Append(sent[p], len) ELSE sent[r]
      BY <1>1, <1>2
    <2> QED BY <1>8, <2>1
  <1> HIDE DEF m
  <1>10. PipeSent' = [PipeSent EXCEPT ![p] = Append(@, m)]
    BY <1>9 DEF PipeSent
  <1> QED BY <1>7, <1>10

\* A step that answers a receive.
LEMMA AnswersToPipe ==
    ASSUME LengthsFit, ChannelAssumption, TypeInv, TypeInv', FlowInv, FlowInv', SentInv,
           NEW p \in Side, ReadHeader(p) \/ ReadDone(p), NEW x,
           inn'[p].answers = Append(inn[p].answers, x)
    PROVE  LET n == Len(PipeGiven[p]) + 1
           IN  /\ n <= asked[p] /\ n <= Len(PipeSent[Other(p)])
               /\ PipeGiven' = [PipeGiven EXCEPT ![p] = Append(@, PipeSent[Other(p)][n])]
  <1> DEFINE q == Other(p)
             k == Len(inn[p].answers) + 1
  <1>1. q \in Side
    BY Peers
  <1>2. /\ inn[p] \in InType /\ NotTwice(inn[p]) /\ wire[p] \in Seq(ItemType)
        /\ sent[q] \in Seq(Nat) /\ asked[p] \in Nat /\ InFlow(inn[p], asked[p])
    BY <1>1, FlowTypes DEF FlowInv
  <1>3. inn[p].phase \in {"header", "body", "read"} /\ UNCHANGED sent
        /\ ((inn[p].phase = "header" /\ wire[p] # <<>>) \/ inn[p].phase = "read")
        /\ (\A r \in Side \ {p} : inn'[r] = inn[r])
    BY DEF ReadHeader, ReadDone, Reading, Arrives, SetIn, TypeInv, InInv
  <1>4. /\ k \in Nat /\ k <= asked[p] /\ k <= Len(sent[q]) /\ Len(sent[q]) \in Nat
    <2>1. Len(inn[p].answers) \in Nat
      BY <1>2 DEF InType
    <2>2. k <= asked[p]
      BY <1>2, <1>3, FrontIn
    <2>3. k <= Len(sent[q])
      BY <1>3, AnswersSent
    <2> QED BY <1>2, <2>1, <2>2, <2>3
  <1>5. inn[p].answers \in Seq(Answers) /\ inn'[p].answers \in Seq(Answers)
    <2>1. inn'[p] \in InType
      BY DEF TypeInv, InInv
    <2> QED BY <1>2, <2>1 DEF InType, Answers
  <1>6. /\ x = inn'[p].answers[k] /\ Len(inn'[p].answers) = k /\ x \in Answers
    <2> DEFINE a == inn[p].answers
               b == inn'[p].answers
    <2>1. a \in Seq(Answers) /\ b \in Seq(Answers) /\ b = Append(a, x)
      BY <1>5
    <2> HIDE DEF a, b
    <2>2. Len(a) \in Nat /\ Len(b) = Len(a) + 1 /\ b[Len(a) + 1] = x
      BY <2>1
    <2>3. x \in Answers
      BY <2>1, <2>2
    <2> QED BY <2>2, <2>3 DEF a, b
  <1>7. x.msg = k /\ x.len = sent[q][k] /\ k \in 1..Len(sent[q])
    <2>1. WireFlow(inn'[p], wire'[p], sent'[q])
      BY DEF FlowInv
    <2>2. k \in 1..Len(inn'[p].answers) /\ k \in 1..Len(sent[q])
      BY <1>4, <1>6
    <2>3. x.msg = k /\ x.len = Cut(sent'[q][k])
      BY <1>6, <2>1, <2>2 DEF WireFlow
    <2>4. Cut(sent[q][k]) = sent[q][k]
      BY <1>1, <2>2, SentWhole
    <2> QED BY <1>3, <2>2, <2>3, <2>4
  <1> HIDE DEF q
  <1>8. /\ PipeSent[q] = Msgs(sent[q]) /\ PipeGiven[p] = Given(inn[p].answers)
    BY <1>1 DEF PipeSent, PipeGiven
  <1>9. /\ Len(PipeSent[q]) = Len(sent[q]) /\ PipeSent[q][k] = [n |-> k, len |-> sent[q][k]]
    BY <1>2, <1>7, <1>8, MsgsType
  <1>10. Len(PipeGiven[p]) + 1 = k
    BY <1>5, <1>8, GivenType
  <1>11. Given(inn'[p].answers) = Append(PipeGiven[p], PipeSent[q][k])
    BY <1>5, <1>6, <1>7, <1>8, <1>9, GivenAppend
  <1> HIDE DEF k
  <1>12. PipeGiven' = [PipeGiven EXCEPT ![p] = Append(@, PipeSent[q][k])]
    <2>1. \A r \in Side : Given(inn'[r].answers)
                            = IF r = p THEN Append(PipeGiven[p], PipeSent[q][k])
                                       ELSE Given(inn[r].answers)
      BY <1>3, <1>11
    <2> QED BY <2>1 DEF PipeGiven
  <1> QED BY <1>4, <1>9, <1>10, <1>12 DEF q

\* The receivers' steps that answer nothing.
LEMMA NoAnswer ==
    ASSUME TypeInv, NEW p \in Side,
           \/ PostRecv(p) \/ PostCloseRecv(p) \/ RunRecvStrand(p)
           \/ ReadBody(p) \/ ReadRequeue(p),
           FlowInv
    PROVE  PipeGiven' = PipeGiven
  <1>1. inn[p] \in InType /\ NotTwice(inn[p]) /\ asked[p] \in Nat /\ InFlow(inn[p], asked[p])
    BY FlowTypes DEF FlowInv
  <1>2. \A r \in Side : r # p => inn'[r] = inn[r]
    BY DEF PostRecv, PostCloseRecv, RunRecvStrand, ReadBody, ReadRequeue, SetIn, TypeInv, InInv
  <1>3. inn'[p].answers = inn[p].answers
    <2>1. CASE RunRecvStrand(p)
      <3> DEFINE r == inn[p]
                 n == RunPosted([r EXCEPT !.strand = Tail(@)], Head(r.strand))
      <3>1. inn'[p] = n /\ r.strand # <<>>
        BY <2>1 DEF RunRecvStrand, SetIn, TypeInv, InInv
      <3> HIDE DEF r
      <3>2. n.answers = r.answers
        BY <1>1, <3>1, InRunFlow DEF r
      <3> QED BY <3>1, <3>2 DEF r
    <2>2. CASE PostRecv(p)
      BY <1>1, <2>2 DEF PostRecv, SetIn, TypeInv, InInv, InType
    <2>3. CASE PostCloseRecv(p)
      BY <1>1, <2>3 DEF PostCloseRecv, SetIn, TypeInv, InInv, InType
    <2>4. CASE ReadBody(p)
      BY <1>1, <2>4 DEF ReadBody, SetIn, TypeInv, InInv, InType
    <2>5. CASE ReadRequeue(p)
      BY <1>1, <2>5 DEF ReadRequeue, SetIn, TypeInv, InInv, InType
    <2> QED BY <2>1, <2>2, <2>3, <2>4, <2>5
  <1> QED BY <1>2, <1>3 DEF PipeGiven

\* The pipe of the refinement is the one the lemmas are about.
LEMMA PipeMapped ==
    /\ Pipe!Side = Side /\ \A p \in Side : Pipe!Other(p) = Other(p)
    /\ PipeSent = [p \in Side |-> [i \in DOMAIN sent[p] |-> [n |-> i, len |-> sent[p][i]]]]
    /\ PipeGiven = [p \in Side |-> [i \in DOMAIN inn[p].answers |->
                        [n |-> inn[p].answers[i].msg, len |-> inn[p].answers[i].len]]]
  BY DEF PipeSent, PipeGiven, Msgs, Given, Pipe!Side, Side, Pipe!Other, Other

\* Every step is a step of the pipe or leaves it as it is.
LEMMA StepIsPipe ==
    ASSUME LengthsFit, ChannelAssumption, TypeInv, TypeInv', FlowInv, FlowInv', SentInv,
           [Next]_vars
    PROVE  \/ PipeSent' = PipeSent /\ asked' = asked /\ PipeGiven' = PipeGiven
           \/ \E p \in Side :
                \/ /\ \E m \in [n : Position, len : Lengths] :
                          PipeSent' = [PipeSent EXCEPT ![p] = Append(@, m)]
                   /\ asked' = asked /\ PipeGiven' = PipeGiven
                \/ /\ asked' = [asked EXCEPT ![p] = @ + 1]
                   /\ PipeSent' = PipeSent /\ PipeGiven' = PipeGiven
                \/ /\ LET n == Len(PipeGiven[p]) + 1
                      IN  /\ n <= asked[p] /\ n <= Len(PipeSent[Other(p)])
                          /\ PipeGiven' = [PipeGiven EXCEPT
                                             ![p] = Append(@, PipeSent[Other(p)][n])]
                   /\ PipeSent' = PipeSent /\ asked' = asked
  <1>1. UNCHANGED sent => PipeSent' = PipeSent
    BY DEF PipeSent
  <1>2. UNCHANGED inn => PipeGiven' = PipeGiven
    BY DEF PipeGiven
  <1>3. ASSUME NEW p \in Side, PostSend(p)
        PROVE  /\ \E m \in [n : Position, len : Lengths] :
                      PipeSent' = [PipeSent EXCEPT ![p] = Append(@, m)]
               /\ asked' = asked /\ PipeGiven' = PipeGiven
    <2>1. UNCHANGED <<inn, asked>>
      BY <1>3 DEF PostSend
    <2> QED BY <2>1, <1>2, <1>3, SendsToPipe
  <1>4. ASSUME NEW p \in Side, PostRecv(p)
        PROVE  /\ asked' = [asked EXCEPT ![p] = @ + 1]
               /\ PipeSent' = PipeSent /\ PipeGiven' = PipeGiven
    <2>1. asked' = [asked EXCEPT ![p] = @ + 1] /\ UNCHANGED sent
      BY <1>4 DEF PostRecv
    <2> QED BY <2>1, <1>1, <1>4, NoAnswer
  <1>5. ASSUME NEW p \in Side, ReadHeader(p) \/ ReadDone(p)
        PROVE  /\ PipeSent' = PipeSent /\ asked' = asked
               /\ \/ PipeGiven' = PipeGiven
                  \/ LET n == Len(PipeGiven[p]) + 1
                     IN  /\ n <= asked[p] /\ n <= Len(PipeSent[Other(p)])
                         /\ PipeGiven' = [PipeGiven EXCEPT
                                            ![p] = Append(@, PipeSent[Other(p)][n])]
    <2>1. UNCHANGED <<sent, asked>>
      BY <1>5 DEF ReadHeader, ReadDone
    <2>2. inn[p] \in InType
      BY FlowTypes
    <2>3. \/ inn'[p].answers = inn[p].answers
          \/ \E x : inn'[p].answers = Append(inn[p].answers, x)
      <3>1. CASE ReadHeader(p)
        <4>1. PICK op, item : inn'[p] \in {Sized(inn[p]), Mismatch(inn[p], op, item)}
          BY <3>1 DEF ReadHeader, SetIn, TypeInv, InInv
        <4> QED BY <4>1, <2>2 DEF Sized, Mismatch, InType
      <3>2. CASE ReadDone(p)
        BY <2>2, <3>2 DEF ReadDone, SetIn, TypeInv, InInv, InType
      <3> QED BY <1>5, <3>1, <3>2
    <2>4. CASE inn'[p].answers = inn[p].answers
      <3>1. \A r \in Side : inn'[r].answers = inn[r].answers
        BY <1>5, <2>4 DEF ReadHeader, ReadDone, SetIn, TypeInv, InInv
      <3> QED BY <1>1, <2>1, <3>1 DEF PipeGiven
    <2>5. CASE \E x : inn'[p].answers = Append(inn[p].answers, x)
      <3>1. PICK x : inn'[p].answers = Append(inn[p].answers, x)
        BY <2>5
      <3> QED BY <1>1, <1>5, <2>1, <3>1, AnswersToPipe
    <2> QED BY <2>3, <2>4, <2>5
  <1>6. ASSUME NEW p \in Side,
               PostCloseRecv(p) \/ RunRecvStrand(p) \/ ReadBody(p) \/ ReadRequeue(p)
        PROVE  PipeSent' = PipeSent /\ asked' = asked /\ PipeGiven' = PipeGiven
    <2>1. UNCHANGED <<sent, asked>>
      BY <1>6 DEF PostCloseRecv, RunRecvStrand, ReadBody, ReadRequeue
    <2> QED BY <1>1, <1>6, <2>1, NoAnswer
  <1>7. ASSUME NEW p \in Side,
               \/ Begin(p) \/ Refuse(p) \/ Return(p) \/ Stop(p) \/ PostCloseSend(p)
               \/ CloseSocket(p) \/ RunSendStrand(p) \/ WriteStep(p) \/ ReadFails(p) \/ Fail(p)
        PROVE  PipeSent' = PipeSent /\ asked' = asked /\ PipeGiven' = PipeGiven
    <2>1. UNCHANGED <<sent, asked, inn>>
      BY <1>7 DEF Begin, Refuse, Return, Stop, PostCloseSend, CloseSocket, RunSendStrand,
                  WriteStep, WritePart, WriteDone, WriteRequeue, WriteFails, ReadFails, Fail, Abort
    <2> QED BY <1>1, <1>2, <2>1
  <1>8. CASE UNCHANGED vars
    BY <1>1, <1>2, <1>8 DEF vars
  <1> QED BY <1>3, <1>4, <1>5, <1>6, <1>7, <1>8 DEF Next, UserStep, CloserStep, ReadStep

\* What the queues, strands and handlers of the two sides do, each step of theirs is to
\* their callers a message sent, a receive asked for, the delivery of the next message to
\* the next receive, or nothing: a channel is the named pipe that Channel.h promises, also
\* when a side closes early or fails.
THEOREM ImplementsPipe == LengthsFit => (SafetySpec => PipeSafety)
  <1> SUFFICES ASSUME LengthsFit
               PROVE  SafetySpec => PipeSafety
    OBVIOUS
  <1>1. Init => Pipe!Init
    <2> SUFFICES ASSUME Init
                 PROVE  Pipe!Init
      OBVIOUS
    <2>1. \A p \in Side : sent[p] = <<>> /\ inn[p].answers = <<>>
      BY DEF Init, NewIn
    <2>2. Msgs(<<>>) = <<>> /\ Given(<<>>) = <<>>
      BY DEF Msgs, Given
    <2>3. PipeSent = [p \in Side |-> <<>>] /\ PipeGiven = [p \in Side |-> <<>>]
      BY <2>1, <2>2 DEF PipeSent, PipeGiven
    <2>4. asked = [p \in Side |-> 0]
      BY DEF Init
    <2> QED BY <2>3, <2>4, PipeMapped DEF Pipe!Init
  <1>2. TypeInv /\ FlowInv /\ SentInv /\ (TypeInv /\ FlowInv)' /\ [Next]_vars
            => [Pipe!Next]_(Pipe!vars)
    <2> SUFFICES ASSUME TypeInv, FlowInv, SentInv, (TypeInv /\ FlowInv)', [Next]_vars
                 PROVE  [Pipe!Next]_(Pipe!vars)
      OBVIOUS
    <2> QED BY StepIsPipe, ChannelAssumption
            DEF PipeSent, PipeGiven, Msgs, Given, Pipe!Next, Pipe!Send, Pipe!Ask, Pipe!Deliver,
                Pipe!vars, Pipe!Side, Pipe!Other, Side, Other
  <1> QED BY <1>1, <1>2, SentHolds, PTL DEF SafetySpec, PipeSafety

-----------------------------------------------------------------------------
(***************************************************************************)
(* Nothing is cut off.  If each side asks for as many messages as the      *)
(* other sends, the calls that were made, counted, say that a side which   *)
(* has closed has been sent, and has sent, all that the other needs.       *)
(***************************************************************************)

\* The calls of a side that are queued: dispatch refuses a size of zero.
SendCalls(s) == {k \in DOMAIN s : IsSend(s[k]) /\ Cut(s[k].len) # 0}
RecvCalls(s) == {k \in DOMAIN s : ~IsSend(s[k]) /\ Cut(s[k].len) # 0}

\* Each side receives as often as the other sends.
Balanced ==
    \A s \in Scripts, p \in Side :
        Cardinality(SendCalls(s[p])) = Cardinality(RecvCalls(s[Other(p)]))

\* How many calls of the script were posted or refused.
CallsMade(u) == IF u.pc = "wait" THEN u.at ELSE u.at - 1

CountInv ==
    /\ script \in Scripts
    /\ \A p \in Side :
        /\ Len(sent[p]) = Cardinality(SendCalls(script[p]) \cap 1..CallsMade(user[p]))
        /\ asked[p] = Cardinality(RecvCalls(script[p]) \cap 1..CallsMade(user[p]))

\* One more call is one more of a set of calls or not.
LEMMA CountOne ==
    ASSUME NEW S \in SUBSET Nat, NEW n \in Nat
    PROVE  /\ Cardinality(S \cap 1..n) \in Nat
           /\ Cardinality(S \cap 1..n+1)
                = Cardinality(S \cap 1..n) + IF n + 1 \in S THEN 1 ELSE 0
  <1>1. IsFiniteSet(S \cap 1..n)
    <2>1. IsFiniteSet(1..n)
      BY FS_Interval
    <2> QED BY <2>1, FS_Subset
  <1>2. n + 1 \notin S \cap 1..n
    OBVIOUS
  <1>3. Cardinality(S \cap 1..n) \in Nat
    BY <1>1, FS_CardinalityType
  <1>4. CASE n + 1 \in S
    <2>1. S \cap 1..n+1 = (S \cap 1..n) \cup {n + 1}
      BY <1>4
    <2> QED BY <2>1, <1>1, <1>2, <1>3, <1>4, FS_AddElement
  <1>5. CASE n + 1 \notin S
    <2>1. S \cap 1..n+1 = S \cap 1..n
      BY <1>5
    <2> QED BY <2>1, <1>3, <1>5
  <1> QED BY <1>3, <1>4, <1>5

\* Of a program that is through, all calls were made.
LEMMA AllCounted ==
    ASSUME TypeInv, OrderInv, CountInv, NEW p \in Side
    PROVE  /\ Len(sent[p]) <= Cardinality(SendCalls(script[p]))
           /\ asked[p] <= Cardinality(RecvCalls(script[p]))
           /\ UserDone(p) => /\ Len(sent[p]) = Cardinality(SendCalls(script[p]))
                             /\ asked[p] = Cardinality(RecvCalls(script[p]))
  <1> DEFINE S == SendCalls(script[p])
             R == RecvCalls(script[p])
             m == CallsMade(user[p])
             L == Len(script[p])
  <1>1. L \in Nat /\ DOMAIN script[p] = 1..L /\ user[p].at \in Nat /\ m \in Int
    BY DEF TypeInv, RestInv, CallsMade
  <1>2. S \subseteq 1..L /\ R \subseteq 1..L
    BY <1>1 DEF SendCalls, RecvCalls
  <1>3. IsFiniteSet(S) /\ IsFiniteSet(R)
    <2> HIDE DEF S, R, L
    <2>1. IsFiniteSet(1..L)
      BY <1>1, FS_Interval
    <2> QED BY <2>1, <1>2, FS_Subset
  <1>4. Len(sent[p]) = Cardinality(S \cap 1..m) /\ asked[p] = Cardinality(R \cap 1..m)
    BY DEF CountInv
  <1> HIDE DEF S, R, L
  <1>5. Cardinality(S \cap 1..m) <= Cardinality(S) /\ Cardinality(R \cap 1..m) <= Cardinality(R)
    <2>1. S \cap 1..m \subseteq S /\ R \cap 1..m \subseteq R
      OBVIOUS
    <2> QED BY <2>1, <1>3, FS_Subset
  <1>6. ASSUME UserDone(p)
        PROVE  S \cap 1..m = S /\ R \cap 1..m = R
    <2>1. m >= L
      BY <1>1, <1>6 DEF UserDone, L, CallsMade
    <2> HIDE DEF m
    <2>2. 1..L \subseteq 1..m
      BY <1>1, <2>1
    <2> QED BY <1>2, <2>2
  <1> QED BY <1>4, <1>5, <1>6 DEF S, R

\* CountInv holds of a new channel.
LEMMA InitCount == ASSUME ChannelAssumption, Init PROVE CountInv
  <1>1. \A S : S \cap 1..0 = {}
    OBVIOUS
  <1>2. \A p \in Side : CallsMade(user[p]) = 0 /\ sent[p] = <<>> /\ asked[p] = 0
    BY DEF Init, CallsMade
  <1> QED BY <1>1, <1>2, FS_EmptySet DEF Init, CountInv

\* What a call adds to the counts.
LEMMA CallCounts ==
    ASSUME ChannelAssumption, TypeInv, OrderInv, CountInv, NEW p \in Side, UserStep(p)
    PROVE  /\ Len(sent'[p]) = Cardinality(SendCalls(script[p]) \cap 1..CallsMade(user'[p]))
           /\ asked'[p] = Cardinality(RecvCalls(script[p]) \cap 1..CallsMade(user'[p]))
  <1> DEFINE S == SendCalls(script[p])
             R == RecvCalls(script[p])
             m == CallsMade(user[p])
             k == user[p].at
  <1>1. /\ user[p] \in [pc : {"call", "post", "wait"}, at : Nat \ {0}] /\ sent[p] \in Seq(Nat)
        /\ k \in Nat \ {0} /\ m \in Nat /\ asked[p] \in Nat
        /\ script[p] \in Seq(Call) /\ DOMAIN script[p] = 1..Len(script[p])
    BY DEF TypeInv, RestInv, CallsMade
  <1>2. Len(sent[p]) = Cardinality(S \cap 1..m) /\ asked[p] = Cardinality(R \cap 1..m)
    BY DEF CountInv
  <1>3. NextCall(user[p]).at = k + 1 /\ NextCall(user[p]).pc = "call"
    BY DEF NextCall
  <1>4. S \in SUBSET Nat /\ R \in SUBSET Nat
    BY <1>1 DEF SendCalls, RecvCalls
  <1>5. k \in DOMAIN script[p]
    BY <1>1 DEF UserStep, Begin, PostSend, PostRecv, Refuse, Return, UserAt
  <1>6. CASE Begin(p) \/ Return(p)
    <2>1. CallsMade(user'[p]) = m
      <3>1. CASE Begin(p)
        <4>1. user[p].pc = "call" /\ closer[p] = "open"
          BY <3>1, <1>1 DEF Begin, UserAt, OrderInv, CloserInv, UserDone, TypeInv, RestInv
        <4>2. user'[p] = [user[p] EXCEPT !.pc = "post"]
          BY <3>1, <4>1 DEF Begin, Stopped, TypeInv, RestInv
        <4> QED BY <1>1, <4>1, <4>2 DEF CallsMade
      <3>2. CASE Return(p)
        <4>1. user[p].pc = "wait" /\ user'[p] = NextCall(user[p])
          BY <3>2 DEF Return, UserAt, TypeInv, RestInv
        <4>2. user'[p].pc = "call" /\ user'[p].at = k + 1
          BY <1>3, <4>1
        <4> HIDE DEF k
        <4>3. CallsMade(user'[p]) = (k + 1) - 1
          BY <4>2 DEF CallsMade
        <4>4. m = k
          BY <4>1 DEF CallsMade, k
        <4> QED BY <1>1, <4>3, <4>4
      <3> QED BY <1>6, <3>1, <3>2
    <2>2. sent' = sent /\ asked' = asked
      BY <1>6 DEF Begin, Return
    <2> QED BY <2>1, <2>2, <1>2
  <1>7. CASE PostSend(p) \/ PostRecv(p) \/ Refuse(p)
    <2>1. user[p].pc = "post" /\ m + 1 = k
      BY <1>1, <1>7 DEF PostSend, PostRecv, Refuse, UserAt, CallsMade
    <2>2. CallsMade(user'[p]) = m + 1
      <3>1. \/ user'[p] = NextCall(user[p])
            \/ user'[p] = [user[p] EXCEPT !.pc = "wait"]
        BY <1>7 DEF PostSend, PostRecv, Refuse, AfterPost, TypeInv, RestInv
      <3>2. CASE user'[p] = NextCall(user[p])
        <4>1. user'[p].pc = "call" /\ user'[p].at = k + 1
          BY <1>3, <3>2
        <4> HIDE DEF k, m
        <4>2. CallsMade(user'[p]) = (k + 1) - 1
          BY <4>1 DEF CallsMade
        <4> QED BY <1>1, <2>1, <4>2
      <3>3. CASE user'[p] = [user[p] EXCEPT !.pc = "wait"]
        <4>1. user'[p].pc = "wait" /\ user'[p].at = k
          BY <1>1, <3>3
        <4> QED BY <1>1, <2>1, <4>1 DEF CallsMade
      <3> QED BY <3>1, <3>2, <3>3
    <2>3. /\ Cardinality(S \cap 1..m+1) = Len(sent[p]) + IF k \in S THEN 1 ELSE 0
          /\ Cardinality(R \cap 1..m+1) = asked[p] + IF k \in R THEN 1 ELSE 0
      <3> HIDE DEF S, R, m, k
      <3>1. Cardinality(S \cap 1..m+1) = Cardinality(S \cap 1..m) + IF m + 1 \in S THEN 1 ELSE 0
        BY <1>1, <1>4, CountOne
      <3>2. Cardinality(R \cap 1..m+1) = Cardinality(R \cap 1..m) + IF m + 1 \in R THEN 1 ELSE 0
        BY <1>1, <1>4, CountOne
      <3> QED BY <1>2, <2>1, <3>1, <3>2
    <2>4. /\ k \in S <=> IsSend(NowCall(p)) /\ Cut(NowCall(p).len) # 0
          /\ k \in R <=> ~IsSend(NowCall(p)) /\ Cut(NowCall(p).len) # 0
      BY <1>5 DEF SendCalls, RecvCalls, NowCall
    <2>5. CASE PostSend(p)
      <3>1. /\ sent'[p] = Append(sent[p], NowCall(p).len) /\ asked' = asked
            /\ IsSend(NowCall(p)) /\ Cut(NowCall(p).len) # 0
        BY <2>5 DEF PostSend, TypeInv, RestInv
      <3>2. NowCall(p).len \in Nat
        BY <3>1, <2>5, CallFacts DEF PostSend, UserAt, TypeInv
      <3>3. Len(sent'[p]) = Len(sent[p]) + 1
        BY <1>1, <3>1, <3>2, AppendFacts
      <3> QED BY <1>1, <2>2, <2>3, <2>4, <3>1, <3>3
    <2>6. CASE PostRecv(p)
      <3>1. /\ sent' = sent /\ asked'[p] = asked[p] + 1
            /\ ~IsSend(NowCall(p)) /\ Cut(NowCall(p).len) # 0
        BY <2>6 DEF PostRecv, TypeInv, RestInv
      <3> QED BY <1>1, <2>2, <2>3, <2>4, <3>1
    <2>7. CASE Refuse(p)
      <3>1. sent' = sent /\ asked' = asked /\ Cut(NowCall(p).len) = 0
        BY <2>7 DEF Refuse
      <3> QED BY <1>1, <2>2, <2>3, <2>4, <3>1
    <2> QED BY <1>7, <2>5, <2>6, <2>7
  <1> QED BY <1>6, <1>7 DEF UserStep

\* Every step keeps CountInv.
LEMMA StepCount ==
    ASSUME ChannelAssumption, TypeInv, OrderInv, CountInv, [Next]_vars
    PROVE  CountInv'
  <1>1. CASE UNCHANGED <<script, user, sent, asked>>
    BY <1>1 DEF CountInv
  <1>2. ASSUME NEW p \in Side, UserStep(p)
        PROVE  CountInv'
    <2>1. /\ script' = script
          /\ \A r \in Side \ {p} :
                user'[r] = user[r] /\ sent'[r] = sent[r] /\ asked'[r] = asked[r]
      BY <1>2 DEF UserStep, Begin, PostSend, PostRecv, Refuse, Return, AfterPost, TypeInv, RestInv
    <2>2. /\ Len(sent'[p]) = Cardinality(SendCalls(script[p]) \cap 1..CallsMade(user'[p]))
          /\ asked'[p] = Cardinality(RecvCalls(script[p]) \cap 1..CallsMade(user'[p]))
      BY <1>2, CallCounts
    <2> QED BY <2>1, <2>2 DEF CountInv
  <1>3. ASSUME NEW p \in Side,
               CloserStep(p) \/ RunSendStrand(p) \/ RunRecvStrand(p) \/ WriteStep(p)
                 \/ ReadStep(p) \/ Fail(p)
        PROVE  UNCHANGED <<script, user, sent, asked>>
    BY <1>3 DEF CloserStep, Stop, PostCloseRecv, PostCloseSend, CloseSocket, RunSendStrand,
                RunRecvStrand, WriteStep, WritePart, WriteDone, WriteRequeue, WriteFails,
                ReadStep, ReadHeader, ReadBody, ReadDone, ReadRequeue, ReadFails, Fail, Abort
  <1> QED BY <1>1, <1>2, <1>3 DEF Next, vars

\* Nothing flows through an empty strand and an empty queue.
LEMMA NoFlow ==
    ASSUME NEW from \in Int, NEW total \in Nat, Flows(<<>>, <<>>, from, total)
    PROVE  from = total
  <1>1. PICK mid \in 0..total : Run(<<>>, from, mid) /\ Run(<<>>, mid, total)
    BY DEF Flows
  <1>2. \A a, b : Run(<<>>, a, b) => a \in Nat /\ b \in Nat /\ a <= b /\ a+1..b = {}
    BY DEF Run
  <1>3. \A a, b \in Nat : a <= b /\ a+1..b = {} => a = b
    OBVIOUS
  <1> QED BY <1>1, <1>2, <1>3

\* A side that has closed has read and written all it was asked to.
LEMMA ClosedFlow ==
    ASSUME TypeInv, OrderInv, FlowInv, NEW p \in Side, closer[p] = "closed"
    PROVE  /\ PutBy(p) = 2 * Len(sent[p])
           /\ ItemsRead(inn[p].answers, inn[p].phase) = 2 * asked[p]
           /\ UserDone(p)
  <1> DEFINE o == out[p]
             r == inn[p]
  <1>1. out[p].closed /\ inn[p].closed /\ UserDone(p)
    BY DEF OrderInv, CloserInv
  <1>2. /\ o.strand = <<>> /\ o.queue = <<>> /\ o.phase = "idle"
        /\ r.strand = <<>> /\ r.queue = <<>> /\ r.phase = "idle"
    BY <1>1, SideFacts DEF Orderly
  <1>3. NoPop(<<>>)
    BY DEF NoPop
  <1>4. OutFlow(o, PutBy(p), sent[p]) /\ InFlow(r, asked[p])
    BY DEF FlowInv
  <1>5. /\ Len(sent[p]) \in Nat /\ asked[p] \in Nat /\ Len(r.answers) \in Nat
        /\ r \in InType
    BY FlowTypes DEF InType
  <1>6. PutBy(p) = 2 * Len(sent[p])
    <2>1. PICK from \in 0..Len(sent[p]) : /\ PutBy(p) = 2 * from + PutOf(o.strand, o.phase)
                                          /\ Flows(o.strand, o.queue, from, Len(sent[p]))
      BY <1>4 DEF OutFlow
    <2>2. from = Len(sent[p])
      BY <2>1, <1>2, <1>5, NoFlow
    <2>3. PutOf(o.strand, o.phase) = 0
      BY <1>2, <1>3 DEF PutOf
    <2> QED BY <2>1, <2>2, <2>3, <1>5
  <1>7. ItemsRead(r.answers, r.phase) = 2 * asked[p]
    <2>1. Unpopped(r.strand, r.phase) = 0
      BY <1>2, <1>3 DEF Unpopped
    <2>2. Flows(<<>>, <<>>, Len(r.answers) - 0, asked[p])
      BY <1>2, <1>4, <2>1 DEF InFlow
    <2>3. Len(r.answers) = asked[p]
      BY <2>2, <1>5, NoFlow
    <2>4. ItemsRead(r.answers, r.phase) = 2 * Len(r.answers)
      BY <1>2, <1>5 DEF ItemsRead
    <2> QED BY <2>3, <2>4
  <1> QED BY <1>1, <1>6, <1>7

\* Neither a write nor a read is under way when the other side has closed.
LEMMA PeerStays ==
    ASSUME Balanced, TypeInv, OrderInv, FlowInv, CountInv, NEW p \in Side, closer[Other(p)] = "closed"
    PROVE  /\ out[p].phase \notin {"header", "body"}
           /\ ~(inn[p].phase \in {"header", "body"} /\ wire[p] = <<>>)
  <1> DEFINE q == Other(p)
  <1>1. q \in Side /\ Other(q) = p
    BY Peers
  <1>2. /\ PutBy(q) = 2 * Len(sent[q])
        /\ ItemsRead(inn[q].answers, inn[q].phase) = 2 * asked[q]
        /\ UserDone(q)
    BY <1>1, ClosedFlow
  <1>3. /\ Len(sent[p]) \in Nat /\ asked[p] \in Nat /\ Len(sent[q]) \in Nat /\ asked[q] \in Nat
        /\ Len(wire[q]) \in Nat /\ sent[p] \in Seq(Nat)
        /\ out[p] \in OutType /\ inn[p] \in InType /\ NotTwice(out[p]) /\ NotTwice(inn[p])
    BY <1>1, FlowTypes
  <1>4. Len(sent[p]) <= asked[q] /\ asked[p] <= Len(sent[q])
    <2>1. /\ Len(sent[p]) <= Cardinality(SendCalls(script[p]))
          /\ asked[p] <= Cardinality(RecvCalls(script[p]))
          /\ Len(sent[q]) = Cardinality(SendCalls(script[q]))
          /\ asked[q] = Cardinality(RecvCalls(script[q]))
      BY <1>1, <1>2, AllCounted
    <2>2. /\ Cardinality(SendCalls(script[p])) = Cardinality(RecvCalls(script[q]))
          /\ Cardinality(SendCalls(script[q])) = Cardinality(RecvCalls(script[p]))
      BY <1>1 DEF Balanced, CountInv
    <2> QED BY <2>1, <2>2
  <1>5. ASSUME out[p].phase \in {"header", "body"}
        PROVE  FALSE
    <2> DEFINE o == out[p]
    <2>1. PutBy(p) = 2 * asked[q] + Len(wire[q])
      BY <1>2 DEF PutBy
    <2>2. OutFlow(o, PutBy(p), sent[p]) /\ Busy(o.strand, o.phase)
      BY <1>5 DEF FlowInv, Busy
    <2>3. PICK from \in 0..Len(sent[p]) :
            PutBy(p) = 2 * from + PutOf(o.strand, o.phase) /\ from + 1 \in 1..Len(sent[p])
      BY <1>3, <2>2, FrontOut
    <2>4. PutOf(o.strand, o.phase) \in {0, 1}
      BY <1>5 DEF PutOf
    <2>5. \A l, a, w \in Nat : \A f \in 0..l : \A x \in {0, 1} :
            l <= a /\ f + 1 \in 1..l => 2 * a + w # 2 * f + x
      OBVIOUS
    <2> HIDE DEF o, q
    <2> QED BY <1>3, <1>4, <2>1, <2>3, <2>4, <2>5
  <1>6. ASSUME inn[p].phase \in {"header", "body"}, wire[p] = <<>>
        PROVE  FALSE
    <2> DEFINE r == inn[p]
               m == ItemsRead(r.answers, r.phase)
    <2>1. PutBy(q) = m + 0
      BY <1>1, <1>6 DEF PutBy
    <2>2. InFlow(r, asked[p])
      BY DEF FlowInv
    <2>3. Len(r.answers) + 1 <= asked[p]
      BY <1>3, <1>6, <2>2, FrontIn
    <2>4. Len(r.answers) \in Nat /\ m \in {2 * Len(r.answers), 2 * Len(r.answers) + 1}
      BY <1>3, <1>6, ItemsReadFacts DEF InType
    <2> HIDE DEF m, r
    <2> QED BY <1>2, <1>3, <1>4, <2>1, <2>3, <2>4
  <1> QED BY <1>5, <1>6

\* close does not tell the other side.  That is harmless if each side receives
\* as often as the other sends, closes when its user is done, and no program
\* fails by itself: no handler of either side then finds its socket cut off.
THEOREM NoneCutOff ==
    Balanced /\ ~CloseEarly /\ MayFail = {} => (SafetySpec => []NeverAborts)
  <1> SUFFICES ASSUME Balanced, ~CloseEarly, MayFail = {}
               PROVE  SafetySpec => []NeverAborts
    OBVIOUS
  <1>1. Init => CountInv /\ NeverAborts
    BY InitCount, ChannelAssumption DEF Init, NeverAborts
  <1>2. TypeInv /\ OrderInv /\ CountInv /\ [Next]_vars => CountInv'
    BY StepCount, ChannelAssumption
  <1>3. TypeInv /\ OrderInv /\ FlowInv /\ CountInv /\ NeverAborts /\ [Next]_vars => NeverAborts'
    <2> SUFFICES ASSUME TypeInv, OrderInv, FlowInv, CountInv, NeverAborts, [Next]_vars
                 PROVE  NeverAborts'
      OBVIOUS
    <2>1. CASE UNCHANGED aborted
      BY <2>1 DEF NeverAborts
    <2>2. ASSUME NEW p \in Side, WriteFails(p) \/ ReadFails(p)
          PROVE  FALSE
      <3>1. Gone(Other(p)) /\ Other(p) \in Side
        BY <2>2, Peers DEF WriteFails, ReadFails
      <3>2. closer[Other(p)] = "closed"
        BY <3>1 DEF Gone, NeverAborts
      <3>3. /\ out[p].phase \notin {"header", "body"}
            /\ ~(inn[p].phase \in {"header", "body"} /\ wire[p] = <<>>)
        BY <3>2, PeerStays
      <3> QED BY <2>2, <3>3 DEF WriteFails, ReadFails, Writing, InMessage, Reading
    <2>3. ASSUME NEW p \in Side, Fail(p)
          PROVE  FALSE
      BY <2>3 DEF Fail
    <2>4. ASSUME NEW p \in Side,
                 \/ UserStep(p) \/ CloserStep(p) \/ RunSendStrand(p) \/ RunRecvStrand(p)
                 \/ WritePart(p) \/ WriteDone(p) \/ WriteRequeue(p)
                 \/ ReadHeader(p) \/ ReadBody(p) \/ ReadDone(p) \/ ReadRequeue(p)
          PROVE  UNCHANGED aborted
      BY <2>4 DEF UserStep, Begin, PostSend, PostRecv, Refuse, Return, CloserStep, Stop,
                  PostCloseRecv, PostCloseSend, CloseSocket, RunSendStrand, RunRecvStrand,
                  WritePart, WriteDone, WriteRequeue, ReadHeader, ReadBody, ReadDone, ReadRequeue
    <2> QED BY <2>1, <2>2, <2>3, <2>4 DEF Next, vars, WriteStep, ReadStep
  <1> QED BY <1>1, <1>2, <1>3, OrderHolds, FlowHolds, PTL DEF SafetySpec

-----------------------------------------------------------------------------
(***************************************************************************)
(* The bytes in a queue.  Bytes adds them up with a recursive function;    *)
(* that there is one, and what it is of a longer and of a shorter queue,   *)
(* is proved by the induction of RandSubset.                               *)
(***************************************************************************)

\* g adds up the first m lengths of the operations of s.
Adds(s, g, m) == g = [k \in 0..m |-> IF k = 0 THEN 0 ELSE g[k-1] + s[k].len]

\* The partial sums of the lengths, one from the other.
LEMMA AddsFacts ==
    ASSUME NEW s, NEW m \in Nat, NEW g, Adds(s, g, m)
    PROVE  /\ g[0] = 0
           /\ \A k \in 1..m : g[k] = g[k-1] + s[k].len
  <1> DEFINE f(h) == [k \in 0..m |-> IF k = 0 THEN 0 ELSE h[k-1] + s[k].len]
  <1>1. /\ f(g)[0] = 0
        /\ \A k \in 1..m : f(g)[k] = g[k-1] + s[k].len
    OBVIOUS
  <1>2. g = f(g)
    BY DEF Adds
  <1> HIDE DEF f
  <1> QED BY <1>1, <1>2

\* There are partial sums as far as one likes: by induction.
LEMMA SumThere ==
    ASSUME NEW s, NEW n \in Nat
    PROVE  \E g : Adds(s, g, n)
  <1> DEFINE E == {m \in Nat : \E g : Adds(s, g, m)}
  <1>1. 0 \in E
    <2> DEFINE g == [k \in 0..0 |-> 0]
    <2>1. Adds(s, g, 0)
      BY DEF Adds
    <2> HIDE DEF g
    <2> QED BY <2>1
  <1>2. ASSUME NEW m \in E
        PROVE  m + 1 \in E
    <2>1. PICK g : Adds(s, g, m)
      OBVIOUS
    <2> DEFINE h == [k \in 0..m+1 |-> IF k = 0 THEN 0 ELSE g[k-1] + s[k].len]
    <2>2. \A k \in 0..m : h[k] = g[k]
      BY <2>1 DEF Adds
    <2>3. Adds(s, h, m + 1)
      <3>1. \A k \in 0..m+1 : k # 0 => k - 1 \in 0..m
        OBVIOUS
      <3>2. \A k \in 0..m+1 : k # 0 => h[k-1] = g[k-1]
        <4> HIDE DEF h
        <4> QED BY <2>2, <3>1
      <3>3. h = [k \in 0..m+1 |-> IF k = 0 THEN 0 ELSE h[k-1] + s[k].len]
        BY <3>2
      <3> HIDE DEF h
      <3> QED BY <3>3 DEF Adds
    <2> HIDE DEF h
    <2> QED BY <2>3
  <1>3. E = Nat
    <2> HIDE DEF E
    <2>1. E \in SUBSET Nat
      BY DEF E
    <2> QED BY <1>1, <1>2, <2>1, Nats!NatSetInduction
  <1> QED BY <1>3

\* So the function Bytes chooses is one of partial sums.
LEMMA BytesAdds ==
    ASSUME NEW s, Len(s) \in Nat
    PROVE  \E g : Adds(s, g, Len(s)) /\ g[Len(s)] = Bytes(s)
  <1> DEFINE sum == CHOOSE g : Adds(s, g, Len(s))
  <1>1. Adds(s, sum, Len(s))
    BY SumThere
  <1>2. Bytes(s) = sum[Len(s)]
    BY DEF Bytes, Adds
  <1> HIDE DEF sum
  <1> QED BY <1>1, <1>2

\* The bytes of a queue are a natural number: by induction.
LEMMA BytesType ==
    ASSUME NEW s \in Seq(SendOp)
    PROVE  Bytes(s) \in Nat /\ (s = <<>> => Bytes(s) = 0)
  <1>1. Len(s) \in Nat /\ (s = <<>> => Len(s) = 0) /\ \A k \in 1..Len(s) : s[k].len \in Nat
    <2>1. Len(s) \in Nat /\ (s = <<>> => Len(s) = 0) /\ \A k \in 1..Len(s) : s[k] \in SendOp
      OBVIOUS
    <2>2. \A e \in SendOp : e.len \in Nat
      BY DEF SendOp, OpType
    <2> QED BY <2>1, <2>2
  <1>2. PICK g : Adds(s, g, Len(s)) /\ g[Len(s)] = Bytes(s)
    BY <1>1, BytesAdds
  <1>3. g[0] = 0 /\ \A k \in 1..Len(s) : g[k] = g[k-1] + s[k].len
    BY <1>1, <1>2, AddsFacts
  <1> DEFINE P == {k \in Nat : k <= Len(s) => g[k] \in Nat}
  <1>4. P = Nat
    <2>1. 0 \in P
      BY <1>3
    <2>2. ASSUME NEW k \in P
          PROVE  k + 1 \in P
      <3>1. k \in Nat /\ (k + 1 <= Len(s) => k + 1 \in 1..Len(s) /\ g[k] \in Nat)
        BY <1>1
      <3>2. k + 1 <= Len(s) => g[k + 1] = g[k] + s[k + 1].len
        BY <1>3, <3>1
      <3> QED BY <1>1, <3>1, <3>2
    <2>3. P \in SUBSET Nat
      OBVIOUS
    <2> HIDE DEF P
    <2> QED BY <2>1, <2>2, <2>3, Nats!NatSetInduction
  <1>5. Len(s) \in P
    <2> HIDE DEF P
    <2> QED BY <1>1, <1>4
  <1> QED BY <1>1, <1>2, <1>3, <1>5

\* One operation more adds its bytes: the partial sums before it stay.
LEMMA BytesAppend ==
    ASSUME NEW s \in Seq(SendOp), NEW e \in SendOp
    PROVE  Bytes(Append(s, e)) = Bytes(s) + e.len
  <1> DEFINE t == Append(s, e)
             n == Len(s)
  <1>1. /\ n \in Nat /\ Len(t) = n + 1 /\ t[n + 1] = e
        /\ \A k \in 1..n : t[k] = s[k]
    BY AppendFacts
  <1>2. PICK g : Adds(s, g, n) /\ g[n] = Bytes(s)
    BY <1>1, BytesAdds
  <1> HIDE DEF t, n
  <1>3. PICK h : Adds(t, h, n + 1) /\ h[n + 1] = Bytes(t)
    <2>1. Len(t) \in Nat
      BY <1>1
    <2> QED BY <1>1, <2>1, BytesAdds
  <1>4. /\ g[0] = 0 /\ \A k \in 1..n : g[k] = g[k-1] + s[k].len
        /\ h[0] = 0 /\ \A k \in 1..n+1 : h[k] = h[k-1] + t[k].len
    BY <1>1, <1>2, <1>3, AddsFacts
  <1> DEFINE P == {k \in Nat : k <= n => h[k] = g[k]}
  <1>5. P = Nat
    <2>1. 0 \in P
      BY <1>4
    <2>2. ASSUME NEW k \in P
          PROVE  k + 1 \in P
      <3>1. k \in Nat /\ (k + 1 <= n => k + 1 \in 1..n /\ k + 1 \in 1..n+1 /\ h[k] = g[k])
        BY <1>1
      <3>2. k + 1 <= n => /\ g[k + 1] = g[k] + s[k + 1].len
                          /\ h[k + 1] = h[k] + t[k + 1].len
        <4>1. (k + 1) - 1 = k
          BY <3>1
        <4> QED BY <1>4, <3>1, <4>1
      <3> QED BY <1>1, <3>1, <3>2
    <2>3. P \in SUBSET Nat
      OBVIOUS
    <2> HIDE DEF P
    <2> QED BY <2>1, <2>2, <2>3, Nats!NatSetInduction
  <1>6. h[n] = g[n]
    <2>1. n \in P
      <3> HIDE DEF P
      <3> QED BY <1>1, <1>5
    <2> QED BY <1>1, <2>1
  <1>7. h[n + 1] = h[n] + e.len
    <2>1. n + 1 \in 1..n+1 /\ (n + 1) - 1 = n
      BY <1>1
    <2> QED BY <1>1, <1>4, <2>1
  <1> QED BY <1>2, <1>3, <1>6, <1>7 DEF t

\* Without its front a queue has so many bytes less.
LEMMA BytesTail ==
    ASSUME NEW s \in Seq(SendOp), s # <<>>
    PROVE  Bytes(Tail(s)) = Bytes(s) - Head(s).len
  <1> DEFINE t == Tail(s)
             n == Len(t)
             x == Head(s).len
  <1>1. /\ n \in Nat /\ Len(s) = n + 1 /\ s[1].len = x /\ x \in Nat
        /\ \A k \in 1..n : t[k] = s[k + 1]
        /\ \A k \in 1..n : t[k].len \in Nat
    <2>1. /\ Head(s) \in SendOp /\ Head(s) = s[1] /\ t \in Seq(SendOp)
          /\ Len(s) \in Nat /\ Len(t) = Len(s) - 1
          /\ \A k \in 1..Len(s)-1 : t[k] = s[k + 1]
      BY TailFacts
    <2>2. n \in Nat /\ \A k \in 1..n : t[k] \in SendOp
      BY <2>1
    <2> QED BY <2>1, <2>2 DEF SendOp, OpType
  <1>2. PICK h : Adds(t, h, n) /\ h[n] = Bytes(t)
    BY <1>1, BytesAdds
  <1> HIDE DEF t, n, x
  <1>3. PICK g : Adds(s, g, n + 1) /\ g[n + 1] = Bytes(s)
    <2>1. Len(s) \in Nat
      BY <1>1
    <2> QED BY <1>1, <2>1, BytesAdds
  <1>4. /\ g[0] = 0 /\ \A k \in 1..n+1 : g[k] = g[k-1] + s[k].len
        /\ h[0] = 0 /\ \A k \in 1..n : h[k] = h[k-1] + t[k].len
    <2>1. n + 1 \in Nat
      BY <1>1
    <2>2. g[0] = 0 /\ \A k \in 1..n+1 : g[k] = g[k-1] + s[k].len
      BY <1>3, <2>1, AddsFacts
    <2>3. h[0] = 0 /\ \A k \in 1..n : h[k] = h[k-1] + t[k].len
      BY <1>1, <1>2, AddsFacts
    <2> QED BY <2>2, <2>3
  <1> DEFINE P == {k \in Nat : k <= n => h[k] \in Nat /\ g[k + 1] = h[k] + x}
  <1>5. P = Nat
    <2>1. 0 \in P
      <3>1. 1 \in 1..n+1 /\ 1 - 1 = 0
        BY <1>1
      <3>2. g[1] = g[0] + x
        BY <1>1, <1>4, <3>1
      <3> QED BY <1>1, <1>4, <3>2
    <2>2. ASSUME NEW k \in P
          PROVE  k + 1 \in P
      <3>1. /\ k \in Nat
            /\ k + 1 <= n => /\ k + 1 \in 1..n /\ (k + 1) + 1 \in 1..n+1
                             /\ h[k] \in Nat /\ g[k + 1] = h[k] + x
        BY <1>1
      <3>2. k + 1 <= n => /\ h[k + 1] = h[k] + t[k + 1].len
                          /\ g[(k + 1) + 1] = g[k + 1] + t[k + 1].len
        <4> SUFFICES ASSUME k + 1 <= n
                     PROVE  /\ h[k + 1] = h[k] + t[k + 1].len
                            /\ g[(k + 1) + 1] = g[k + 1] + t[k + 1].len
          OBVIOUS
        <4>1. (k + 1) - 1 = k /\ ((k + 1) + 1) - 1 = k + 1
          BY <3>1
        <4>2. h[k + 1] = h[k] + t[k + 1].len
          <5>1. h[k + 1] = h[(k + 1) - 1] + t[k + 1].len
            BY <1>4, <3>1
          <5> QED BY <4>1, <5>1
        <4>3. g[(k + 1) + 1] = g[((k + 1) + 1) - 1] + s[(k + 1) + 1].len
          BY <1>4, <3>1
        <4>4. s[(k + 1) + 1] = t[k + 1]
          BY <1>1, <3>1
        <4> QED BY <4>1, <4>2, <4>3, <4>4
      <3>3. k + 1 <= n => t[k + 1].len \in Nat
        BY <1>1, <3>1
      <3>4. k + 1 <= n => /\ h[k + 1] \in Nat
                          /\ g[(k + 1) + 1] = h[k + 1] + x
        <4> SUFFICES ASSUME k + 1 <= n
                     PROVE  /\ h[k + 1] \in Nat
                            /\ g[(k + 1) + 1] = h[k + 1] + x
          OBVIOUS
        <4>1. h[k] \in Nat /\ g[k + 1] = h[k] + x
          BY <3>1
        <4>2. h[k + 1] = h[k] + t[k + 1].len /\ g[(k + 1) + 1] = (h[k] + x) + t[k + 1].len
          BY <3>2, <4>1
        <4>3. x \in Nat /\ t[k + 1].len \in Nat
          BY <1>1, <3>3
        <4> QED BY <4>1, <4>2, <4>3
      <3> QED BY <3>1, <3>4
    <2>3. P \in SUBSET Nat
      OBVIOUS
    <2> HIDE DEF P
    <2> QED BY <2>1, <2>2, <2>3, Nats!NatSetInduction
  <1>6. n \in P
    <2> HIDE DEF P
    <2> QED BY <1>1, <1>5
  <1> QED BY <1>1, <1>2, <1>3, <1>6 DEF t, x

(***************************************************************************)
(* What is still to be written of a queue: all of it during a write, all   *)
(* but the front, which is written, before and after one.                  *)
(***************************************************************************)
Owed(queue, phase) ==
    IF phase \in {"header", "body", "written"}
    THEN Bytes(queue)
    ELSE Bytes(queue) - IF queue = <<>> THEN 0 ELSE Head(queue).len

\* A pop and a close have no bytes.
OnlyData(s) == \A i \in DOMAIN s : s[i].type # "data" => s[i].len = 0

Counted(o) ==
    /\ OnlyData(o.strand) /\ OnlyData(o.queue)
    /\ o.outstanding = Owed(o.queue, o.phase)
    /\ o.outstanding <= o.max /\ o.max <= o.total

CloseAtEnd(queue) == \A i \in DOMAIN queue : queue[i].type = "close" => i = Len(queue)

ByteInv == \A p \in Side : Counted(out[p])

\* When no write is under way all but the front is owed.
LEMMA OwedIdle ==
    ASSUME NEW q \in Seq(SendOp), NEW phase, phase \notin {"header", "body", "written"}
    PROVE  Owed(q, phase) = IF q = <<>> THEN 0 ELSE Bytes(Tail(q))
  <1>1. CASE q = <<>>
    <2>1. Bytes(q) = 0
      BY <1>1, BytesType
    <2> QED BY <1>1, <2>1 DEF Owed
  <1>2. CASE q # <<>>
    BY <1>2, BytesTail DEF Owed
  <1> QED BY <1>1, <1>2

\* Only messages have bytes, also behind the front.
LEMMA OnlyDataTail ==
    ASSUME NEW s \in Seq(SendOp), s # <<>>, OnlyData(s)
    PROVE  OnlyData(Tail(s)) /\ (Head(s).type # "data" => Head(s).len = 0)
  <1>1. /\ Head(s) = s[1] /\ 1 \in DOMAIN s
        /\ Len(s) \in Nat /\ DOMAIN s = 1..Len(s) /\ DOMAIN Tail(s) = 1..Len(s)-1
        /\ \A i \in 1..Len(s)-1 : Tail(s)[i] = s[i + 1]
    BY TailFacts
  <1>2. \A i \in DOMAIN Tail(s) : i + 1 \in DOMAIN s /\ Tail(s)[i] = s[i + 1]
    BY <1>1
  <1> QED BY <1>1, <1>2 DEF OnlyData

\* Only messages have bytes, also with one operation more.
LEMMA OnlyDataAppend ==
    ASSUME NEW s \in Seq(SendOp), OnlyData(s), NEW e \in SendOp,
           e.type # "data" => e.len = 0
    PROVE  OnlyData(Append(s, e))
  <1>1. /\ Len(s) \in Nat
        /\ DOMAIN s = 1..Len(s) /\ DOMAIN Append(s, e) = 1..Len(s)+1
        /\ \A i \in 1..Len(s) : Append(s, e)[i] = s[i]
        /\ Append(s, e)[Len(s) + 1] = e
    BY AppendFacts
  <1>2. ASSUME NEW i \in DOMAIN Append(s, e)
        PROVE  \/ i = Len(s) + 1
               \/ i \in DOMAIN s /\ Append(s, e)[i] = s[i]
    BY <1>1
  <1> QED BY <1>1, <1>2 DEF OnlyData

Owes(queue, phase, op, queue2, phase2) ==
    OnlyData(queue2) /\ Owed(queue2, phase2) = Owed(queue, phase) + op.len

\* The handler of the send strand owes the bytes of the operation it takes: a
\* push adds them, and a pop, of the operation that is written, adds none.
LEMMA RunOwes ==
    ASSUME NEW strand \in Seq(SendOp), strand # <<>>, NEW queue \in Seq(SendOp),
           NEW phase, AtMostOne(strand, queue, phase),
           CloseAtEnd(queue), OnlyData(strand), OnlyData(queue),
           NEW op \in SendOp, op = Head(strand), NEW queue2, NEW phase2,
           queue2 = IF Closes(queue, op) THEN Tail(Changed(queue, op)) ELSE Changed(queue, op),
           phase2 = IF Starts(queue, op) /\ ~Closes(queue, op) THEN "header" ELSE phase
    PROVE  Owes(queue, phase, op, queue2, phase2)
  <1> SUFFICES OnlyData(queue2) /\ Owed(queue2, phase2) = Owed(queue, phase) + op.len
    BY DEF Owes
  <1>1. op.len \in Nat /\ (op.type # "data" => op.len = 0)
    <2>1. op.len \in Nat
      BY DEF SendOp, OpType
    <2> QED BY <2>1, OnlyDataTail
  <1>2. MayRun(Tail(strand), queue, phase, op)
    BY HeadMayRun
  <1>3. Owed(<<>>, "idle") = 0 /\ Bytes(<<>>) = 0 /\ OnlyData(<<>>)
    <2>1. <<>> \in Seq(SendOp)
      OBVIOUS
    <2>2. OnlyData(<<>>)
      BY DEF OnlyData
    <2> QED BY <2>1, <2>2, BytesType, OwedIdle
  <1>4. CASE op.type = "pop"
    <2> DEFINE t == Tail(queue)
    <2>1. /\ queue # <<>> /\ phase = "idle" /\ op.len = 0
          /\ t \in Seq(SendOp) /\ OnlyData(t) /\ Changed(queue, op) = t
          /\ Starts(queue, op) <=> t # <<>>
      BY <1>1, <1>2, <1>4, TailFacts, OnlyDataTail DEF MayRun, Changed, Starts
    <2>2. Owed(queue, phase) = Bytes(t) /\ Bytes(t) \in Nat
      BY <2>1, OwedIdle, BytesType
    <2> HIDE DEF t
    <2>s. Owed(queue, phase) + op.len = Bytes(t)
      BY <2>1, <2>2
    <2>3. CASE t = <<>>
      <3>1. queue2 = <<>> /\ phase2 = "idle"
        BY <2>1, <2>3 DEF Closes
      <3> QED BY <3>1, <2>3, <2>s, <1>3
    <2>4. CASE t # <<>> /\ ~Closes(queue, op)
      <3>1. queue2 = t /\ phase2 = "header"
        BY <2>1, <2>4
      <3>2. Owed(t, "header") = Bytes(t)
        BY DEF Owed
      <3> QED BY <3>1, <3>2, <2>1, <2>s
    <2>5. CASE t # <<>> /\ Closes(queue, op)
      <3>1. Head(t).type = "close" /\ Head(t) = queue[2] /\ 2 \in DOMAIN queue
            /\ Len(queue) \in Nat /\ Len(t) = Len(queue) - 1 /\ Len(Tail(t)) = Len(t) - 1
            /\ Tail(t) \in Seq(SendOp)
        <4>1. /\ Len(queue) \in Nat /\ DOMAIN queue = 1..Len(queue)
              /\ Len(t) = Len(queue) - 1
              /\ \A i \in 1..Len(queue)-1 : t[i] = queue[i + 1]
          BY <2>1, TailFacts DEF t
        <4>2. /\ Head(t) = t[1] /\ Len(Tail(t)) = Len(t) - 1 /\ Tail(t) \in Seq(SendOp)
              /\ 1 \in DOMAIN t /\ DOMAIN t = 1..Len(t)
          BY <2>1, <2>5, TailFacts
        <4>3. t[1] = queue[2] /\ 2 \in DOMAIN queue
          BY <4>1, <4>2
        <4>4. Head(t).type = "close"
          BY <2>1, <2>5 DEF Closes
        <4> QED BY <4>1, <4>2, <4>3, <4>4
      <3>2. 2 = Len(queue)
        BY <3>1 DEF CloseAtEnd
      <3>3. Tail(t) = <<>>
        <4>1. Len(Tail(t)) = 0
          <5>1. Len(t) = 1
            BY <3>1, <3>2
          <5>2. Len(Tail(t)) = Len(t) - 1
            BY <3>1
          <5> QED BY <5>1, <5>2
        <4> QED BY <4>1, <3>1, EmptyIsLen0
      <3>4. Head(t).len = 0
        BY <2>1, <2>5, <3>1, OnlyDataTail
      <3>5. Bytes(t) = 0
        <4>1. Bytes(Tail(t)) = Bytes(t) - Head(t).len
          BY <2>1, <2>5, BytesTail
        <4>2. Bytes(Tail(t)) = 0
          BY <3>3, <1>3
        <4> QED BY <4>1, <4>2, <3>4, <2>2
      <3>6. queue2 = <<>> /\ phase2 = "idle"
        BY <2>1, <2>5, <3>3
      <3> QED BY <2>s, <3>5, <3>6, <1>3
    <2> QED BY <2>3, <2>4, <2>5
  <1>5. CASE op.type # "pop"
    <2> DEFINE a == Append(queue, op)
    <2>1. /\ a \in Seq(SendOp) /\ a # <<>> /\ Changed(queue, op) = a
          /\ Starts(queue, op) <=> queue = <<>>
          /\ Bytes(queue) \in Nat /\ Bytes(a) = Bytes(queue) + op.len
      BY <1>5, AppendFacts, BytesAppend, BytesType DEF Changed, Starts
    <2>2. OnlyData(a)
      BY <1>1, OnlyDataAppend
    <2>3. CASE queue = <<>>
      <3>1. phase = "idle" /\ Head(a) = op /\ Tail(a) = <<>>
        BY <2>3, <1>2, <1>5 DEF MayRun, AtMostOne
      <3>2. Owed(queue, phase) + op.len = op.len /\ Bytes(a) = op.len
        <4>1. Owed(queue, phase) = 0 /\ Bytes(queue) = 0
          BY <2>3, <3>1, <1>3
        <4> QED BY <4>1, <2>1, <1>1
      <3> HIDE DEF a
      <3>3. CASE op.type = "close"
        <4>1. queue2 = <<>> /\ phase2 = "idle" /\ op.len = 0
          BY <1>1, <2>1, <2>3, <3>1, <3>3 DEF Closes
        <4> QED BY <4>1, <3>2, <1>3
      <3>4. CASE op.type # "close"
        <4>1. queue2 = a /\ phase2 = "header"
          BY <2>1, <2>3, <3>1, <3>4 DEF Closes
        <4>2. Owed(a, "header") = Bytes(a)
          BY DEF Owed
        <4> QED BY <4>1, <4>2, <3>2, <2>2
      <3> QED BY <3>3, <3>4
    <2>4. CASE queue # <<>>
      <3>1. queue2 = a /\ phase2 = phase
        BY <2>1, <2>4 DEF Closes
      <3>2. Head(a) = Head(queue) /\ Head(queue).len \in Nat
        <4>1. Head(queue) \in SendOp /\ Head(queue) = queue[1] /\ 1 \in DOMAIN queue
          BY <2>4, TailFacts
        <4>2. Head(a) = a[1]
          BY <2>1, TailFacts
        <4>3. a[1] = queue[1]
          BY <4>1, AppendFacts
        <4> QED BY <4>1, <4>2, <4>3 DEF SendOp, OpType
      <3> HIDE DEF a
      <3>3. \A b, c, d \in Nat : (b + d) - c = (b - c) + d
        OBVIOUS
      <3>4. Owed(a, phase) = Owed(queue, phase) + op.len
        <4>1. CASE phase \in {"header", "body", "written"}
          BY <2>1, <4>1 DEF Owed
        <4>2. CASE phase \notin {"header", "body", "written"}
          <5>1. /\ Owed(a, phase) = (Bytes(queue) + op.len) - Head(queue).len
                /\ Owed(queue, phase) = Bytes(queue) - Head(queue).len
            BY <4>2, <2>1, <2>4, <3>2 DEF Owed
          <5>2. (Bytes(queue) + op.len) - Head(queue).len = (Bytes(queue) - Head(queue).len) + op.len
            BY <3>3, <2>1, <3>2, <1>1
          <5> QED BY <5>1, <5>2
        <4> QED BY <4>1, <4>2
      <3> QED BY <2>2, <3>1, <3>4
    <2> QED BY <2>3, <2>4
  <1> QED BY <1>4, <1>5

\* A step that leaves the send halves alone keeps ByteInv.
LEMMA CountedSame == ASSUME ByteInv, UNCHANGED out PROVE ByteInv'
  <1>1. \A q \in Side : Counted(out'[q])
    BY DEF ByteInv
  <1> QED BY <1>1 DEF ByteInv, Counted, Owed, OnlyData, Bytes

\* A step that leaves one send half counted keeps ByteInv.
LEMMA SetOutCounted ==
    ASSUME TypeInv, ByteInv, NEW p \in Side, NEW o, SetOut(p, o), Counted(o)
    PROVE  ByteInv'
  <1>1. \A q \in Side : out'[q] = IF q = p THEN o ELSE out[q]
    BY DEF SetOut, TypeInv, OutInv
  <1>2. \A q \in Side : Counted(out'[q])
    BY <1>1 DEF ByteInv
  <1> QED BY <1>2 DEF ByteInv, Counted, Owed, OnlyData, Bytes

\* A call posts an operation, whose bytes count only when the strand takes it.
LEMMA PostCounted ==
    ASSUME NEW o \in OutType, Counted(o), NEW op \in SendOp,
           op.type # "data" => op.len = 0,
           NEW phase \in {"idle", "header", "body", "written", "pop"},
           Owed(o.queue, phase) = Owed(o.queue, o.phase)
    PROVE  Counted([o EXCEPT !.strand = Append(@, op), !.phase = phase])
  <1> DEFINE n == [o EXCEPT !.strand = Append(@, op), !.phase = phase]
  <1>1. /\ n.strand = Append(o.strand, op) /\ n.queue = o.queue /\ n.phase = phase
        /\ n.outstanding = o.outstanding /\ n.max = o.max /\ n.total = o.total
    BY DEF OutType
  <1>2. OnlyData(Append(o.strand, op))
    BY OnlyDataAppend DEF Counted, OutType
  <1> HIDE DEF n
  <1>3. Counted(n)
    BY <1>1, <1>2 DEF Counted
  <1> QED BY <1>3 DEF n

\* The calls of a user keep ByteInv: they count nothing.
LEMMA UserBytes ==
    ASSUME ChannelAssumption, TypeInv, ByteInv, NEW p \in Side, UserStep(p)
    PROVE  ByteInv'
  <1>1. CASE PostSend(p)
    <2> DEFINE op == Operation("data", Len(sent[p]) + 1, Cut(NowCall(p).len),
                               NowCall(p).type = "send")
               o  == out[p]
               n  == [o EXCEPT !.strand = Append(@, op)]
    <2>1. o \in OutType /\ Counted(o) /\ SetOut(p, n)
      BY <1>1 DEF TypeInv, OutInv, ByteInv, PostSend
    <2>2. op \in SendOp /\ op.type = "data"
      <3>1. Cut(NowCall(p).len) \in Nat /\ sent[p] \in Seq(Nat)
        BY <1>1, CallFacts DEF PostSend, UserAt, TypeInv, RestInv
      <3> QED BY <3>1, OpsType DEF Operation, SendOp, OpType
    <2> HIDE DEF op, o
    <2>3. /\ n = [o EXCEPT !.strand = Append(@, op), !.phase = o.phase]
          /\ o.phase \in {"idle", "header", "body", "written", "pop"}
      BY <2>1 DEF OutType
    <2>4. Counted([o EXCEPT !.strand = Append(@, op), !.phase = o.phase])
      BY <2>1, <2>2, <2>3, PostCounted
    <2>5. Counted(n)
      BY <2>3, <2>4
    <2> HIDE DEF n
    <2> QED BY <2>1, <2>5, SetOutCounted
  <1>2. CASE ~PostSend(p)
    BY <1>2, CountedSame DEF UserStep, Begin, PostRecv, Refuse, Return
  <1> QED BY <1>1, <1>2

\* The steps of close keep ByteInv: its operation has no bytes.
LEMMA CloserBytes ==
    ASSUME TypeInv, ByteInv, NEW p \in Side, CloserStep(p)
    PROVE  ByteInv'
  <1>1. CASE PostCloseSend(p)
    <2> DEFINE o == out[p]
               n == [o EXCEPT !.strand = Append(@, CloseOp)]
    <2>1. o \in OutType /\ Counted(o) /\ SetOut(p, n)
      BY <1>1 DEF TypeInv, OutInv, ByteInv, PostCloseSend
    <2>2. CloseOp \in SendOp /\ CloseOp.len = 0
      BY OpsType DEF CloseOp, Operation
    <2> HIDE DEF o
    <2>3. /\ n = [o EXCEPT !.strand = Append(@, CloseOp), !.phase = o.phase]
          /\ o.phase \in {"idle", "header", "body", "written", "pop"}
      BY <2>1 DEF OutType
    <2>4. Counted([o EXCEPT !.strand = Append(@, CloseOp), !.phase = o.phase])
      BY <2>1, <2>2, <2>3, PostCounted
    <2>5. Counted(n)
      BY <2>3, <2>4
    <2> HIDE DEF n
    <2> QED BY <2>1, <2>5, SetOutCounted
  <1>2. CASE ~PostCloseSend(p)
    BY <1>2, CountedSame DEF CloserStep, Stop, PostCloseRecv, CloseSocket
  <1> QED BY <1>1, <1>2

\* The handlers of the strands keep ByteInv.
LEMMA StrandBytes ==
    ASSUME TypeInv, OrderInv, ByteInv, NEW p \in Side, RunSendStrand(p)
    PROVE  ByteInv'
  <1> DEFINE o  == out[p]
             op == Head(o.strand)
             c  == Count([o EXCEPT !.strand = Tail(@)], op.len)
             n  == RunPosted(c, op)
  <1>1. SetOut(p, n) /\ o.strand # <<>>
    BY DEF RunSendStrand
  <1>2. /\ o \in OutType /\ NotTwice(o) /\ Counted(o)
        /\ o.strand \in Seq(SendOp) /\ o.queue \in Seq(SendOp)
        /\ CloseAtEnd(o.queue)
    BY SideFacts DEF ByteInv, Orderly, CloseAtEnd
  <1> HIDE DEF o
  <1>3. op \in SendOp /\ op.len \in Nat /\ OnlyData(Tail(o.strand))
    <2>1. op \in SendOp
      BY <1>1, <1>2, TailFacts
    <2> QED BY <2>1, <1>1, <1>2, OnlyDataTail DEF Counted, SendOp, OpType
  <1>4. /\ n.strand = Tail(o.strand)
        /\ n.queue = IF Closes(o.queue, op) THEN Tail(Changed(o.queue, op))
                                            ELSE Changed(o.queue, op)
        /\ n.phase = IF Starts(o.queue, op) /\ ~Closes(o.queue, op)
                     THEN "header" ELSE o.phase
    BY <1>1, <1>2, RunOutInv
  <1>5. /\ n.total = o.total + op.len
        /\ n.outstanding = o.outstanding + op.len
        /\ n.max = Larger(o.max, o.outstanding + op.len)
    <2>1. /\ c.total = o.total + op.len
          /\ c.outstanding = o.outstanding + op.len
          /\ c.max = Larger(o.max, o.outstanding + op.len)
      <3> HIDE DEF op
      <3> QED BY <1>2 DEF Count, OutType
    <2> HIDE DEF c, op
    <2>2. n.total = c.total /\ n.outstanding = c.outstanding /\ n.max = c.max
      BY DEF RunPosted, StartIfAny, StartIfOnly, Start, Push
    <2> QED BY <2>1, <2>2
  <1> HIDE DEF n
  <1>6. Owes(o.queue, o.phase, op, n.queue, n.phase)
    <2> HIDE DEF op
    <2>1. op = Head(o.strand)
      BY DEF op
    <2>2. AtMostOne(o.strand, o.queue, o.phase) /\ OnlyData(o.strand) /\ OnlyData(o.queue)
      BY <1>2 DEF NotTwice, Counted
    <2>3. /\ o.strand \in Seq(SendOp) /\ o.strand # <<>> /\ o.queue \in Seq(SendOp)
          /\ CloseAtEnd(o.queue)
      BY <1>1, <1>2
    <2>4. op \in SendOp
      BY <1>3
    <2> QED BY <2>1, <2>2, <2>3, <2>4, <1>4, RunOwes
  <1> HIDE DEF op
  <1>7. n.outstanding <= n.max /\ n.max <= n.total
    <2>1. /\ o.total \in Int /\ o.outstanding \in Int /\ o.max \in Int
          /\ o.outstanding <= o.max /\ o.max <= o.total
      BY <1>2 DEF Counted, OutType
    <2> QED BY <2>1, <1>3, <1>5 DEF Larger
  <1>8. Counted(n)
    BY <1>2, <1>3, <1>4, <1>5, <1>6, <1>7 DEF Counted, Owes
  <1> QED BY <1>1, <1>8, SetOutCounted

\* The steps of a write keep ByteInv: its bytes are subtracted once.
LEMMA WriteBytes ==
    ASSUME TypeInv, ByteInv, NEW p \in Side, WriteStep(p)
    PROVE  ByteInv'
  <1> DEFINE o == out[p]
  <1>1. o \in OutType /\ NotTwice(o) /\ Counted(o)
    BY DEF TypeInv, OutInv, ByteInv
  <1>2. CASE WritePart(p)
    <2>1. PICK part \in {"header", "body"} :
             Writing(p, part) /\ SetOut(p, Taken(o, Head(o.queue), part))
      BY <1>2 DEF WritePart
    <2> DEFINE n == Taken(o, Head(o.queue), part)
    <2>2. /\ n.strand = o.strand /\ n.queue = o.queue /\ n.outstanding = o.outstanding
          /\ n.max = o.max /\ n.total = o.total /\ n.phase \in {"body", "written"}
      BY <1>1 DEF Taken, OutType
    <2>3. o.phase \in {"header", "body"}
      BY <2>1 DEF Writing
    <2> HIDE DEF n, o
    <2>4. Counted(n)
      BY <1>1, <2>2, <2>3 DEF Counted, Owed
    <2>5. SetOut(p, n)
      BY <2>1 DEF n
    <2> QED BY <2>4, <2>5, SetOutCounted
  <1>3. CASE WriteDone(p)
    <2> DEFINE op == Head(o.queue)
               n  == Written(o, op)
    <2>1. o.phase = "written" /\ SetOut(p, n)
      BY <1>3 DEF WriteDone, Writing
    <2>2. o.queue # <<>> /\ o.queue \in Seq(SendOp)
      BY <1>1, <2>1 DEF NotTwice, AtMostOne, OutType
    <2>3. op.len \in Nat
      <3>1. op \in SendOp
        BY <2>2, TailFacts
      <3> QED BY <3>1 DEF SendOp, OpType
    <2>4. /\ n.strand = o.strand /\ n.queue = o.queue /\ n.phase = "pop"
          /\ n.outstanding = o.outstanding - op.len
          /\ n.max = o.max /\ n.total = o.total
      BY <1>1 DEF Written, OutType
    <2> HIDE DEF n
    <2>5. n.outstanding = Owed(n.queue, n.phase)
      BY <1>1, <2>1, <2>2, <2>4 DEF Counted, Owed
    <2>6. n.outstanding <= n.max
      <3>1. o.outstanding \in Int /\ o.max \in Int /\ o.outstanding <= o.max
        BY <1>1 DEF Counted, OutType
      <3> HIDE DEF op, o
      <3> QED BY <3>1, <2>3, <2>4
    <2>7. Counted(n)
      BY <1>1, <2>4, <2>5, <2>6 DEF Counted
    <2> QED BY <2>1, <2>7, SetOutCounted
  <1>4. CASE WriteRequeue(p)
    <2> DEFINE n == [o EXCEPT !.strand = Append(@, Pop), !.phase = "idle"]
    <2>1. o.phase = "pop" /\ SetOut(p, n)
      BY <1>4, <1>1 DEF WriteRequeue, Writing, OutType
    <2>2. Pop \in SendOp /\ Pop.len = 0
      BY OpsType DEF Pop, Operation
    <2>3. Owed(o.queue, "idle") = Owed(o.queue, o.phase)
      BY <2>1 DEF Owed
    <2>4. Counted(n)
      BY <1>1, <2>2, <2>3, PostCounted
    <2> HIDE DEF n
    <2> QED BY <2>1, <2>4, SetOutCounted
  <1>5. CASE WriteFails(p)
    BY <1>5, CountedSame DEF WriteFails, Abort
  <1> QED BY <1>2, <1>3, <1>4, <1>5 DEF WriteStep

\* ByteInv holds of a new channel.
LEMMA InitBytes == ASSUME Init PROVE ByteInv
  <1>1. <<>> \in Seq(SendOp)
    OBVIOUS
  <1>2. Owed(<<>>, "idle") = 0
    BY <1>1, OwedIdle
  <1>3. Counted(NewOut)
    BY <1>2 DEF Counted, NewOut, OnlyData
  <1>4. \A p \in Side : out[p] = NewOut
    BY DEF Init
  <1> QED BY <1>3, <1>4 DEF ByteInv

\* Every step keeps ByteInv.
LEMMA StepBytes ==
    ASSUME ChannelAssumption, TypeInv, OrderInv, ByteInv, [Next]_vars
    PROVE  ByteInv'
  <1>1. ASSUME NEW p \in Side, UserStep(p) \/ CloserStep(p)
        PROVE  ByteInv'
    BY <1>1, UserBytes, CloserBytes
  <1>2. ASSUME NEW p \in Side, RunSendStrand(p) \/ WriteStep(p)
        PROVE  ByteInv'
    BY <1>2, StrandBytes, WriteBytes
  <1>3. ASSUME NEW p \in Side, RunRecvStrand(p) \/ ReadStep(p) \/ Fail(p)
        PROVE  ByteInv'
    BY <1>3, CountedSame DEF RunRecvStrand, ReadStep, ReadHeader, ReadBody, ReadDone,
                             ReadRequeue, ReadFails, Fail, Abort
  <1>4. CASE UNCHANGED vars
    BY <1>4, CountedSame DEF vars
  <1> QED BY <1>1, <1>2, <1>3, <1>4 DEF Next

\* mOutstandingSendData is added to by the handlers of the strand and subtracted
\* from by the handler of a write, and it is unsigned: for every use of a
\* channel whose close waits for its user it is exactly the bytes of the queued
\* operations that are not written yet, so it never wraps, and mMaxOutstanding
\* and the total bound it.
THEOREM BytesCounted == ~CloseEarly => (SafetySpec => []OutstandingExact)
  <1> SUFFICES ASSUME ~CloseEarly
               PROVE  SafetySpec => []OutstandingExact
    OBVIOUS
  <1>1. Init => ByteInv
    BY InitBytes
  <1>2. (TypeInv /\ OrderInv) /\ ByteInv /\ [Next]_vars => ByteInv'
    BY StepBytes, ChannelAssumption
  <1>3. ByteInv => OutstandingExact
    BY DEF ByteInv, Counted, Owed, OutstandingExact
  <1> QED BY <1>1, <1>2, <1>3, OrderHolds, PTL DEF SafetySpec

=============================================================================
