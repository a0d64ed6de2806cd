------------------------------ MODULE Endpoint ------------------------------
(***************************************************************************)
(* How the two ends of a channel find each other (libBDX/Network):         *)
(* BtEndpoint::addChannel on both sides, the accept, header and name       *)
(* handlers of BtAcceptor and its map of promised sockets, closing and     *)
(* removing channels, BtEndpoint::stop and BtIOService::stop.              *)
(*                                                                         *)
(* One endpoint is the host, the other the client.  The program of a side  *)
(* is a set of threads; thread t adds the channels Opens[s][t], one after  *)
(* the other, then uses and closes the channels Closes[s][t].  A channel   *)
(* is a pair of names, <<local, remote>>; a connection is known by the     *)
(* client's channel.                                                       *)
(*                                                                         *)
(* The map is changed under its lock and read after the lock is released.  *)
(* A read that meets a change is a data race: it may miss what is there,   *)
(* and operator[] then adds another entry under the same tag.              *)
(*                                                                         *)
(* An operator marked "fault" is a variant, with a plausible slip, of the  *)
(* operator defined after it.  No action uses one; each property below is  *)
(* checked to fail when one of them takes the place of the real operator.  *)
(***************************************************************************)
EXTENDS Integers, Sequences, FiniteSets, SequencesExt

CONSTANTS Opens,      \* Opens[s]: per thread of side s, the channels it adds, in order
          Closes,     \* Closes[s]: per thread of side s, the channels it uses and closes
          StopWhen,   \* StopWhen[s]: when the program of s calls stop (see MayStop)
          Patience,   \* TRUE: channels close within the five seconds stop waits
          MayDie,     \* connections whose client may die before it sent its names
          MayShorten  \* connections whose names may arrive in pieces

Side   == {"host", "client"}
Thread(s)   == DOMAIN Opens[s]
Channel(s)  == UNION {ToSet(Opens[s][t]) : t \in Thread(s)}
Connection  == Channel("client")
MaxEntries  == 4    \* entries a racing host and handler can give one tag

\* What a handler looks for: the tag of a channel, or one no channel has.
Foreign == <<"foreign">>
Tag     == Channel("host") \cup {Foreign}

Mirror(ch) == <<ch[2], ch[1]>>

EndpointAssumption ==
    /\ DOMAIN Opens = Side /\ DOMAIN Closes = Side
    /\ \A s \in Side : \A t, u \in Thread(s) :
        /\ DOMAIN Closes[s] = Thread(s) /\ Closes[s][t] # <<>>
        /\ {Opens[s][t], Closes[s][t]} \subseteq Seq(Channel(s))
        /\ IsInjective(Opens[s][t]) /\ IsInjective(Closes[s][t])
        /\ t # u => /\ ToSet(Opens[s][t]) \cap ToSet(Opens[s][u]) = {}
                    /\ ToSet(Closes[s][t]) \cap ToSet(Closes[s][u]) = {}
    /\ \A ch \in Connection : ch = Mirror(Mirror(ch))
    /\ Channel("host") = {Mirror(ch) : ch \in Connection}
    /\ StopWhen \in [Side -> {"joined", "added", "any"}]
    /\ Patience \in BOOLEAN /\ MayDie \subseteq Connection /\ MayShorten \subseteq Connection

NoSocket == <<>>

VARIABLES thread,    \* thread[s][t]: step of the thread and place in Opens[s][t]
          channels,  \* channels[s]: mChannels
          socket,    \* socket[s][ch]: mSocket, a connection
          stopped,   \* stopped[s]: mStopped of the endpoint
          done,      \* done[s]: mDoneProm was set
          main,      \* main[s]: the thread that calls stop
          look,      \* look[s]: the channel the loop of stop looks at
          conn,      \* conn[c]: what the client put into the connection
          handler,   \* handler[c]: the acceptor's handlers for the connection, and their tag
          entries,   \* entries[tag]: how many entries of mSocketPromises have the tag
          promise,   \* promise[tag][e]: the socket of the e-th entry
          acceptor,  \* the host's acceptor
          crashed    \* crashed[s]: an exception or a dead object ended the program

vars == <<thread, channels, socket, stopped, done, main, look,
          conn, handler, entries, promise, acceptor, crashed>>
map  == <<entries, promise>>
ends == <<stopped, done, main, look>>

\* A thread starts with addChannel, one that adds no channel with using some.
Start(s, t) == [pc |-> IF Opens[s][t] = <<>> THEN "use" ELSE "add", at |-> 1, entry |-> 0]

\* No acceptor is made before an endpoint asks for one; its map is empty then.
NewIOService == acceptor = "off"
NewAcceptor ==
    /\ handler = [c \in Connection |-> [pc |-> "none", entry |-> 0, tag |-> Foreign]]
    /\ entries = [tag \in Tag |-> 0]
    /\ promise = [tag \in Tag |-> [e \in 1..MaxEntries |-> NoSocket]]

Init ==
    /\ thread = [s \in Side |-> [t \in Thread(s) |-> Start(s, t)]]
    /\ channels = [s \in Side |-> {}]
    /\ socket = [s \in Side |-> [ch \in Channel(s) |-> NoSocket]]
    /\ stopped = [s \in Side |-> FALSE]
    /\ done = [s \in Side |-> FALSE]
    /\ main = [s \in Side |-> "running"]
    /\ look = [s \in Side |-> NoSocket]
    /\ conn = [c \in Connection |-> "none"]
    /\ NewIOService
    /\ NewAcceptor
    /\ crashed = [s \in Side |-> FALSE]

Crash(s) ==
    /\ crashed' = [crashed EXCEPT ![s] = TRUE]
    /\ UNCHANGED <<thread, channels, socket, ends, conn, handler, map, acceptor>>

At(s, t, pc)   == ~crashed[s] /\ thread[s][t].pc = pc
Current(s, t)  == Opens[s][t][thread[s][t].at]
Go(s, t, pc)   == thread' = [thread EXCEPT ![s][t].pc = pc]

\* addChannel returned: on to the thread's next channel, or to using them.
ReturnedPast(s, t) ==                                 \* fault: one channel too many
    thread' = [thread EXCEPT ![s][t] =
        IF @.at <= Len(Opens[s][t]) THEN [pc |-> "add", at |-> @.at + 1, entry |-> 0]
                                    ELSE [pc |-> "use", at |-> 1, entry |-> 0]]
Returned(s, t) ==
    thread' = [thread EXCEPT ![s][t] =
        IF @.at < Len(Opens[s][t]) THEN [pc |-> "add", at |-> @.at + 1, entry |-> 0]
                                   ELSE [pc |-> "use", at |-> 1, entry |-> 0]]

-----------------------------------------------------------------------------
(* addChannel. *)

\* The acceptor has a port and listens, or is closed.
Bind == acceptor' = "listening"
StopAccepting == acceptor' = "gone"

\* BtEndpoint::start of the host: getAcceptor makes, binds and starts it.
Listen ==
    /\ acceptor = "off" /\ ~crashed["host"]
    /\ Bind
    /\ UNCHANGED <<thread, channels, socket, ends, conn, handler, map, crashed>>

AfterAdd == [host |-> "find", client |-> "connect"]

\* Under maddChannelMtx: the channel joins the list, unless stop was called.
Add(s, t) ==
    /\ At(s, t, "add")
    /\ s = "host" => acceptor # "off"
    /\ IF stopped[s] THEN Crash(s)
       ELSE /\ channels' = [channels EXCEPT ![s] = @ \cup {Current(s, t)}]
            /\ Go(s, t, AfterAdd[s])
            /\ UNCHANGED <<socket, ends, conn, handler, map, acceptor, crashed>>

\* The client connects, again and again until the host listens.
Connect(t) ==
    LET c == Current("client", t) IN
    /\ At("client", t, "connect") /\ acceptor = "listening"
    /\ conn' = [conn EXCEPT ![c] = "connected"]
    /\ socket' = [socket EXCEPT !["client"][c] = c]
    /\ Go("client", t, "names")
    /\ UNCHANGED <<channels, ends, handler, map, acceptor, crashed>>

\* ... and sends the names of the channel.
SendNames(t) ==
    LET c == Current("client", t) IN
    /\ At("client", t, "names")
    /\ conn' = [conn EXCEPT ![c] = "named"]
    /\ Returned("client", t)
    /\ UNCHANGED <<channels, socket, ends, handler, map, acceptor, crashed>>

\* A client that dies once it is connected; the host sees an error.
Die(c) ==
    /\ c \in MayDie /\ conn[c] = "connected" /\ ~crashed["client"]
    /\ conn' = [conn EXCEPT ![c] = "dead"]
    /\ crashed' = [crashed EXCEPT !["client"] = TRUE]
    /\ UNCHANGED <<thread, channels, socket, ends, handler, map, acceptor>>

-----------------------------------------------------------------------------
(* mSocketPromises: a host thread and the handler of a connection both find *)
(* or make the entry of a tag under the lock, then look it up without it.   *)

\* The handler swaps the names the client sent.
TagOfFirst(c) == Opens["host"][1][1]                   \* fault: that of the first channel
TagOf(c)     == Mirror(c)

\* emplace in progress: the map's lock is held.
Inserting == \/ \E t \in Thread("host") : thread["host"][t].pc = "insert"
             \/ \E c \in Connection : handler[c].pc = "insert"

AfterFind(tag) == IF entries[tag] = 0 THEN "insert" ELSE "lookup"

\* emplace adds nothing to a tag that has an entry.
Emplace(tag) == entries' = [entries EXCEPT ![tag] = IF @ = 0 THEN 1 ELSE @]

\* mSocketPromises[tag] without the lock: an entry e of the tag is found, or,
\* when the map is being changed, none is found and e is a new one.
Lookup(tag, e) ==
    \/ e \in 1..entries[tag] /\ UNCHANGED entries
    \/ /\ Inserting /\ entries[tag] < MaxEntries /\ e = entries[tag] + 1
       /\ entries' = [entries EXCEPT ![tag] = e]

HostFind(t) ==
    /\ At("host", t, "find") /\ ~Inserting
    /\ Go("host", t, AfterFind(Current("host", t)))
    /\ UNCHANGED <<channels, socket, ends, conn, handler, map, acceptor, crashed>>

HostInsert(t) ==
    /\ At("host", t, "insert")
    /\ Emplace(Current("host", t))
    /\ Go("host", t, "lookup")
    /\ UNCHANGED <<channels, socket, ends, conn, handler, promise, acceptor, crashed>>

HostLookup(t) ==
    /\ At("host", t, "lookup")
    /\ \E e \in 1..MaxEntries :
        /\ Lookup(Current("host", t), e)
        /\ thread' = [thread EXCEPT !["host"][t] = [pc |-> "wait", at |-> @.at, entry |-> e]]
    /\ UNCHANGED <<channels, socket, ends, conn, handler, promise, acceptor, crashed>>

FulfilledAlways(ch, e) == TRUE                        \* fault: does not wait
Fulfilled(ch, e)       == promise[ch][e] # NoSocket

\* get_future().get(): the socket is there.
HostGet(t) ==
    LET ch == Current("host", t)  got == promise[ch][thread["host"][t].entry] IN
    /\ At("host", t, "wait") /\ Fulfilled(ch, thread["host"][t].entry)
    /\ socket' = [socket EXCEPT !["host"][ch] = got]
    /\ Returned("host", t)
    /\ UNCHANGED <<channels, ends, conn, handler, map, acceptor, crashed>>

-----------------------------------------------------------------------------
(* The acceptor's handlers, one chain per connection. *)

HandlerAt(c, pc) == ~crashed["host"] /\ handler[c].pc = pc
Handle(c, pc)    == handler' = [handler EXCEPT ![c].pc = pc]

\* async_accept: the next accept is started, then the header is awaited.
Accept(c) ==
    /\ HandlerAt(c, "none") /\ acceptor = "listening" /\ conn[c] # "none"
    /\ Handle(c, "header")
    /\ UNCHANGED <<thread, channels, socket, ends, conn, map, acceptor, crashed>>

\* The test after a receive is "no error, or not all bytes", which holds however the receive
\* ends: one that failed, or that got a part, goes on with what is in the buffer.
Header(c) ==
    /\ HandlerAt(c, "header") /\ conn[c] \in {"named", "dead"}
    /\ \/ conn[c] = "named" /\ Handle(c, "body")
       \/ (conn[c] = "dead" \/ c \in MayShorten) /\ Handle(c, "cut")
    /\ UNCHANGED <<thread, channels, socket, ends, conn, map, acceptor, crashed>>

\* The names are split and their tag is looked for.
Find(c, tag) ==
    /\ ~Inserting
    /\ handler' = [handler EXCEPT ![c] = [pc |-> AfterFind(tag), entry |-> 0, tag |-> tag]]
    /\ UNCHANGED <<thread, channels, socket, ends, conn, map, acceptor, crashed>>

Body(c) == HandlerAt(c, "body") /\ Find(c, TagOf(c))

\* After a header that was cut, or with a part of the names, size and names are what the buffer
\* holds: there is no room for so many, or there are not three pieces, or they make some tag.
Cut(c) ==
    /\ HandlerAt(c, "cut") \/ (HandlerAt(c, "body") /\ c \in MayShorten)
    /\ Crash("host") \/ \E tag \in Tag : Find(c, tag)

HandlerInsert(c) ==
    /\ HandlerAt(c, "insert")
    /\ Emplace(handler[c].tag)
    /\ Handle(c, "lookup")
    /\ UNCHANGED <<thread, channels, socket, ends, conn, promise, acceptor, crashed>>

HandlerLookup(c) ==
    /\ HandlerAt(c, "lookup")
    /\ \E e \in 1..MaxEntries :
        /\ Lookup(handler[c].tag, e)
        /\ handler' = [handler EXCEPT ![c] = [pc |-> "set", entry |-> e, tag |-> @.tag]]
    /\ UNCHANGED <<thread, channels, socket, ends, conn, promise, acceptor, crashed>>

\* set_value throws on a promise that has its value.
HandlerSet(c) ==
    LET tag == handler[c].tag IN
    /\ HandlerAt(c, "set")
    /\ IF promise[tag][handler[c].entry] # NoSocket THEN Crash("host")
       ELSE /\ promise' = [promise EXCEPT ![tag][handler[c].entry] = c]
            /\ Handle(c, "done")
            /\ UNCHANGED <<thread, channels, socket, ends, conn, entries, acceptor, crashed>>

-----------------------------------------------------------------------------
(* Closing, stopping. *)

\* removeChannel signals when the endpoint is stopped and the list is empty.
SignalsAlways(s, left) == left = {}                   \* fault: also before stop
SignalsNever(s, left)  == FALSE                       \* fault: stop was first
Signals(s, left)       == stopped[s] /\ left = {}

\* Use and BtChannel::close of the thread's next channel, then removeChannel;
\* a channel another thread has not added yet is a null pointer.
Close(s, t) ==
    LET ch == Closes[s][t][thread[s][t].at]  left == channels[s] \ {ch} IN
    /\ At(s, t, "use")
    /\ IF socket[s][ch] = NoSocket \/ (Signals(s, left) /\ done[s]) THEN Crash(s)
       ELSE /\ channels' = [channels EXCEPT ![s] = left]
            /\ done' = [done EXCEPT ![s] = @ \/ Signals(s, left)]
            /\ thread' = [thread EXCEPT ![s][t] =
                   IF @.at < Len(Closes[s][t]) THEN [pc |-> "use", at |-> @.at + 1, entry |-> 0]
                                              ELSE [pc |-> "done", at |-> @.at, entry |-> 0]]
            /\ UNCHANGED <<socket, stopped, main, look, conn, handler, map, acceptor, crashed>>

\* The program calls stop when its threads are joined, when they have their
\* channels, or at any time.
MayStop(s) ==
    \/ StopWhen[s] = "any"
    \/ \A t \in Thread(s) : \/ thread[s][t].pc = "done"
                            \/ StopWhen[s] = "added" /\ thread[s][t].pc = "use"

Stop(s) ==
    /\ main[s] = "running" /\ ~crashed[s] /\ MayStop(s)
    /\ s = "host" => acceptor # "off"
    /\ IF channels[s] = {} /\ done[s] THEN Crash(s)
       ELSE /\ stopped' = [stopped EXCEPT ![s] = TRUE]
            /\ done' = [done EXCEPT ![s] = @ \/ channels[s] = {}]
            /\ main' = [main EXCEPT ![s] = "stopping"]
            /\ UNCHANGED <<thread, channels, socket, look, conn, handler, map, acceptor, crashed>>

\* After five seconds stop names the channels that are still open, going
\* through mChannels without the lock.
Look(s) ==
    /\ ~Patience /\ main[s] = "stopping" /\ ~crashed[s] /\ ~done[s]
    /\ \E ch \in channels[s] : look' = [look EXCEPT ![s] = ch]
    /\ main' = [main EXCEPT ![s] = "looking"]
    /\ UNCHANGED <<thread, channels, socket, stopped, done, conn, handler, map, acceptor, crashed>>

\* It reads chl.mSocket->mStopped of a channel and moves on.
Read(s) ==
    /\ main[s] = "looking" /\ ~crashed[s]
    /\ IF look[s] \notin channels[s] \/ socket[s][look[s]] = NoSocket THEN Crash(s)
       ELSE /\ \/ \E ch \in channels[s] : look' = [look EXCEPT ![s] = ch] /\ UNCHANGED main
               \/ main' = [main EXCEPT ![s] = "stopping"] /\ UNCHANGED look
            /\ UNCHANGED <<thread, channels, socket, stopped, done, conn, handler, map,
                           acceptor, crashed>>

MayReturnAtOnce(s) == TRUE                            \* fault: does not wait
MayReturn(s)       == done[s]

StopReturns(s) ==
    /\ main[s] = "stopping" /\ ~crashed[s] /\ MayReturn(s)
    /\ main' = [main EXCEPT ![s] = "stopped"]
    /\ UNCHANGED <<thread, channels, socket, stopped, done, look, conn, handler, map,
                   acceptor, crashed>>

\* BtIOService::stop of the host, once stop of the endpoint returned: the
\* acceptor is closed and deleted.
IosStopFirst ==                                       \* fault: before the endpoint stops
    /\ acceptor = "listening" /\ ~crashed["host"]
    /\ acceptor' = "gone"
    /\ UNCHANGED <<thread, channels, socket, ends, conn, handler, map, crashed>>
IosStop ==
    /\ main["host"] = "stopped" /\ acceptor = "listening" /\ ~crashed["host"]
    /\ StopAccepting
    /\ UNCHANGED <<thread, channels, socket, ends, conn, handler, map, crashed>>

-----------------------------------------------------------------------------

ClientStep(t)  == Connect(t) \/ SendNames(t)
HostStep(t)    == HostFind(t) \/ HostInsert(t) \/ HostLookup(t) \/ HostGet(t)
HandlerStep(c) == \/ Accept(c) \/ Header(c) \/ Body(c) \/ Cut(c)
                  \/ HandlerInsert(c) \/ HandlerLookup(c) \/ HandlerSet(c)
EndStep(s)     == Stop(s) \/ StopReturns(s)

Next ==
    \/ Listen \/ IosStop
    \/ \E s \in Side : EndStep(s) \/ Look(s) \/ Read(s)
    \/ \E s \in Side : \E t \in Thread(s) : Add(s, t) \/ Close(s, t)
    \/ \E t \in Thread("client") : ClientStep(t)
    \/ \E t \in Thread("host") : HostStep(t)
    \/ \E c \in Connection : HandlerStep(c) \/ Die(c)

\* Threads run, handlers are called and the io threads keep running.
Fairness ==
    /\ WF_vars(Listen) /\ WF_vars(IosStop)
    /\ \A s \in Side : /\ WF_vars(EndStep(s)) /\ WF_vars(Read(s))
                       /\ \A t \in Thread(s) : WF_vars(Add(s, t)) /\ WF_vars(Close(s, t))
    /\ \A t \in Thread("client") : WF_vars(ClientStep(t))
    /\ \A t \in Thread("host") : WF_vars(HostStep(t))
    /\ \A c \in Connection : WF_vars(HandlerStep(c))

SafetySpec == Init /\ [][Next]_vars
Spec       == SafetySpec /\ Fairness

-----------------------------------------------------------------------------
(* The channels of one slot of DualExActor's online phase, with one thread   *)
(* per evaluation: the eval and sub threads and the SendMain thread add      *)
(* theirs, in an order that depends on the role, and the program's thread    *)
(* uses, in execute, and closes the onlineMainRecv channel.                  *)

Chl(local, remote) == <<local, remote>>
MainRecv == Chl("mainRecv", "mainSend")
MainSend == Chl("mainSend", "mainRecv")

OnlineOpens ==
    [s \in Side |->
        [t \in {"eval", "sub", "send", "program"} |->
            CASE t = "eval"    -> <<Chl("eval", "sub")>>
              [] t = "sub"     -> <<Chl("sub", "eval")>>
              [] t = "send"    -> IF s = "host" THEN <<MainRecv, MainSend>>
                                                ELSE <<MainSend, MainRecv>>
              [] t = "program" -> <<>>]]

OnlineCloses == [s \in Side |-> [OnlineOpens[s] EXCEPT !["send"] = <<MainSend>>,
                                                       !["program"] = <<MainRecv>>]]

-----------------------------------------------------------------------------

TypeOK ==
    /\ \A s \in Side :
        /\ \A t \in Thread(s) :
            /\ thread[s][t].pc \in {"add", "find", "insert", "lookup", "wait", "connect", "names",
                                    "use", "done"}
            /\ thread[s][t].at \in 1..Len(IF thread[s][t].pc \in {"use", "done"} THEN Closes[s][t]
                                                                            ELSE Opens[s][t])
            /\ thread[s][t].entry \in 0..MaxEntries
        /\ channels[s] \subseteq Channel(s)
        /\ socket[s] \in [Channel(s) -> Connection \cup {NoSocket}]
        /\ look[s] \in Channel(s) \cup {NoSocket}
        /\ main[s] \in {"running", "stopping", "looking", "stopped"}
    /\ {stopped, done, crashed} \subseteq [Side -> BOOLEAN]
    /\ conn \in [Connection -> {"none", "connected", "named", "dead"}]
    /\ handler \in [Connection ->
            [pc : {"none", "header", "body", "cut", "insert", "lookup", "set", "done"},
             entry : 0..MaxEntries, tag : Tag]]
    /\ entries \in [Tag -> 0..MaxEntries]
    /\ promise \in [Tag -> [1..MaxEntries -> Connection \cup {NoSocket}]]
    /\ acceptor \in {"off", "listening", "gone"}

\* A channel of the host talks to the channel of the client with the same two
\* names, seen from the other side, however many are connected at once.
Paired ==
    \A ch \in Channel("host") : socket["host"][ch] # NoSocket =>
        /\ socket["host"][ch] = Mirror(ch)
        /\ conn[Mirror(ch)] = "named"

\* mDoneProm is set when, and only when, the endpoint is stopped and its last
\* channel is removed: else stop would return early or wait for ever.
DoneWhenLast == \A s \in Side : done[s] <=> stopped[s] /\ channels[s] = {}

\* Stop blocks until all channels have closed.
StopBlocks == \A s \in Side : main[s] = "stopped" => channels[s] = {}

\* No handler is left that would use the acceptor once it is deleted, when the
\* program stops the service after the threads with its channels.
HandlersEnd ==
    acceptor = "gone" => \A c \in Connection : handler[c].pc \in {"none", "done"}

\* Programs that add, use and close channels and then stop never crash.
NeverCrash == \A s \in Side : ~crashed[s]

\* Every addChannel returns, and once the channels are closed so does stop.
Stopped == \A s \in Side : main[s] = "stopped"
AllStop == <>Stopped

=============================================================================
