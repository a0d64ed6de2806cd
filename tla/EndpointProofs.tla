--------------------------- MODULE EndpointProofs ---------------------------
(***************************************************************************)
(* Theorems about Endpoint, for any number of threads and channels, and    *)
(* their proofs.  The assumption about the constants, EndpointAssumption,  *)
(* is one of each theorem: TLC evaluates it for the instances it checks.   *)
(***************************************************************************)
EXTENDS Endpoint, TLAPS

\* Where a thread can be.
Steps(s) == {"add", "use", "done"}
                \cup IF s = "host" THEN {"find", "insert", "lookup", "wait"} ELSE {"connect", "names"}

\* What is stored of it.
Place(s, t) == [pc : Steps(s), at : Nat, entry : 0..MaxEntries]

\* The list that a thread at th goes through.
List(s, t, th) == IF th.pc \in {"use", "done"} THEN Closes[s][t] ELSE Opens[s][t]

\* A place in that list; an entry was found where it is waited for.
PlaceOK(s, t, th) == /\ th \in Place(s, t) /\ th.at \in 1..Len(List(s, t, th))
                     /\ th.pc = "wait" => th.entry # 0

\* Every thread is at a place.
ThreadType == /\ thread = [s \in Side |-> [t \in Thread(s) |-> thread[s][t]]]
              /\ \A s \in Side : \A t \in Thread(s) : PlaceOK(s, t, thread[s][t])

\* The channels of a side, one by one, in the list, in sockets and in stop.
EndType == /\ channels = [s \in Side |-> channels[s]]
           /\ \A s \in Side : channels[s] \subseteq Channel(s)
           /\ socket = [s \in Side |-> socket[s]]
           /\ \A s \in Side : socket[s] \in [Channel(s) -> Connection \cup {NoSocket}]
           /\ look = [s \in Side |-> look[s]]
           /\ \A s \in Side : look[s] \in Channel(s) \cup {NoSocket}
           /\ main \in [Side -> {"running", "stopping", "looking", "stopped"}]
           /\ stopped \in [Side -> BOOLEAN] /\ done \in [Side -> BOOLEAN] /\ crashed \in [Side -> BOOLEAN]

\* Where a handler can be.
HandlerSteps == {"none", "header", "body", "cut", "insert", "lookup", "set", "done"}

\* What is shared: connections, the acceptor's handlers and its map.
AcceptorType ==
    /\ conn \in [Connection -> {"none", "connected", "named", "dead"}]
    /\ handler \in [Connection -> [pc : HandlerSteps, entry : 0..MaxEntries, tag : Tag]]
    /\ \A c \in Connection : handler[c].pc = "set" => handler[c].entry # 0
    /\ entries \in [Tag -> 0..MaxEntries]
    /\ promise \in [Tag -> [1..MaxEntries -> Connection \cup {NoSocket}]]
    /\ acceptor \in {"off", "listening", "gone"}

\* The three together.
TypeInv == ThreadType /\ EndType /\ AcceptorType

\* The channel at place k of its thread's list has its socket.
Past(th)      == th.pc \in {"use", "done"}
Has(th, k)    == Past(th) \/ k < th.at
\* ... or its thread is at th.pc with it.
Now(th, k, P) == k = th.at /\ th.pc \in P

\* Entries that the host's thread, and the handler, have added to a tag at most.
HostPart(th, k) == IF Has(th, k) \/ Now(th, k, {"wait"}) THEN 2
                   ELSE IF Now(th, k, {"lookup"}) THEN 1 ELSE 0
HandlerPart(c)  == IF handler[c].pc \in {"set", "done"} THEN 2
                   ELSE IF handler[c].pc = "lookup" THEN 1 ELSE 0

\* Nobody else adds to it.
EntryInv == \A t \in Thread("host") : \A k \in DOMAIN Opens["host"][t] :
    LET tag == Opens["host"][t][k] IN
    entries[tag] <= HostPart(thread["host"][t], k) + HandlerPart(Mirror(tag))

\* No client dies, and all names arrive.
Whole == MayDie = {} /\ MayShorten = {}

\* Then a handler looks for the tag of its own connection.
WholeInv == \A c \in Connection :
    /\ conn[c] # "dead" /\ handler[c].pc # "cut"
    /\ handler[c].pc \in {"insert", "lookup", "set"} => handler[c].tag = Mirror(c)

\* Connections are made in the order of the client's lists.
ConnInv == \A t \in Thread("client") : \A k \in DOMAIN Opens["client"][t] :
    LET th == thread["client"][t] IN
    ~Has(th, k) /\ ~Now(th, k, {"names"}) => conn[Opens["client"][t][k]] = "none"

\* A socket goes from the connection with the right names to the promise and from there to the
\* channel, and the handler is done then.
PairInv ==
    /\ \A c \in Connection :
        handler[c].pc \in {"body", "insert", "lookup", "set", "done"} => conn[c] = "named"
    /\ \A ch \in Channel("host") :
        /\ \A e \in 1..MaxEntries : promise[ch][e] # NoSocket =>
              promise[ch][e] = Mirror(ch) /\ handler[Mirror(ch)].pc = "done"
        /\ socket["host"][ch] # NoSocket =>
              socket["host"][ch] = Mirror(ch) /\ handler[Mirror(ch)].pc = "done"

\* The promise stop waits for, and what stop has seen.
StopInv == \A s \in Side :
    /\ done[s] <=> stopped[s] /\ channels[s] = {}
    /\ stopped[s] <=> main[s] # "running"
    /\ main[s] = "stopped" => done[s]

\* What was added has its socket.
GotInv == \A s \in Side : \A t \in Thread(s) : \A k \in DOMAIN Opens[s][t] :
    Has(thread[s][t], k) \/ Now(thread[s][t], k, {"names"}) => socket[s][Opens[s][t][k]] # NoSocket

\* A program that does not stop at any time stops when all was added; the service stops last.
LateInv ==
    /\ \A s \in Side : StopWhen[s] # "any" /\ main[s] # "running" => \A t \in Thread(s) : Past(thread[s][t])
    /\ acceptor = "gone" => main["host"] = "stopped"

\* Each thread closes what it added, the program stops after that was added and waits, and all
\* names arrive.
Polite == /\ \A s \in Side : \A t \in Thread(s) : ToSet(Closes[s][t]) \subseteq ToSet(Opens[s][t])
          /\ \A s \in Side : StopWhen[s] # "any"
          /\ Patience /\ Whole

\* Where the list has its thread's channels: those it is to close, or those it added.
Listed(s, t, th, list) ==
    /\ th.pc = "use" => \A k \in DOMAIN Closes[s][t] : k >= th.at => Closes[s][t][k] \in list
    /\ ~Past(th) => \A k \in DOMAIN Opens[s][t] :
          k < th.at \/ (k = th.at /\ th.pc # "add") => Opens[s][t][k] \in list

\* Under these conditions a thread finds what it closes in the list, and stop need not look.
ListInv == \A s \in Side : /\ main[s] # "looking"
                           /\ \A t \in Thread(s) : Listed(s, t, thread[s][t], channels[s])

-----------------------------------------------------------------------------
(* Constants. *)

\* What the assumption says of lists and names.
LEMMA Lists ==
    ASSUME EndpointAssumption, NEW s \in Side, NEW t \in Thread(s)
    PROVE  /\ Opens[s][t] \in Seq(Channel(s)) /\ Closes[s][t] \in Seq(Channel(s)) /\ Closes[s][t] # <<>>
           /\ \A k \in DOMAIN Opens[s][t] : Opens[s][t][k] \in Channel(s)
           /\ \A k \in DOMAIN Closes[s][t] : Closes[s][t][k] \in Channel(s)
  <1>1. /\ Opens[s][t] \in Seq(Channel(s)) /\ Closes[s][t] \in Seq(Channel(s)) /\ Closes[s][t] # <<>>
    BY DEF EndpointAssumption
  <1> QED BY <1>1

\* A channel is in one place of one list.
LEMMA OnePlace ==
    ASSUME EndpointAssumption, NEW s \in Side, NEW t \in Thread(s), NEW u \in Thread(s)
    PROVE  /\ \A k \in DOMAIN Opens[s][t], j \in DOMAIN Opens[s][u] :
                Opens[s][t][k] = Opens[s][u][j] => t = u /\ k = j
           /\ \A k \in DOMAIN Closes[s][t], j \in DOMAIN Closes[s][u] :
                Closes[s][t][k] = Closes[s][u][j] => t = u /\ k = j
  <1>1. /\ IsInjective(Opens[s][t]) /\ IsInjective(Closes[s][t])
        /\ t # u => /\ ToSet(Opens[s][t]) \cap ToSet(Opens[s][u]) = {}
                    /\ ToSet(Closes[s][t]) \cap ToSet(Closes[s][u]) = {}
    BY DEF EndpointAssumption
  <1> QED BY <1>1 DEF IsInjective, ToSet

\* Every channel is in one.
LEMMA SomePlace ==
    ASSUME NEW s \in Side, NEW ch \in Channel(s)
    PROVE  \E t \in Thread(s) : \E k \in DOMAIN Opens[s][t] : Opens[s][t][k] = ch
  BY DEF Channel, ToSet

\* The names of the two ends mirror each other.
LEMMA Mirrors ==
    ASSUME EndpointAssumption
    PROVE  /\ \A c \in Connection : Mirror(c) \in Channel("host") /\ Mirror(Mirror(c)) = c
           /\ \A ch \in Channel("host") : Mirror(ch) \in Connection /\ Mirror(Mirror(ch)) = ch
           /\ NoSocket \notin Connection
  <1>1. /\ \A c \in Connection : Mirror(Mirror(c)) = c
        /\ Channel("host") = {Mirror(c) : c \in Connection}
    BY DEF EndpointAssumption
  <1>2. \A c : Len(Mirror(Mirror(c))) = 2
    BY DEF Mirror
  <1>3. Len(NoSocket) = 0
    BY DEF NoSocket
  <1> QED BY <1>1, <1>2, <1>3

-----------------------------------------------------------------------------
(* Threads. *)

\* The thread goes to th, and no other moves.
Moves(s, t, th) == thread' = [thread EXCEPT ![s][t] = th]

\* Where a thread goes when addChannel returns, and when a channel is closed.
NextPlace(s, t) == LET th == thread[s][t] IN
    IF th.at < Len(Opens[s][t]) THEN [pc |-> "add", at |-> th.at + 1, entry |-> 0]
                                ELSE [pc |-> "use", at |-> 1, entry |-> 0]
ClosedPlace(s, t) == LET th == thread[s][t] IN
    IF th.at < Len(Closes[s][t]) THEN [pc |-> "use", at |-> th.at + 1, entry |-> 0]
                                 ELSE [pc |-> "done", at |-> th.at, entry |-> 0]

\* One thread moves.
LEMMA MoveFacts ==
    ASSUME ThreadType, NEW s \in Side, NEW t \in Thread(s), NEW th, Moves(s, t, th)
    PROVE  /\ thread'[s][t] = th
           /\ \A u \in Side : \A v \in Thread(u) : u # s \/ v # t => thread'[u][v] = thread[u][v]
           /\ PlaceOK(s, t, th) => ThreadType'
  <1>1. /\ DOMAIN thread = Side
        /\ \A u \in Side : DOMAIN thread[u] = Thread(u)
        /\ \A u \in Side : thread[u] = [v \in Thread(u) |-> thread[u][v]]
    BY DEF ThreadType
  <1>2. thread' = [u \in Side |-> IF u = s THEN [thread[s] EXCEPT ![t] = th] ELSE thread[u]]
    BY <1>1 DEF Moves
  <1>3. [thread[s] EXCEPT ![t] = th] = [v \in Thread(s) |-> IF v = t THEN th ELSE thread[s][v]]
    BY <1>1
  <1>4. /\ thread'[s][t] = th
        /\ \A u \in Side : \A v \in Thread(u) : u # s \/ v # t => thread'[u][v] = thread[u][v]
    BY <1>2, <1>3
  <1>5. \A u \in Side : thread'[u] = [v \in Thread(u) |-> thread'[u][v]]
    BY <1>1, <1>2, <1>3
  <1>6. thread' = [u \in Side |-> [v \in Thread(u) |-> thread'[u][v]]]
    BY <1>2, <1>5
  <1>7. ASSUME PlaceOK(s, t, th)
        PROVE  \A u \in Side : \A v \in Thread(u) : PlaceOK(u, v, thread'[u][v])
    BY <1>4, <1>7 DEF ThreadType
  <1> QED BY <1>4, <1>6, <1>7 DEF ThreadType, PlaceOK, Place, List

\* The moves of the actions, as such.
LEMMA ActionMoves ==
    ASSUME ThreadType, NEW s \in Side, NEW t \in Thread(s)
    PROVE  /\ \A pc : Go(s, t, pc) => Moves(s, t, [thread[s][t] EXCEPT !.pc = pc])
           /\ Returned(s, t) => Moves(s, t, NextPlace(s, t))
  BY DEF Go, Returned, Moves, NextPlace, ThreadType

\* They are moves from places to places.
LEMMA PlaceFacts ==
    ASSUME EndpointAssumption, NEW s \in Side, NEW t \in Thread(s), PlaceOK(s, t, thread[s][t])
    PROVE  LET th == thread[s][t] IN
           /\ \A pc \in Steps(s) \ {"use", "done", "wait"} : ~Past(th) => PlaceOK(s, t, [th EXCEPT !.pc = pc])
           /\ ~Past(th) => PlaceOK(s, t, NextPlace(s, t))
           /\ th.pc = "use" => PlaceOK(s, t, ClosedPlace(s, t))
  <1> DEFINE th == thread[s][t]
  <1>1. /\ Opens[s][t] \in Seq(Channel(s)) /\ Closes[s][t] \in Seq(Channel(s)) /\ Len(Closes[s][t]) >= 1
    BY Lists
  <1>2. /\ th \in Place(s, t) /\ th.at \in 1..Len(List(s, t, th))
    BY DEF PlaceOK
  <1>3. \A pc \in Steps(s) \ {"use", "done", "wait"} : ~Past(th) => PlaceOK(s, t, [th EXCEPT !.pc = pc])
    BY <1>2 DEF PlaceOK, Place, List, Past
  <1>4. ~Past(th) => PlaceOK(s, t, NextPlace(s, t))
    <2>1. CASE th.at < Len(Opens[s][t])
      <3>1. NextPlace(s, t) = [pc |-> "add", at |-> th.at + 1, entry |-> 0]
        BY <2>1 DEF NextPlace
      <3> QED BY <1>1, <1>2, <2>1, <3>1 DEF PlaceOK, Place, List, Past, Steps, MaxEntries
    <2>2. CASE ~(th.at < Len(Opens[s][t]))
      <3>1. NextPlace(s, t) = [pc |-> "use", at |-> 1, entry |-> 0]
        BY <2>2 DEF NextPlace
      <3> QED BY <1>1, <3>1 DEF PlaceOK, Place, List, Steps, MaxEntries
    <2> QED BY <2>1, <2>2
  <1>5. th.pc = "use" => PlaceOK(s, t, ClosedPlace(s, t))
    BY <1>1, <1>2 DEF PlaceOK, Place, List, ClosedPlace, Steps, MaxEntries
  <1> QED BY <1>3, <1>4, <1>5

-----------------------------------------------------------------------------
(* Types. *)

\* addChannel.
LEMMA AddingTypes ==
    ASSUME EndpointAssumption, TypeInv, NEW s \in Side, NEW t \in Thread(s), Add(s, t)
    PROVE  TypeInv'
  <1> DEFINE th == thread[s][t]
  <1>1. th.pc = "add" /\ PlaceOK(s, t, th)
    BY DEF Add, At, TypeInv, ThreadType
  <1>2. CASE stopped[s]
    <2>1. UNCHANGED <<thread, channels, socket, ends, conn, handler, map, acceptor>>
          /\ crashed' = [crashed EXCEPT ![s] = TRUE]
      BY <1>2 DEF Add, Crash
    <2> QED BY <2>1 DEF TypeInv, ThreadType, EndType, AcceptorType, ends, map
  <1>3. CASE ~stopped[s]
    <2>1. /\ Moves(s, t, [th EXCEPT !.pc = AfterAdd[s]])
          /\ channels' = [channels EXCEPT ![s] = @ \cup {Current(s, t)}]
          /\ UNCHANGED <<socket, ends, conn, handler, map, acceptor, crashed>>
      BY <1>3, ActionMoves DEF Add, TypeInv
    <2>2. AfterAdd[s] \in Steps(s) \ {"use", "done", "wait"}
      BY DEF AfterAdd, Steps, Side
    <2>3. ThreadType'
      BY <1>1, <2>1, <2>2, PlaceFacts, MoveFacts DEF TypeInv, Past
    <2>4. Current(s, t) \in Channel(s)
      BY <1>1, Lists DEF Current, PlaceOK, List
    <2>5. EndType'
      BY <2>1, <2>4 DEF TypeInv, EndType, ends
    <2> QED BY <2>1, <2>3, <2>5 DEF TypeInv, AcceptorType, map
  <1> QED BY <1>2, <1>3

\* The client's part of it.
LEMMA ClientTypes ==
    ASSUME EndpointAssumption, TypeInv, NEW t \in Thread("client"), ClientStep(t)
    PROVE  TypeInv'
  <1> DEFINE th == thread["client"][t]
             c  == Current("client", t)
  <1>1. PlaceOK("client", t, th) /\ th.pc \in {"connect", "names"}
    BY DEF ClientStep, Connect, SendNames, At, TypeInv, ThreadType, Side
  <1>2. c \in Connection
    BY <1>1, Lists DEF Current, PlaceOK, List, Side, Connection
  <1>3. CASE Connect(t)
    <2>1. Moves("client", t, [th EXCEPT !.pc = "names"])
      BY <1>3, ActionMoves DEF Connect, TypeInv, Side
    <2>2. ThreadType'
      BY <1>1, <2>1, PlaceFacts, MoveFacts DEF TypeInv, Past, Side, Steps
    <2>3. EndType'
      BY <1>2, <1>3 DEF Connect, TypeInv, EndType, ends, Connection
    <2> QED BY <1>2, <1>3, <2>2, <2>3 DEF Connect, TypeInv, AcceptorType, map
  <1>4. CASE SendNames(t)
    <2>1. Moves("client", t, NextPlace("client", t))
      BY <1>4, ActionMoves DEF SendNames, TypeInv, Side
    <2>2. ThreadType'
      BY <1>1, <2>1, PlaceFacts, MoveFacts DEF TypeInv, Past, Side
    <2> QED BY <1>2, <1>4, <2>2 DEF SendNames, TypeInv, EndType, AcceptorType, ends, map
  <1> QED BY <1>3, <1>4 DEF ClientStep

\* emplace and operator[] add one entry at most.
LEMMA EntriesAdded ==
    ASSUME AcceptorType, NEW tag \in Tag
    PROVE  /\ Emplace(tag) => entries' \in [Tag -> 0..MaxEntries]
           /\ \A e : Lookup(tag, e) => entries' \in [Tag -> 0..MaxEntries]
  BY DEF AcceptorType, Emplace, Lookup, MaxEntries

\* The host's part of it.
LEMMA HostTypes ==
    ASSUME EndpointAssumption, TypeInv, NEW t \in Thread("host"), HostStep(t)
    PROVE  TypeInv'
  <1> DEFINE th == thread["host"][t]
             ch == Current("host", t)
  <1>1. PlaceOK("host", t, th) /\ th.pc \in {"find", "insert", "lookup", "wait"}
    BY DEF HostStep, HostFind, HostInsert, HostLookup, HostGet, At, TypeInv, ThreadType, Side
  <1>2. ch \in Channel("host") /\ ch \in Tag
    BY <1>1, Lists DEF Current, PlaceOK, List, Side, Tag
  <1>3. \A pc \in Steps("host") \ {"use", "done", "wait"} : PlaceOK("host", t, [th EXCEPT !.pc = pc])
    BY <1>1, PlaceFacts DEF Side, Past
  <1>4. CASE HostFind(t)
    <2>1. Moves("host", t, [th EXCEPT !.pc = AfterFind(ch)]) /\ AfterFind(ch) \in Steps("host") \ {"use", "done", "wait"}
      BY <1>4, ActionMoves DEF HostFind, TypeInv, Side, AfterFind, Steps
    <2>2. ThreadType'
      BY <1>3, <2>1, MoveFacts DEF TypeInv, Side
    <2> QED BY <1>4, <2>2 DEF HostFind, TypeInv, EndType, AcceptorType, ends, map
  <1>5. CASE HostInsert(t)
    <2>1. Moves("host", t, [th EXCEPT !.pc = "lookup"])
      BY <1>5, ActionMoves DEF HostInsert, TypeInv, Side
    <2>2. ThreadType'
      BY <1>3, <2>1, MoveFacts DEF TypeInv, Side, Steps
    <2>3. entries' \in [Tag -> 0..MaxEntries]
      BY <1>2, <1>5, EntriesAdded DEF HostInsert, TypeInv
    <2> QED BY <1>5, <2>2, <2>3 DEF HostInsert, TypeInv, EndType, AcceptorType, ends
  <1>6. CASE HostLookup(t)
    <2>1. PICK e \in 1..MaxEntries : Lookup(ch, e)
            /\ Moves("host", t, [pc |-> "wait", at |-> th.at, entry |-> e])
      BY <1>6 DEF HostLookup, Moves, TypeInv, ThreadType
    <2>2. PlaceOK("host", t, [pc |-> "wait", at |-> th.at, entry |-> e])
      BY <1>1 DEF PlaceOK, Place, List, Steps
    <2>3. ThreadType'
      BY <2>1, <2>2, MoveFacts DEF TypeInv, Side
    <2>4. entries' \in [Tag -> 0..MaxEntries]
      BY <1>2, <2>1, EntriesAdded DEF TypeInv
    <2> QED BY <1>6, <2>3, <2>4 DEF HostLookup, TypeInv, EndType, AcceptorType, ends
  <1>7. CASE HostGet(t)
    <2>1. Moves("host", t, NextPlace("host", t))
      BY <1>7, ActionMoves DEF HostGet, TypeInv, Side
    <2>2. ThreadType'
      BY <1>1, <2>1, PlaceFacts, MoveFacts DEF TypeInv, Past, Side
    <2>3. promise[ch][th.entry] \in Connection
      <3>1. Fulfilled(ch, th.entry)
        BY <1>7 DEF HostGet
      <3>2. th.entry \in 1..MaxEntries
        BY <1>1, <1>7 DEF PlaceOK, Place, HostGet, At
      <3>3. promise[ch] \in [1..MaxEntries -> Connection \cup {NoSocket}]
        BY <1>2 DEF TypeInv, AcceptorType
      <3> QED BY <3>1, <3>2, <3>3 DEF Fulfilled
    <2>4. EndType'
      BY <1>2, <1>7, <2>3 DEF HostGet, TypeInv, EndType, ends, Side
    <2> QED BY <1>7, <2>2, <2>4 DEF HostGet, TypeInv, AcceptorType, map
  <1> QED BY <1>4, <1>5, <1>6, <1>7 DEF HostStep

\* The acceptor's handlers.
LEMMA HandlerTypes ==
    ASSUME EndpointAssumption, TypeInv, NEW c \in Connection, HandlerStep(c)
    PROVE  TypeInv'
  <1> DEFINE tag == handler[c].tag
             Handlers(h) == /\ h \in [Connection -> [pc : HandlerSteps, entry : 0..MaxEntries, tag : Tag]]
                            /\ \A d \in Connection : h[d].pc = "set" => h[d].entry # 0
  <1>1. tag \in Tag /\ TagOf(c) \in Tag /\ Handlers(handler)
    BY Mirrors DEF TagOf, Tag, TypeInv, AcceptorType
  <1>2. UNCHANGED <<thread, channels, socket, ends>>
    BY DEF HandlerStep, Accept, Header, Body, Cut, Find, HandlerInsert, HandlerLookup, HandlerSet, Crash
  <1>3. ThreadType' /\ crashed' \in [Side -> BOOLEAN]
    <2>1. UNCHANGED crashed \/ crashed' = [crashed EXCEPT !["host"] = TRUE]
      BY DEF HandlerStep, Accept, Header, Body, Cut, Find, HandlerInsert, HandlerLookup, HandlerSet, Crash
    <2>2. crashed' \in [Side -> BOOLEAN]
      BY <2>1 DEF TypeInv, EndType
    <2> QED BY <1>2, <2>2 DEF TypeInv, ThreadType
  <1>4. EndType'
    BY <1>2, <1>3 DEF TypeInv, EndType, ends
  <1>5. \A pc \in HandlerSteps \ {"set"} : Handle(c, pc) => Handlers(handler')
    BY <1>1 DEF Handle
  <1>6. CASE Accept(c) \/ Header(c)
    <2>1. \E pc \in HandlerSteps \ {"set"} : Handle(c, pc)
      BY <1>6 DEF Accept, Header, HandlerSteps
    <2>2. UNCHANGED <<conn, map, acceptor>>
      BY <1>6 DEF Accept, Header
    <2>3. AcceptorType'
      BY <1>5, <2>1, <2>2 DEF TypeInv, AcceptorType, map
    <2> QED BY <1>3, <1>4, <2>3 DEF TypeInv
  <1>7. CASE Body(c) \/ Cut(c)
    <2>1. Crash("host") \/ \E g \in Tag : Find(c, g)
      BY <1>1, <1>7 DEF Body, Cut
    <2>2. CASE Crash("host")
      BY <1>3, <1>4, <2>2 DEF Crash, TypeInv, AcceptorType, map
    <2>3. ASSUME NEW g \in Tag, Find(c, g)
          PROVE  AcceptorType'
      <3>1. AfterFind(g) \in HandlerSteps \ {"set"} /\ 0 \in 0..MaxEntries
        BY DEF AfterFind, HandlerSteps, MaxEntries
      <3>2. /\ handler' = [handler EXCEPT ![c] = [pc |-> AfterFind(g), entry |-> 0, tag |-> g]]
            /\ UNCHANGED <<conn, map, acceptor>>
        BY <2>3 DEF Find
      <3>3. Handlers(handler')
        BY <1>1, <3>1, <3>2
      <3> QED BY <3>2, <3>3 DEF TypeInv, AcceptorType, map
    <2> QED BY <1>3, <1>4, <2>1, <2>2, <2>3 DEF TypeInv
  <1>8. CASE HandlerInsert(c)
    <2>1. Handle(c, "lookup") /\ Emplace(tag) /\ UNCHANGED <<conn, promise, acceptor>>
      BY <1>8 DEF HandlerInsert
    <2>2. entries' \in [Tag -> 0..MaxEntries]
      BY <1>1, <2>1, EntriesAdded DEF TypeInv
    <2>3. AcceptorType'
      BY <1>5, <2>1, <2>2 DEF TypeInv, AcceptorType, HandlerSteps
    <2> QED BY <1>3, <1>4, <2>3 DEF TypeInv
  <1>9. CASE HandlerLookup(c)
    <2>1. PICK e \in 1..MaxEntries :
              /\ Lookup(tag, e)
              /\ handler' = [handler EXCEPT ![c] = [pc |-> "set", entry |-> e, tag |-> @.tag]]
      BY <1>9 DEF HandlerLookup
    <2>2. UNCHANGED <<conn, promise, acceptor>>
      BY <1>9 DEF HandlerLookup
    <2>3. entries' \in [Tag -> 0..MaxEntries]
      BY <1>1, <2>1, EntriesAdded DEF TypeInv
    <2>4. Handlers(handler')
      BY <1>1, <2>1 DEF HandlerSteps
    <2> QED BY <1>3, <1>4, <2>2, <2>3, <2>4 DEF TypeInv, AcceptorType
  <1>10. CASE HandlerSet(c)
    <2>1. CASE promise[tag][handler[c].entry] # NoSocket
      BY <1>3, <1>4, <1>10, <2>1 DEF HandlerSet, Crash, TypeInv, AcceptorType, map
    <2>2. CASE promise[tag][handler[c].entry] = NoSocket
      <3>1. /\ promise' = [promise EXCEPT ![tag][handler[c].entry] = c]
            /\ Handle(c, "done") /\ UNCHANGED <<conn, entries, acceptor>>
        BY <1>10, <2>2 DEF HandlerSet
      <3>2. promise' \in [Tag -> [1..MaxEntries -> Connection \cup {NoSocket}]]
        BY <1>1, <3>1 DEF TypeInv, AcceptorType
      <3> QED BY <1>3, <1>4, <1>5, <3>1, <3>2 DEF TypeInv, AcceptorType, HandlerSteps
    <2> QED BY <2>1, <2>2
  <1> QED BY <1>6, <1>7, <1>8, <1>9, <1>10 DEF HandlerStep

\* Closing a channel.
LEMMA ClosingTypes ==
    ASSUME EndpointAssumption, TypeInv, NEW s \in Side, NEW t \in Thread(s), Close(s, t)
    PROVE  TypeInv'
  <1> DEFINE th == thread[s][t]
             ch == Closes[s][t][th.at]
             left == channels[s] \ {ch}
  <1>1. th.pc = "use" /\ PlaceOK(s, t, th)
    BY DEF Close, At, TypeInv, ThreadType
  <1>2. CASE Crash(s)
    BY <1>2 DEF Crash, TypeInv, ThreadType, EndType, AcceptorType, ends, map
  <1>3. CASE ~Crash(s)
    <2>1. /\ Moves(s, t, ClosedPlace(s, t))
          /\ channels' = [channels EXCEPT ![s] = left]
          /\ done' = [done EXCEPT ![s] = @ \/ Signals(s, left)]
          /\ UNCHANGED <<socket, stopped, main, look, conn, handler, map, acceptor, crashed>>
      BY <1>3 DEF Close, Moves, ClosedPlace, TypeInv, ThreadType
    <2>2. ThreadType'
      BY <1>1, <2>1, PlaceFacts, MoveFacts DEF TypeInv
    <2>3. EndType'
      BY <2>1 DEF TypeInv, EndType, Signals
    <2> QED BY <2>1, <2>2, <2>3 DEF TypeInv, AcceptorType, map
  <1> QED BY <1>2, <1>3

\* Stopping, and what ends the rest.
LEMMA EndingTypes ==
    ASSUME EndpointAssumption, TypeInv,
           \/ Listen \/ IosStop
           \/ \E s \in Side : EndStep(s) \/ Look(s) \/ Read(s)
           \/ \E c \in Connection : Die(c)
    PROVE  TypeInv'
  <1>1. CASE Listen \/ IosStop
    BY <1>1 DEF Listen, Bind, IosStop, StopAccepting, TypeInv, ThreadType, EndType, AcceptorType, ends, map
  <1>2. ASSUME NEW s \in Side, Stop(s)
        PROVE  TypeInv'
    <2>1. CASE Crash(s)
      BY <2>1 DEF Crash, TypeInv, ThreadType, EndType, AcceptorType, ends, map
    <2>2. CASE ~Crash(s)
      <3>1. EndType'
        BY <1>2, <2>2 DEF Stop, TypeInv, EndType
      <3> QED BY <1>2, <2>2, <3>1 DEF Stop, TypeInv, ThreadType, AcceptorType, map
    <2> QED BY <2>1, <2>2
  <1>3. ASSUME NEW s \in Side, StopReturns(s)
        PROVE  TypeInv'
    <2>1. EndType'
      BY <1>3 DEF StopReturns, TypeInv, EndType
    <2> QED BY <1>3, <2>1 DEF StopReturns, TypeInv, ThreadType, AcceptorType, map
  <1>4. ASSUME NEW s \in Side, Look(s)
        PROVE  TypeInv'
    <2>1. EndType'
      BY <1>4 DEF Look, TypeInv, EndType
    <2> QED BY <1>4, <2>1 DEF Look, TypeInv, ThreadType, AcceptorType, map
  <1>5. ASSUME NEW s \in Side, Read(s)
        PROVE  TypeInv'
    <2>1. CASE Crash(s)
      BY <2>1 DEF Crash, TypeInv, ThreadType, EndType, AcceptorType, ends, map
    <2>2. CASE ~Crash(s)
      <3>1. EndType'
        BY <1>5, <2>2 DEF Read, TypeInv, EndType
      <3> QED BY <1>5, <2>2, <3>1 DEF Read, TypeInv, ThreadType, AcceptorType, map
    <2> QED BY <2>1, <2>2
  <1>6. ASSUME NEW c \in Connection, Die(c)
        PROVE  TypeInv'
    BY <1>6 DEF Die, TypeInv, ThreadType, EndType, AcceptorType, ends, map, Side
  <1> QED BY <1>1, <1>2, <1>3, <1>4, <1>5, <1>6 DEF EndStep

\* At first threads add their channels, and nothing else has happened.
LEMMA InitTypes ==
    ASSUME EndpointAssumption, Init
    PROVE  TypeInv
  <1>1. ThreadType
    <2>1. \A s \in Side : \A t \in Thread(s) : thread[s][t] = Start(s, t)
      BY DEF Init
    <2>2. ASSUME NEW s \in Side, NEW t \in Thread(s)
          PROVE  PlaceOK(s, t, Start(s, t))
      <3>1. Opens[s][t] \in Seq(Channel(s)) /\ Len(Closes[s][t]) >= 1
        BY Lists
      <3> QED BY <3>1 DEF PlaceOK, Place, List, Start, Steps, MaxEntries
    <2> QED BY <2>1, <2>2 DEF Init, ThreadType
  <1>2. EndType
    BY DEF Init, EndType
  <1>3. AcceptorType
    BY DEF Init, NewAcceptor, NewIOService, AcceptorType, MaxEntries, HandlerSteps, Tag
  <1> QED BY <1>1, <1>2, <1>3 DEF TypeInv

\* Every step keeps the types.
LEMMA StepTypes ==
    ASSUME EndpointAssumption, TypeInv, [Next]_vars
    PROVE  TypeInv'
  <1>1. CASE UNCHANGED vars
    BY <1>1 DEF vars, map, ends, TypeInv, ThreadType, EndType, AcceptorType
  <1>2. CASE Next
    BY <1>2, AddingTypes, ClientTypes, HostTypes, HandlerTypes, ClosingTypes, EndingTypes DEF Next
  <1> QED BY <1>1, <1>2

-----------------------------------------------------------------------------
(* What a step does to each thread. *)

\* The steps that move a thread.
ThreadStep(s, t) == \/ Add(s, t) \/ Close(s, t)
                    \/ s = "client" /\ ClientStep(t)
                    \/ s = "host" /\ HostStep(t)

\* Where it goes.
Goes(s, t, p) == LET th == thread[s][t] IN
    \/ th.pc = "add" /\ p = [th EXCEPT !.pc = AfterAdd[s]]
    \/ th.pc = "use" /\ p = ClosedPlace(s, t)
    \/ th.pc = "connect" /\ p = [th EXCEPT !.pc = "names"]
    \/ th.pc \in {"names", "wait"} /\ p = NextPlace(s, t)
    \/ th.pc \in {"find", "insert"} /\ \E pc \in {"insert", "lookup"} : p = [th EXCEPT !.pc = pc]
    \/ th.pc = "lookup" /\ \E e \in 1..MaxEntries : p = [pc |-> "wait", at |-> th.at, entry |-> e]

\* A step of a thread is a move of that thread, or it crashes the program.
LEMMA StepMoves ==
    ASSUME ThreadType, NEW s \in Side, NEW t \in Thread(s), ThreadStep(s, t)
    PROVE  UNCHANGED thread \/ \E p : Goes(s, t, p) /\ Moves(s, t, p)
  <1>1. CASE Add(s, t)
    BY <1>1, ActionMoves DEF Add, At, Crash, Goes
  <1>2. CASE Close(s, t)
    <2>1. UNCHANGED thread \/ Moves(s, t, ClosedPlace(s, t))
      BY <1>2 DEF Close, Crash, Moves, ClosedPlace, ThreadType
    <2>2. Goes(s, t, ClosedPlace(s, t))
      BY <1>2 DEF Close, At, Goes
    <2> QED BY <2>1, <2>2
  <1>3. CASE s = "client" /\ ClientStep(t)
    BY <1>3, ActionMoves DEF ClientStep, Connect, SendNames, At, Goes
  <1>4. CASE s = "host" /\ (HostFind(t) \/ HostInsert(t) \/ HostGet(t))
    BY <1>4, ActionMoves DEF HostFind, HostInsert, HostGet, At, AfterFind, Goes
  <1>5. CASE s = "host" /\ HostLookup(t)
    BY <1>5 DEF HostLookup, At, Moves, ThreadType, Goes
  <1> QED BY <1>1, <1>2, <1>3, <1>4, <1>5 DEF ThreadStep, HostStep

\* A thread stays where it is unless it steps.
LEMMA OthersStay ==
    ASSUME ThreadType, [Next]_vars, NEW s \in Side, NEW t \in Thread(s), thread'[s][t] # thread[s][t]
    PROVE  ThreadStep(s, t)
  <1>1. \E u \in Side : \E v \in Thread(u) : ThreadStep(u, v)
    <2>1. thread' # thread
      OBVIOUS
    <2> QED BY <2>1 DEF vars, Next, EndStep, Stop, StopReturns, Look, Read, Crash, Listen, IosStop, Die,
                      HandlerStep, Accept, Header, Body, Cut, Find, HandlerInsert, HandlerLookup, HandlerSet,
                      ThreadStep, Side
  <1>2. PICK u \in Side : \E v \in Thread(u) : ThreadStep(u, v)
    BY <1>1
  <1>3. PICK v \in Thread(u) : ThreadStep(u, v)
    BY <1>2
  <1>4. \E th : Moves(u, v, th)
    BY <1>3, StepMoves
  <1>5. u = s /\ v = t
    BY <1>4, MoveFacts
  <1> QED BY <1>3, <1>5

\* Threads only go on, and the entries they may have added only grow.
LEMMA GoingOn ==
    ASSUME EndpointAssumption, ThreadType, [Next]_vars, NEW s \in Side, NEW t \in Thread(s)
    PROVE  LET th == thread[s][t]  nx == thread'[s][t] IN
           /\ Past(th) => Past(nx)
           /\ \A k \in Nat : /\ Has(th, k) => Has(nx, k)
                             /\ HostPart(th, k) <= HostPart(nx, k)
                             /\ Now(th, k, {"names"}) => Has(nx, k) \/ Now(nx, k, {"names"})
  <1> DEFINE th == thread[s][t]
             nx == thread'[s][t]
  <1>1. PlaceOK(s, t, th) /\ th.at \in Nat
    BY DEF ThreadType, PlaceOK, Place
  <1>2. nx = th \/ ThreadStep(s, t)
    BY OthersStay
  <1>3. CASE nx = th
    BY <1>3 DEF HostPart
  <1>4. CASE ThreadStep(s, t) /\ nx # th
    <2>1. Goes(s, t, nx)
      BY <1>4, StepMoves, MoveFacts
    <2>2. th \in Place(s, t) /\ AfterAdd[s] \in {"find", "connect"}
      BY <1>1 DEF PlaceOK, AfterAdd, Side
    <2>3. CASE th.pc = "add" /\ nx = [th EXCEPT !.pc = AfterAdd[s]]
      BY <1>1, <2>2, <2>3 DEF Past, Has, HostPart, Now, Place
    <2>4. CASE th.pc = "use" /\ nx = ClosedPlace(s, t)
      BY <2>4 DEF Past, Has, HostPart, Now, ClosedPlace
    <2>5. CASE th.pc = "connect" /\ nx = [th EXCEPT !.pc = "names"]
      BY <1>1, <2>2, <2>5 DEF Past, Has, HostPart, Now, Place
    <2>6. CASE th.pc \in {"names", "wait"} /\ nx = NextPlace(s, t)
      <3>1. \A k \in Nat : k <= th.at => Has(nx, k)
        BY <1>1, <2>6 DEF NextPlace, Has, Past
      <3>2. ~Past(th) /\ \A k \in Nat : HostPart(nx, k) \in 0..2
        BY <2>6 DEF Past, HostPart
      <3>3. \A k \in Nat : k > th.at => ~Has(th, k) /\ HostPart(th, k) = 0
        BY <1>1, <3>2 DEF Has, HostPart, Now
      <3>4. \A k \in Nat : k <= th.at => HostPart(nx, k) = 2 /\ HostPart(th, k) \in 0..2
        BY <3>1 DEF HostPart
      <3> HIDE DEF th, nx
      <3>5. \A k \in Nat : HostPart(th, k) <= HostPart(nx, k)
        BY <1>1, <3>2, <3>3, <3>4
      <3>6. \A k \in Nat : Has(th, k) \/ Now(th, k, {"names"}) => k <= th.at
        BY <1>1, <3>3 DEF Now
      <3> QED BY <3>1, <3>2, <3>5, <3>6 DEF th, nx
    <2>7. CASE th.pc \in {"find", "insert"} /\ \E pc \in {"insert", "lookup"} : nx = [th EXCEPT !.pc = pc]
      BY <1>1, <2>2, <2>7 DEF Past, Has, HostPart, Now, Place
    <2>8. CASE th.pc = "lookup" /\ \E e \in 1..MaxEntries : nx = [pc |-> "wait", at |-> th.at, entry |-> e]
      BY <1>1, <2>8 DEF Past, Has, HostPart, Now
    <2> QED BY <2>1, <2>3, <2>4, <2>5, <2>6, <2>7, <2>8 DEF Goes
  <1> QED BY <1>2, <1>3, <1>4

\* A handler stays where it is unless it steps, and only goes on.
LEMMA HandlersGoOn ==
    ASSUME AcceptorType, [Next]_vars, NEW c \in Connection
    PROVE  /\ handler'[c] = handler[c] \/ HandlerStep(c)
           /\ HandlerPart(c) <= HandlerPart(c)'
           /\ handler[c].pc = "done" => handler'[c].pc = "done"
  <1>1. UNCHANGED handler \/ \E d \in Connection : HandlerStep(d)
    BY DEF vars, Next, EndStep, Stop, StopReturns, Look, Read, Crash, Listen, IosStop, Die, Add, Close,
           ClientStep, Connect, SendNames, HostStep, HostFind, HostInsert, HostLookup, HostGet
  <1>2. ASSUME NEW d \in Connection, HandlerStep(d)
        PROVE  /\ \A e \in Connection \ {d} : handler'[e] = handler[e]
               /\ HandlerPart(d) <= HandlerPart(d)'
               /\ handler[d].pc = "done" => handler'[d].pc = "done"
    <2>1. CASE UNCHANGED handler
      BY <2>1 DEF HandlerPart
    <2>2. CASE Accept(d) \/ Header(d)
      BY <2>2 DEF Accept, Header, HandlerAt, Handle, HandlerPart, AcceptorType
    <2>3. CASE Body(d) \/ Cut(d)
      <3>1. handler[d].pc \in {"body", "cut"} /\ (UNCHANGED handler \/ \E g : Find(d, g))
        BY <2>3 DEF Body, Cut, HandlerAt, Crash
      <3> QED BY <2>1, <3>1 DEF Find, HandlerPart, AcceptorType, AfterFind
    <2>4. CASE HandlerInsert(d) \/ HandlerLookup(d)
      BY <2>4 DEF HandlerInsert, HandlerLookup, HandlerAt, Handle, HandlerPart, AcceptorType
    <2>5. CASE HandlerSet(d)
      <3>1. UNCHANGED handler \/ handler' = [handler EXCEPT ![d].pc = "done"]
        BY <2>5 DEF HandlerSet, Crash, Handle
      <3> QED BY <2>1, <2>5, <3>1 DEF HandlerSet, HandlerAt, HandlerPart, AcceptorType
    <2> QED BY <1>2, <2>2, <2>3, <2>4, <2>5 DEF HandlerStep
  <1> QED BY <1>1, <1>2 DEF HandlerPart

\* Only these add to the map of promises.
LEMMA WhoAdds ==
    ASSUME [Next]_vars, entries' # entries
    PROVE  \/ \E t \in Thread("host") : HostInsert(t) \/ HostLookup(t)
           \/ \E c \in Connection : HandlerInsert(c) \/ HandlerLookup(c)
  BY DEF vars, Next, EndStep, Stop, StopReturns, Look, Read, Crash, Listen, IosStop, Die, Add, Close,
         ClientStep, Connect, SendNames, HostStep, HostFind, HostGet, HandlerStep, Accept, Header,
         Body, Cut, Find, HandlerSet, map

\* ... and one entry each, to their own tag.
LEMMA HostAdds ==
    ASSUME EndpointAssumption, TypeInv, NEW t \in Thread("host"), HostInsert(t) \/ HostLookup(t)
    PROVE  LET th == thread["host"][t]  nx == thread'["host"][t] IN
           /\ th.at \in DOMAIN Opens["host"][t] /\ Current("host", t) = Opens["host"][t][th.at]
           /\ \A tag \in Channel("host") : entries'[tag] # entries[tag] =>
                 tag = Current("host", t) /\ entries'[tag] = entries[tag] + 1
           /\ HostPart(nx, th.at) = HostPart(th, th.at) + 1
  <1> DEFINE th == thread["host"][t]
             nx == thread'["host"][t]
  <1>1. PlaceOK("host", t, th) /\ th.pc \in {"insert", "lookup"}
    BY DEF HostInsert, HostLookup, At, TypeInv, ThreadType, Side
  <1>2. th.at \in DOMAIN Opens["host"][t] /\ th.at \in Nat
    BY <1>1, Lists DEF PlaceOK, Place, List, Side
  <1>3. \A tag \in Channel("host") : entries'[tag] # entries[tag] =>
            tag = Current("host", t) /\ entries'[tag] = entries[tag] + 1
    BY DEF HostInsert, HostLookup, Lookup, Emplace, TypeInv, AcceptorType, Tag
  <1>4. /\ th.pc = "insert" => nx.pc = "lookup" /\ nx.at = th.at
        /\ th.pc = "lookup" => nx.pc = "wait" /\ nx.at = th.at
    <2>1. CASE HostInsert(t)
      <3>1. th.pc = "insert" /\ nx = [th EXCEPT !.pc = "lookup"]
        BY <2>1, ActionMoves, MoveFacts DEF HostInsert, At, TypeInv, Side
      <3> QED BY <1>1, <3>1 DEF PlaceOK, Place
    <2>2. CASE HostLookup(t)
      BY <2>2 DEF HostLookup, At, TypeInv, ThreadType, Side
    <2> QED BY <2>1, <2>2
  <1>5. HostPart(nx, th.at) = HostPart(th, th.at) + 1
    <2> HIDE DEF th, nx
    <2> QED BY <1>1, <1>2, <1>4 DEF HostPart, Has, Past, Now
  <1> QED BY <1>2, <1>3, <1>5 DEF Current

\* ... of a handler as well.
LEMMA HandlerAdds ==
    ASSUME EndpointAssumption, TypeInv, WholeInv, NEW c \in Connection,
           HandlerInsert(c) \/ HandlerLookup(c)
    PROVE  /\ \A tag \in Channel("host") : entries'[tag] # entries[tag] =>
                 tag = Mirror(c) /\ entries'[tag] = entries[tag] + 1
           /\ HandlerPart(c)' = HandlerPart(c) + 1
  <1>1. \A tag \in Channel("host") : entries'[tag] # entries[tag] =>
            tag = Mirror(c) /\ entries'[tag] = entries[tag] + 1
    <2>1. handler[c].tag = Mirror(c)
      BY DEF HandlerInsert, HandlerLookup, HandlerAt, WholeInv
    <2> QED BY <2>1 DEF HandlerInsert, HandlerLookup, Lookup, Emplace, TypeInv, AcceptorType, Tag
  <1>2. HandlerPart(c)' = HandlerPart(c) + 1
    BY DEF HandlerInsert, HandlerLookup, HandlerAt, Handle, HandlerPart, TypeInv, AcceptorType
  <1> QED BY <1>1, <1>2

\* A tag has no more entries than its two adders account for.
LEMMA EntriesCounted ==
    ASSUME EndpointAssumption, TypeInv, WholeInv, EntryInv, [Next]_vars
    PROVE  EntryInv'
  <1> SUFFICES ASSUME NEW t \in Thread("host"), NEW k \in DOMAIN Opens["host"][t]
               PROVE  LET tag == Opens["host"][t][k] IN
                      entries'[tag] <= HostPart(thread'["host"][t], k) + HandlerPart(Mirror(tag))'
    BY DEF EntryInv
  <1> DEFINE tag == Opens["host"][t][k]
             c == Mirror(tag)
             th == thread["host"][t]
             nx == thread'["host"][t]
  <1>1. tag \in Channel("host") /\ c \in Connection /\ Mirror(c) = tag /\ k \in Nat
    BY Lists, Mirrors DEF Side
  <1>2. /\ entries[tag] <= HostPart(th, k) + HandlerPart(c) /\ entries[tag] \in Nat
        /\ HostPart(th, k) \in Nat /\ HostPart(nx, k) \in Nat
        /\ HandlerPart(c) \in Nat /\ HandlerPart(c)' \in Nat
    BY <1>1 DEF EntryInv, TypeInv, AcceptorType, HostPart, HandlerPart, Tag
  <1>3. HostPart(th, k) <= HostPart(nx, k) /\ HandlerPart(c) <= HandlerPart(c)'
    BY <1>1, GoingOn, HandlersGoOn DEF TypeInv, Side
  <1>4. CASE entries'[tag] = entries[tag]
    BY <1>2, <1>3, <1>4
  <1>5. ASSUME entries'[tag] # entries[tag], NEW u \in Thread("host"), HostInsert(u) \/ HostLookup(u)
        PROVE  entries'[tag] = entries[tag] + 1 /\ HostPart(nx, k) = HostPart(th, k) + 1
    <2>1. u = t /\ k = thread["host"][u].at
      BY <1>1, <1>5, HostAdds, OnePlace DEF Side
    <2> QED BY <1>1, <1>5, <2>1, HostAdds
  <1>6. ASSUME entries'[tag] # entries[tag], NEW d \in Connection, HandlerInsert(d) \/ HandlerLookup(d)
        PROVE  entries'[tag] = entries[tag] + 1 /\ HandlerPart(c)' = HandlerPart(c) + 1
    <2>1. d = c
      BY <1>1, <1>6, HandlerAdds, Mirrors
    <2> QED BY <1>1, <1>6, <2>1, HandlerAdds
  <1>7. CASE entries'[tag] # entries[tag]
    <2>1. \/ \E u \in Thread("host") : HostInsert(u) \/ HostLookup(u)
          \/ \E d \in Connection : HandlerInsert(d) \/ HandlerLookup(d)
      BY <1>7, WhoAdds
    <2>2. /\ entries'[tag] = entries[tag] + 1
          /\ HostPart(nx, k) = HostPart(th, k) + 1 \/ HandlerPart(c)' = HandlerPart(c) + 1
      BY <1>5, <1>6, <1>7, <2>1
    <2> HIDE DEF th, nx, c, tag
    <2> QED BY <1>2, <1>3, <2>2 DEF th, nx, c, tag
  <1> QED BY <1>4, <1>7

-----------------------------------------------------------------------------
(* Connections and sockets. *)

\* What the client put into a connection changes only when its thread connects, sends the names or
\* dies.
LEMMA ConnChanges ==
    ASSUME EndpointAssumption, TypeInv, [Next]_vars, NEW c \in Connection, conn'[c] # conn[c]
    PROVE  \/ \E t \in Thread("client") : /\ Connect(t) \/ SendNames(t)
                                          /\ thread["client"][t].at \in DOMAIN Opens["client"][t]
                                          /\ c = Opens["client"][t][thread["client"][t].at]
           \/ Die(c)
  <1>1. \/ \E t \in Thread("client") : Connect(t) \/ SendNames(t)
        \/ \E d \in Connection : Die(d)
    BY DEF vars, Next, EndStep, Stop, StopReturns, Look, Read, Crash, Listen, IosStop, Add, Close,
           ClientStep, HostStep, HostFind, HostInsert, HostLookup, HostGet, HandlerStep, Accept,
           Header, Body, Cut, Find, HandlerInsert, HandlerLookup, HandlerSet
  <1>2. ASSUME NEW t \in Thread("client"), Connect(t) \/ SendNames(t)
        PROVE  /\ thread["client"][t].at \in DOMAIN Opens["client"][t]
               /\ c = Opens["client"][t][thread["client"][t].at]
    <2>1. PlaceOK("client", t, thread["client"][t]) /\ thread["client"][t].pc \in {"connect", "names"}
      BY <1>2 DEF Connect, SendNames, At, TypeInv, ThreadType, Side
    <2>2. thread["client"][t].at \in DOMAIN Opens["client"][t]
      BY <2>1, Lists DEF PlaceOK, List, Side
    <2>3. c = Current("client", t)
      BY <1>2 DEF Connect, SendNames, TypeInv, AcceptorType
    <2> QED BY <2>2, <2>3 DEF Current
  <1>3. ASSUME NEW d \in Connection, Die(d)
        PROVE  d = c
    BY <1>3 DEF Die, TypeInv, AcceptorType
  <1> QED BY <1>1, <1>2, <1>3

\* A connection that its thread did not make yet holds nothing.
LEMMA ConnectionsInOrder ==
    ASSUME EndpointAssumption, TypeInv, ConnInv, [Next]_vars
    PROVE  ConnInv'
  <1> SUFFICES ASSUME NEW t \in Thread("client"), NEW k \in DOMAIN Opens["client"][t],
                      ~Has(thread'["client"][t], k), ~Now(thread'["client"][t], k, {"names"})
               PROVE  conn'[Opens["client"][t][k]] = "none"
    BY DEF ConnInv
  <1> DEFINE c  == Opens["client"][t][k]
             th == thread["client"][t]
             nx == thread'["client"][t]
  <1>1. c \in Connection /\ k \in Nat
    BY Lists DEF Side, Connection
  <1>2. ~Has(th, k) /\ ~Now(th, k, {"names"})
    BY <1>1, GoingOn DEF TypeInv, Side
  <1>3. conn[c] = "none"
    BY <1>2 DEF ConnInv
  <1>4. ASSUME conn'[c] # conn[c]
        PROVE  FALSE
    <2>1. ~Die(c)
      BY <1>3 DEF Die
    <2>2. PICK u \in Thread("client") : /\ Connect(u) \/ SendNames(u)
                                        /\ thread["client"][u].at \in DOMAIN Opens["client"][u]
                                        /\ c = Opens["client"][u][thread["client"][u].at]
      BY <1>1, <1>4, <2>1, ConnChanges
    <2>3. u = t /\ k = th.at
      BY <2>2, OnePlace DEF Side
    <2>4. CASE Connect(u)
      <3>1. nx = [th EXCEPT !.pc = "names"]
        BY <2>3, <2>4, ActionMoves, MoveFacts DEF Connect, TypeInv, Side
      <3>2. PlaceOK("client", t, th)
        BY DEF TypeInv, ThreadType, Side
      <3> QED BY <2>3, <3>1, <3>2 DEF Now, PlaceOK, Place
    <2>5. CASE SendNames(u)
      BY <1>2, <2>3, <2>5 DEF SendNames, At, Now
    <2> QED BY <2>2, <2>4, <2>5
  <1> QED BY <1>3, <1>4

\* Sockets are assigned in these two places, and promises in this one.
LEMMA SocketChanges ==
    ASSUME EndpointAssumption, TypeInv, [Next]_vars
    PROVE  /\ \A c \in Connection : socket'["client"][c] # socket["client"][c] =>
                 /\ socket'["client"][c] = c
                 /\ \E t \in Thread("client") : Connect(t) /\ c = Current("client", t)
           /\ \A ch \in Channel("host") : socket'["host"][ch] # socket["host"][ch] =>
                 /\ \E e \in 1..MaxEntries : promise[ch][e] # NoSocket /\ socket'["host"][ch] = promise[ch][e]
                 /\ \E t \in Thread("host") : HostGet(t) /\ ch = Current("host", t)
           /\ \A ch \in Channel("host"), e \in 1..MaxEntries : promise'[ch][e] # promise[ch][e] =>
                 \E c \in Connection : /\ ch = handler[c].tag /\ promise'[ch][e] = c
                                       /\ handler[c].pc = "set" /\ handler'[c].pc = "done"
  <1>1. ASSUME socket' # socket
        PROVE  \/ \E t \in Thread("client") : Connect(t)
               \/ \E t \in Thread("host") : HostGet(t)
    BY <1>1 DEF vars, Next, EndStep, Stop, StopReturns, Look, Read, Crash, Listen, IosStop, Add, Close,
           ClientStep, SendNames, HostStep, HostFind, HostInsert, HostLookup, HandlerStep, Accept,
           Header, Body, Cut, Find, HandlerInsert, HandlerLookup, HandlerSet, Die
  <1>2. ASSUME NEW t \in Thread("client"), Connect(t)
        PROVE  /\ \A ch \in Channel("host") : socket'["host"][ch] = socket["host"][ch]
               /\ \A c \in Connection : socket'["client"][c] # socket["client"][c] =>
                     socket'["client"][c] = c /\ c = Current("client", t)
    BY <1>2 DEF Connect, TypeInv, EndType, Side, Connection
  <1>3. ASSUME NEW t \in Thread("host"), HostGet(t)
        PROVE  /\ \A c \in Connection : socket'["client"][c] = socket["client"][c]
               /\ \A ch \in Channel("host") : socket'["host"][ch] # socket["host"][ch] =>
                     /\ ch = Current("host", t)
                     /\ \E e \in 1..MaxEntries : promise[ch][e] # NoSocket /\ socket'["host"][ch] = promise[ch][e]
    <2> DEFINE th == thread["host"][t]
    <2>1. th.entry \in 1..MaxEntries
      BY <1>3 DEF HostGet, At, TypeInv, ThreadType, PlaceOK, Place, Side
    <2>2. promise[Current("host", t)][th.entry] # NoSocket
      BY <1>3 DEF HostGet, Fulfilled
    <2>3. socket' = [socket EXCEPT !["host"][Current("host", t)] = promise[Current("host", t)][th.entry]]
      BY <1>3 DEF HostGet
    <2> QED BY <2>1, <2>2, <2>3 DEF TypeInv, EndType, Side
  <1>4. ASSUME promise' # promise
        PROVE  \E c \in Connection : HandlerSet(c) /\ ~Crash("host")
    BY <1>4 DEF vars, Next, EndStep, Stop, StopReturns, Look, Read, Crash, Listen, IosStop, Add, Close,
           ClientStep, Connect, SendNames, HostStep, HostFind, HostInsert, HostLookup, HostGet,
           HandlerStep, Accept, Header, Body, Cut, Find, HandlerInsert, HandlerLookup, HandlerSet, Die, map
  <1>5. ASSUME NEW c \in Connection, HandlerSet(c), ~Crash("host"),
               NEW ch \in Channel("host"), NEW e \in 1..MaxEntries, promise'[ch][e] # promise[ch][e]
        PROVE  /\ ch = handler[c].tag /\ promise'[ch][e] = c
               /\ handler[c].pc = "set" /\ handler'[c].pc = "done"
    <2>1. promise' = [promise EXCEPT ![handler[c].tag][handler[c].entry] = c] /\ Handle(c, "done")
      BY <1>5 DEF HandlerSet
    <2>2. ch = handler[c].tag /\ promise'[ch][e] = c
      BY <1>5, <2>1 DEF TypeInv, AcceptorType, Tag
    <2> QED BY <1>5, <2>1, <2>2 DEF HandlerSet, HandlerAt, Handle, TypeInv, AcceptorType
  <1> QED BY <1>1, <1>2, <1>3, <1>4, <1>5

\* A handler that has the names, or had them.
Naming == {"body", "insert", "lookup", "set", "done"}

\* When all names arrive, each handler looks for those of its connection.
LEMMA WholeKept ==
    ASSUME EndpointAssumption, Whole, TypeInv, WholeInv, [Next]_vars
    PROVE  WholeInv'
  <1> SUFFICES ASSUME NEW c \in Connection
               PROVE  /\ conn'[c] # "dead" /\ handler'[c].pc # "cut"
                      /\ handler'[c].pc \in {"insert", "lookup", "set"} => handler'[c].tag = Mirror(c)
    BY DEF WholeInv
  <1>1. /\ conn[c] # "dead" /\ handler[c].pc # "cut"
        /\ handler[c].pc \in {"insert", "lookup", "set"} => handler[c].tag = Mirror(c)
    BY DEF WholeInv
  <1>2. conn'[c] # "dead"
    <2>1. ~Die(c)
      BY DEF Die, Whole
    <2>2. conn'[c] = conn[c] \/ \E t \in Thread("client") : Connect(t) \/ SendNames(t)
      BY <2>1, ConnChanges
    <2> QED BY <1>1, <2>2 DEF Connect, SendNames, TypeInv, AcceptorType
  <1>3. CASE handler'[c] = handler[c]
    BY <1>1, <1>2, <1>3
  <1>4. CASE HandlerStep(c) /\ handler'[c] # handler[c]
    <2>1. ~Cut(c)
      BY <1>1 DEF Cut, HandlerAt, Whole
    <2>2. CASE Accept(c) \/ Header(c)
      <3>1. Handle(c, "header") \/ Handle(c, "body")
        BY <1>1, <2>2 DEF Accept, Header, Whole
      <3> QED BY <1>2, <3>1 DEF Handle, TypeInv, AcceptorType
    <2>3. CASE Body(c)
      <3>1. Find(c, Mirror(c))
        BY <2>3 DEF Body, TagOf
      <3> QED BY <1>2, <3>1 DEF Find, AfterFind, TypeInv, AcceptorType
    <2>4. CASE HandlerInsert(c)
      BY <1>1, <1>2, <2>4 DEF HandlerInsert, HandlerAt, Handle, TypeInv, AcceptorType
    <2>5. CASE HandlerLookup(c)
      BY <1>1, <1>2, <2>5 DEF HandlerLookup, HandlerAt, TypeInv, AcceptorType
    <2>6. CASE HandlerSet(c)
      <3>1. Handle(c, "done")
        BY <1>4, <2>6 DEF HandlerSet, Crash
      <3> QED BY <1>2, <3>1 DEF Handle, TypeInv, AcceptorType
    <2> QED BY <1>4, <2>1, <2>2, <2>3, <2>4, <2>5, <2>6 DEF HandlerStep
  <1> QED BY <1>3, <1>4, HandlersGoOn DEF TypeInv

\* Names are looked for only where they were sent, once.
LEMMA NamesFirst ==
    ASSUME EndpointAssumption, TypeInv, ConnInv, WholeInv, PairInv, [Next]_vars, NEW c \in Connection,
           handler'[c].pc \in Naming
    PROVE  conn'[c] = "named"
  <1>1. conn[c] = "named"
    <2>1. handler[c].pc \in Naming => conn[c] = "named"
      BY DEF PairInv, Naming
    <2>2. CASE handler'[c] = handler[c]
      BY <2>1, <2>2
    <2>3. CASE HandlerStep(c) /\ handler[c].pc \notin Naming
      <3>1. Accept(c) \/ Header(c)
        BY <2>3 DEF HandlerStep, Body, Cut, HandlerInsert, HandlerLookup, HandlerSet, HandlerAt, Naming,
                    WholeInv
      <3> QED BY <3>1 DEF Accept, Header, Handle, TypeInv, AcceptorType, Naming
    <2> QED BY <2>1, <2>2, <2>3, HandlersGoOn DEF TypeInv
  <1>2. ASSUME conn'[c] # conn[c]
        PROVE  conn'[c] = "named"
    <2>1. ~Die(c)
      BY <1>1 DEF Die
    <2>2. PICK t \in Thread("client") : /\ Connect(t) \/ SendNames(t)
                                        /\ thread["client"][t].at \in DOMAIN Opens["client"][t]
                                        /\ c = Opens["client"][t][thread["client"][t].at]
      BY <1>2, <2>1, ConnChanges
    <2>3. CASE Connect(t)
      <3> DEFINE th == thread["client"][t]
      <3>1. th.pc = "connect" /\ PlaceOK("client", t, th)
        BY <2>3 DEF Connect, At, TypeInv, ThreadType, Side
      <3>2. ~Has(th, th.at) /\ ~Now(th, th.at, {"names"})
        BY <3>1 DEF Has, Past, Now, PlaceOK, Place
      <3> QED BY <1>1, <2>2, <3>2 DEF ConnInv
    <2>4. CASE SendNames(t)
      BY <2>2, <2>4 DEF SendNames, Current, TypeInv, AcceptorType
    <2> QED BY <2>2, <2>3, <2>4
  <1> QED BY <1>1, <1>2

\* A socket goes with its names.
LEMMA PairsKept ==
    ASSUME EndpointAssumption, TypeInv, ConnInv, WholeInv, PairInv, [Next]_vars
    PROVE  PairInv'
  <1>1. \A c \in Connection : handler[c].pc = "done" => handler'[c].pc = "done"
    BY HandlersGoOn DEF TypeInv
  <1>2. \A c \in Connection : handler'[c].pc \in Naming => conn'[c] = "named"
    BY NamesFirst
  <1>3. ASSUME NEW ch \in Channel("host"), NEW e \in 1..MaxEntries, promise'[ch][e] # NoSocket
        PROVE  promise'[ch][e] = Mirror(ch) /\ handler'[Mirror(ch)].pc = "done"
    <2>1. CASE promise'[ch][e] = promise[ch][e]
      BY <1>1, <1>3, <2>1, Mirrors DEF PairInv
    <2>2. CASE promise'[ch][e] # promise[ch][e]
      BY <2>2, SocketChanges, Mirrors DEF WholeInv
    <2> QED BY <2>1, <2>2
  <1>4. ASSUME NEW ch \in Channel("host"), socket'["host"][ch] # NoSocket
        PROVE  socket'["host"][ch] = Mirror(ch) /\ handler'[Mirror(ch)].pc = "done"
    <2>1. CASE socket'["host"][ch] = socket["host"][ch]
      BY <1>1, <1>4, <2>1, Mirrors DEF PairInv
    <2>2. CASE socket'["host"][ch] # socket["host"][ch]
      <3>1. PICK e \in 1..MaxEntries : promise[ch][e] # NoSocket /\ socket'["host"][ch] = promise[ch][e]
        BY <2>2, SocketChanges
      <3>2. promise[ch][e] = Mirror(ch) /\ handler[Mirror(ch)].pc = "done"
        BY <3>1 DEF PairInv
      <3> QED BY <1>1, <3>1, <3>2, Mirrors
    <2> QED BY <2>1, <2>2
  <1> QED BY <1>2, <1>3, <1>4 DEF PairInv, Naming

\* addChannel gives a channel its socket, and nothing takes it away.
LEMMA SocketsStay ==
    ASSUME EndpointAssumption, TypeInv, GotInv, [Next]_vars
    PROVE  GotInv'
  <1>1. ASSUME NEW s \in Side, NEW ch \in Channel(s), socket[s][ch] # NoSocket
        PROVE  socket'[s][ch] # NoSocket
    <2>1. \A c \in Connection : socket["client"][c] # NoSocket => socket'["client"][c] # NoSocket
      BY SocketChanges, Mirrors
    <2>2. \A h \in Channel("host") : socket["host"][h] # NoSocket => socket'["host"][h] # NoSocket
      BY SocketChanges
    <2> QED BY <1>1, <2>1, <2>2 DEF Side, Connection
  <1> SUFFICES ASSUME NEW s \in Side, NEW t \in Thread(s), NEW k \in DOMAIN Opens[s][t],
                      Has(thread'[s][t], k) \/ Now(thread'[s][t], k, {"names"})
               PROVE  socket'[s][Opens[s][t][k]] # NoSocket
    BY DEF GotInv
  <1> DEFINE th == thread[s][t]
             nx == thread'[s][t]
             ch == Opens[s][t][k]
  <1>2. ch \in Channel(s) /\ k \in Nat /\ k <= Len(Opens[s][t]) /\ Len(Opens[s][t]) \in Nat
    BY Lists
  <1>3. CASE Has(th, k) \/ Now(th, k, {"names"})
    BY <1>1, <1>2, <1>3 DEF GotInv
  <1>4. CASE ~Has(th, k) /\ ~Now(th, k, {"names"})
    <2>1. ThreadStep(s, t)
      BY <1>4, OthersStay DEF TypeInv
    <2>2. Goes(s, t, nx)
      <3>1. thread' # thread
        BY <1>4
      <3> QED BY <2>1, <3>1, StepMoves, MoveFacts DEF TypeInv
    <2>3. PlaceOK(s, t, th)
      BY DEF TypeInv, ThreadType
    <2>4. ~Past(th) /\ k >= th.at /\ th.at \in 1..Len(Opens[s][t])
      BY <1>2, <1>4, <2>3 DEF Has, Past, PlaceOK, Place, List
    <2>5. th.pc \in {"connect", "wait"} /\ k = th.at
      <3>1. CASE th.pc \in {"add", "find", "insert", "connect"}
        <4>1. nx.at = th.at /\ nx.pc \in {"find", "connect", "names", "insert", "lookup"}
              /\ (nx.pc = "names" => th.pc = "connect")
          BY <2>2, <2>3, <3>1 DEF Goes, PlaceOK, Place, AfterAdd, Side
        <4> QED BY <1>2, <2>4, <4>1 DEF Has, Past, Now
      <3>2. CASE th.pc = "lookup"
        <4>1. PICK e \in 1..MaxEntries : nx = [pc |-> "wait", at |-> th.at, entry |-> e]
          BY <2>2, <3>2 DEF Goes
        <4>2. nx.at = th.at /\ nx.pc = "wait"
          BY <4>1
        <4> QED BY <1>2, <2>4, <4>2 DEF Has, Past, Now
      <3>3. CASE th.pc \in {"names", "wait"}
        <4>1. nx = NextPlace(s, t)
          BY <2>2, <3>3 DEF Goes
        <4>2. k = th.at
          BY <1>2, <2>4, <4>1 DEF NextPlace, Has, Past, Now
        <4> QED BY <1>4, <3>3, <4>2 DEF Now
      <3> QED BY <2>3, <2>4, <3>1, <3>2, <3>3 DEF PlaceOK, Place, Steps, Past
    <2>6. CASE th.pc = "connect"
      <3>1. s = "client" /\ Connect(t)
        BY <2>1, <2>6 DEF ThreadStep, Add, Close, ClientStep, SendNames, HostStep, HostFind, HostInsert,
                      HostLookup, HostGet, At
      <3>2. socket'["client"][ch] = ch
        BY <1>2, <2>5, <3>1 DEF Connect, Current, TypeInv, EndType, Side
      <3> QED BY <1>2, <3>1, <3>2, Mirrors DEF Connection
    <2>7. CASE th.pc = "wait"
      <3>1. s = "host" /\ HostGet(t)
        BY <2>1, <2>7 DEF ThreadStep, Add, Close, ClientStep, Connect, SendNames, HostStep, HostFind,
                      HostInsert, HostLookup, At
      <3>2. socket'["host"][ch] = promise[ch][th.entry] /\ promise[ch][th.entry] # NoSocket
        BY <1>2, <2>5, <3>1 DEF HostGet, Fulfilled, Current, TypeInv, EndType, Side
      <3> QED BY <3>1, <3>2
    <2> QED BY <2>5, <2>6, <2>7
  <1> QED BY <1>3, <1>4

-----------------------------------------------------------------------------
(* Stopping. *)

\* Only these touch what stop waits for.
LEMMA WhoEnds ==
    ASSUME [Next]_vars
    PROVE  \/ UNCHANGED <<channels, stopped, done, main>>
           \/ \E s \in Side : Stop(s) \/ StopReturns(s) \/ Look(s) \/ Read(s)
           \/ \E s \in Side : \E t \in Thread(s) : Add(s, t) \/ Close(s, t)
  BY DEF vars, Next, EndStep, Listen, IosStop, Die, ends, ClientStep, Connect, SendNames, HostStep, HostFind,
         HostInsert, HostLookup, HostGet, HandlerStep, Accept, Header, Body, Cut, Find, HandlerInsert,
         HandlerLookup, HandlerSet, Crash

\* The promise of stop is set with the last of its two conditions.
LEMMA StopCounted ==
    ASSUME EndpointAssumption, TypeInv, StopInv, [Next]_vars
    PROVE  StopInv'
  <1> USE DEF StopInv, TypeInv, EndType
  <1>1. CASE UNCHANGED <<channels, stopped, done, main>>
    BY <1>1
  <1>2. ASSUME NEW s \in Side, Stop(s)
        PROVE  StopInv'
    <2>1. CASE Crash(s)
      BY <2>1 DEF Crash, ends
    <2>2. CASE ~Crash(s)
      <3>1. /\ main[s] = "running" /\ UNCHANGED channels
            /\ stopped' = [stopped EXCEPT ![s] = TRUE]
            /\ done' = [done EXCEPT ![s] = @ \/ channels[s] = {}]
            /\ main' = [main EXCEPT ![s] = "stopping"]
        BY <1>2, <2>2 DEF Stop
      <3>2. \A u \in Side : u # s => done'[u] = done[u] /\ stopped'[u] = stopped[u] /\ main'[u] = main[u]
        BY <3>1
      <3>3. stopped'[s] /\ main'[s] = "stopping" /\ (done'[s] <=> done[s] \/ channels[s] = {})
        BY <3>1
      <3> QED BY <3>1, <3>2, <3>3
    <2> QED BY <2>1, <2>2
  <1>3. ASSUME NEW s \in Side, StopReturns(s) \/ Look(s)
        PROVE  StopInv'
    BY <1>3 DEF StopReturns, MayReturn, Look
  <1>4. ASSUME NEW s \in Side, Read(s)
        PROVE  StopInv'
    <2>1. CASE Crash(s)
      BY <2>1 DEF Crash, ends
    <2>2. CASE ~Crash(s)
      <3>1. UNCHANGED <<channels, stopped, done>> /\ main[s] = "looking"
            /\ (UNCHANGED main \/ main' = [main EXCEPT ![s] = "stopping"])
        BY <1>4, <2>2 DEF Read
      <3> QED BY <3>1
    <2> QED BY <2>1, <2>2
  <1>5. ASSUME NEW s \in Side, NEW t \in Thread(s), Add(s, t)
        PROVE  StopInv'
    <2>1. CASE stopped[s]
      <3>1. UNCHANGED <<channels, stopped, done, main>>
        BY <1>5, <2>1 DEF Add, Crash, ends
      <3> QED BY <3>1
    <2>2. CASE ~stopped[s]
      <3>1. UNCHANGED <<stopped, done, main>>
            /\ \E ch : channels' = [channels EXCEPT ![s] = @ \cup {ch}]
        BY <1>5, <2>2 DEF Add, ends
      <3> QED BY <2>2, <3>1
    <2> QED BY <2>1, <2>2
  <1>6. ASSUME NEW s \in Side, NEW t \in Thread(s), Close(s, t)
        PROVE  StopInv'
    <2>1. CASE Crash(s)
      BY <2>1 DEF Crash, ends
    <2>2. CASE ~Crash(s)
      <3>1. \E left \in SUBSET channels[s] :
               /\ channels' = [channels EXCEPT ![s] = left]
               /\ done' = [done EXCEPT ![s] = @ \/ Signals(s, left)]
               /\ UNCHANGED <<stopped, main>>
        BY <1>6, <2>2 DEF Close
      <3> QED BY <3>1 DEF Signals
    <2> QED BY <2>1, <2>2
  <1> QED BY <1>1, <1>2, <1>3, <1>4, <1>5, <1>6, WhoEnds

\* Only Stop leaves the running program, and only the service's stop deletes the acceptor.
LEMMA WhoStops ==
    ASSUME TypeInv, [Next]_vars
    PROVE  /\ \A s \in Side : main[s] = "running" /\ main'[s] # "running" => Stop(s) /\ UNCHANGED thread
           /\ \A s \in Side : main[s] = "stopped" => main'[s] = "stopped"
           /\ acceptor' = "gone" /\ acceptor # "gone" => main["host"] = "stopped"
  <1>1. \/ UNCHANGED main
        \/ \E s \in Side : Stop(s) \/ StopReturns(s) \/ Look(s) \/ Read(s)
    BY WhoEnds DEF Add, Close, Crash, ends
  <1>2. ASSUME NEW s \in Side, Stop(s) \/ StopReturns(s) \/ Look(s) \/ Read(s)
        PROVE  /\ \A u \in Side : u # s => main'[u] = main[u]
               /\ main[s] = "running" /\ main'[s] # "running" => Stop(s) /\ UNCHANGED thread
               /\ main[s] = "stopped" => main'[s] = "stopped"
    <2>1. UNCHANGED main \/ \E m : main' = [main EXCEPT ![s] = m]
      BY <1>2 DEF Stop, StopReturns, Look, Read, Crash, ends
    <2>2. main[s] = "running" \/ main[s] = "stopping" \/ main[s] = "looking"
      BY <1>2 DEF Stop, StopReturns, Look, Read
    <2>3. main[s] = "running" => Stop(s) /\ UNCHANGED thread
      BY <1>2 DEF Stop, StopReturns, Look, Read, Crash
    <2> QED BY <2>1, <2>2, <2>3 DEF TypeInv, EndType
  <1>3. acceptor' = "gone" /\ acceptor # "gone" => IosStop
    BY DEF vars, Next, EndStep, Stop, StopReturns, Look, Read, Crash, Listen, Bind, Die, Add, Close,
           ClientStep, Connect, SendNames, HostStep, HostFind, HostInsert, HostLookup, HostGet,
           HandlerStep, Accept, Header, Body, Cut, Find, HandlerInsert, HandlerLookup, HandlerSet
  <1> QED BY <1>1, <1>2, <1>3 DEF IosStop

\* What comes late comes after the rest.
LEMMA LatesKept ==
    ASSUME EndpointAssumption, TypeInv, LateInv, [Next]_vars
    PROVE  LateInv'
  <1>1. ASSUME NEW s \in Side, StopWhen[s] # "any", main'[s] # "running", NEW t \in Thread(s)
        PROVE  Past(thread'[s][t])
    <2>1. CASE main[s] # "running"
      BY <1>1, <2>1, GoingOn DEF LateInv, TypeInv
    <2>2. CASE main[s] = "running"
      <3>1. Stop(s) /\ UNCHANGED thread
        BY <1>1, <2>2, WhoStops
      <3> QED BY <1>1, <3>1 DEF Stop, MayStop, Past
    <2> QED BY <2>1, <2>2
  <1>2. acceptor' = "gone" => main'["host"] = "stopped"
    BY WhoStops DEF LateInv, Side
  <1> QED BY <1>1, <1>2 DEF LateInv

-----------------------------------------------------------------------------
(* The list of a polite program. *)

\* Only the thread that closes a channel takes it off the list.
LEMMA TakenOff ==
    ASSUME EndpointAssumption, TypeInv, [Next]_vars, NEW s \in Side, NEW ch \in channels[s],
           ch \notin channels'[s]
    PROVE  \E t \in Thread(s) : /\ ch = Closes[s][t][thread[s][t].at] /\ thread[s][t].pc = "use"
                                /\ Moves(s, t, ClosedPlace(s, t))
  <1>1. PICK u \in Side : \E t \in Thread(u) : Add(u, t) \/ Close(u, t)
    BY WhoEnds DEF Stop, StopReturns, Look, Read, Crash
  <1>2. PICK t \in Thread(u) : Add(u, t) \/ Close(u, t)
    BY <1>1
  <1>3. CASE Add(u, t)
    BY <1>3 DEF Add, Crash, TypeInv, EndType
  <1>4. CASE Close(u, t)
    <2> DEFINE cl == Closes[u][t][thread[u][t].at]
    <2>1. ~Crash(u)
      BY DEF Crash
    <2>2. /\ channels' = [channels EXCEPT ![u] = channels[u] \ {cl}]
          /\ Moves(u, t, ClosedPlace(u, t)) /\ thread[u][t].pc = "use"
      BY <1>4, <2>1 DEF Close, At, Moves, ClosedPlace, TypeInv, ThreadType
    <2>3. u = s /\ ch = cl
      BY <2>2 DEF TypeInv, EndType
    <2> QED BY <2>2, <2>3
  <1> QED BY <1>2, <1>3, <1>4

\* What a thread will close was on the list, or is added now.
LEMMA WasListed ==
    ASSUME EndpointAssumption, Polite, TypeInv, ListInv, [Next]_vars, NEW s \in Side, NEW t \in Thread(s)
    PROVE  Listed(s, t, thread'[s][t], channels[s] \cup channels'[s])
  <1> DEFINE th == thread[s][t]
             nx == thread'[s][t]
             list == channels[s] \cup channels'[s]
  <1>1. PlaceOK(s, t, th) /\ Listed(s, t, th, channels[s])
    BY DEF ListInv, TypeInv, ThreadType
  <1>2. /\ Opens[s][t] \in Seq(Channel(s)) /\ Closes[s][t] \in Seq(Channel(s))
        /\ th.at \in Nat /\ th.at <= Len(List(s, t, th))
        /\ \A k \in DOMAIN Opens[s][t] : k \in Nat /\ k <= Len(Opens[s][t])
        /\ \A k \in DOMAIN Closes[s][t] : k \in Nat
        /\ Len(Opens[s][t]) \in Nat
    BY <1>1, Lists DEF PlaceOK, Place
  <1>3. CASE nx = th
    BY <1>1, <1>3 DEF Listed
  <1>4. CASE nx # th
    <2>1. ThreadStep(s, t) /\ thread' # thread
      BY <1>4, OthersStay DEF TypeInv
    <2>2. Goes(s, t, nx)
      BY <2>1, StepMoves, MoveFacts DEF TypeInv
    <2>3. CASE th.pc = "add"
      <3>1. Add(s, t) /\ ~stopped[s]
        BY <2>1, <2>3 DEF ThreadStep, Add, Crash, Close, ClientStep, Connect, SendNames, HostStep, HostFind,
                      HostInsert, HostLookup, HostGet, At
      <3>2. Opens[s][t][th.at] \in list
        BY <3>1 DEF Add, Current, TypeInv, EndType
      <3>3. nx.at = th.at /\ ~Past(nx) /\ nx.pc # "use"
        BY <1>1, <2>2, <2>3 DEF Goes, PlaceOK, Place, AfterAdd, Side, Past
      <3>4. \A k \in DOMAIN Opens[s][t] : k < th.at => Opens[s][t][k] \in list
        BY <1>1, <2>3 DEF Listed, Past
      <3> QED BY <1>2, <3>2, <3>3, <3>4 DEF Listed
    <2>4. CASE th.pc = "use"
      <3>1. nx = ClosedPlace(s, t)
        BY <2>2, <2>4 DEF Goes
      <3>2. Past(nx) /\ (nx.pc = "use" => nx.at = th.at + 1)
        BY <3>1 DEF ClosedPlace, Past
      <3>3. \A k \in DOMAIN Closes[s][t] : k >= th.at + 1 => k >= th.at
        BY <1>2
      <3> QED BY <1>1, <2>4, <3>2, <3>3 DEF Listed
    <2>5. CASE th.pc \in {"find", "insert", "lookup", "connect"}
      <3>1. nx.at = th.at /\ ~Past(nx) /\ nx.pc # "use"
        <4>1. CASE th.pc = "lookup"
          <5>1. PICK e \in 1..MaxEntries : nx = [pc |-> "wait", at |-> th.at, entry |-> e]
            BY <2>2, <4>1 DEF Goes
          <5> QED BY <5>1 DEF Past
        <4>2. CASE th.pc # "lookup"
          BY <1>1, <2>2, <2>5, <4>2 DEF Goes, PlaceOK, Place, Past
        <4> QED BY <4>1, <4>2
      <3> QED BY <1>1, <1>2, <2>5, <3>1 DEF Listed, Past
    <2>6. CASE th.pc \in {"names", "wait"}
      <3>1. nx = NextPlace(s, t)
        BY <2>2, <2>6 DEF Goes
      <3>2. \A k \in DOMAIN Opens[s][t] : k <= th.at => Opens[s][t][k] \in list
        <4>1. \A k \in DOMAIN Opens[s][t] : k <= th.at => k < th.at \/ k = th.at
          BY <1>2
        <4> QED BY <1>1, <2>6, <4>1 DEF Listed, Past
      <3>3. CASE th.at < Len(Opens[s][t])
        <4>1. nx.pc = "add" /\ nx.at = th.at + 1
          BY <3>1, <3>3 DEF NextPlace
        <4> QED BY <1>2, <3>2, <4>1 DEF Listed
      <3>4. CASE ~(th.at < Len(Opens[s][t]))
        <4>1. nx.pc = "use"
          BY <3>1, <3>4 DEF NextPlace
        <4>2. ToSet(Closes[s][t]) \subseteq ToSet(Opens[s][t])
          BY DEF Polite
        <4>3. \A k \in DOMAIN Closes[s][t] : \E j \in DOMAIN Opens[s][t] : Closes[s][t][k] = Opens[s][t][j]
          BY <4>2 DEF ToSet
        <4>4. \A j \in DOMAIN Opens[s][t] : j <= th.at
          BY <1>2, <3>4
        <4>5. \A k \in DOMAIN Closes[s][t] : Closes[s][t][k] \in list
          BY <3>2, <4>3, <4>4
        <4> QED BY <4>1, <4>5 DEF Listed, Past
      <3> QED BY <3>3, <3>4
    <2> QED BY <1>1, <2>2, <2>3, <2>4, <2>5, <2>6 DEF Goes
  <1> QED BY <1>3, <1>4

\* ... and stays there until that thread closes it.
LEMMA ListsKept ==
    ASSUME EndpointAssumption, Polite, TypeInv, ListInv, [Next]_vars
    PROVE  ListInv'
  <1>1. \A s \in Side : main'[s] # "looking"
    <2>1. \/ UNCHANGED main
          \/ \E s \in Side : Stop(s) \/ StopReturns(s) \/ Look(s) \/ Read(s)
      BY WhoEnds DEF Add, Close, Crash, ends
    <2>2. ASSUME NEW s \in Side, Stop(s) \/ StopReturns(s) \/ Look(s) \/ Read(s)
          PROVE  \A u \in Side : main'[u] # "looking"
      <3>1. Stop(s) \/ StopReturns(s)
        BY <2>2 DEF Look, Read, Polite, ListInv
      <3>2. UNCHANGED main \/ main' = [main EXCEPT ![s] = "stopping"] \/ main' = [main EXCEPT ![s] = "stopped"]
        BY <3>1 DEF Stop, StopReturns, Crash, ends
      <3> QED BY <3>2 DEF ListInv, TypeInv, EndType
    <2> QED BY <2>1, <2>2 DEF ListInv
  <1>2. ASSUME NEW s \in Side, NEW t \in Thread(s)
        PROVE  Listed(s, t, thread'[s][t], channels'[s])
    <2> DEFINE th == thread[s][t]
               nx == thread'[s][t]
    <2>1. Listed(s, t, nx, channels[s] \cup channels'[s])
      BY <1>2, WasListed
    <2>2. PlaceOK(s, t, th) /\ Closes[s][t] \in Seq(Channel(s))
      BY Lists DEF TypeInv, ThreadType
    <2>3. ASSUME NEW k \in DOMAIN Closes[s][t], nx.pc = "use", k >= nx.at,
                 Closes[s][t][k] \notin channels'[s]
          PROVE  FALSE
      <3>1. Closes[s][t][k] \in channels[s]
        BY <2>1, <2>3 DEF Listed
      <3>2. PICK u \in Thread(s) : /\ Closes[s][t][k] = Closes[s][u][thread[s][u].at] /\ thread[s][u].pc = "use"
                                   /\ Moves(s, u, ClosedPlace(s, u))
        BY <2>3, <3>1, TakenOff
      <3>3. thread[s][u].at \in DOMAIN Closes[s][u]
        BY <3>2, Lists DEF TypeInv, ThreadType, PlaceOK, List
      <3>4. u = t /\ k = th.at
        BY <3>2, <3>3, OnePlace
      <3>5. nx = ClosedPlace(s, t)
        BY <3>2, <3>4, MoveFacts DEF TypeInv
      <3>6. nx.at = th.at + 1
        BY <2>3, <3>5 DEF ClosedPlace
      <3> QED BY <2>2, <2>3, <3>4, <3>6
    <2>4. ASSUME NEW k \in DOMAIN Opens[s][t], ~Past(nx), k < nx.at \/ (k = nx.at /\ nx.pc # "add"),
                 Opens[s][t][k] \notin channels'[s]
          PROVE  FALSE
      <3>1. Opens[s][t][k] \in channels[s]
        BY <2>1, <2>4 DEF Listed
      <3>2. PICK u \in Thread(s) : /\ Opens[s][t][k] = Closes[s][u][thread[s][u].at] /\ thread[s][u].pc = "use"
                                   /\ Moves(s, u, ClosedPlace(s, u))
        BY <2>4, <3>1, TakenOff
      <3>3. thread[s][u].at \in DOMAIN Closes[s][u]
        BY <3>2, Lists DEF TypeInv, ThreadType, PlaceOK, List
      <3>4. \E j \in DOMAIN Opens[s][u] : Closes[s][u][thread[s][u].at] = Opens[s][u][j]
        BY <3>3 DEF Polite, ToSet
      <3>5. u = t
        BY <3>2, <3>4, OnePlace
      <3>6. nx = ClosedPlace(s, t)
        BY <3>2, <3>5, MoveFacts DEF TypeInv
      <3> QED BY <2>4, <3>6 DEF ClosedPlace, Past
    <2> QED BY <2>3, <2>4 DEF Listed
  <1> QED BY <1>1, <1>2 DEF ListInv

-----------------------------------------------------------------------------
(* All of it. *)

\* The inductive invariant.
Inv == /\ TypeInv /\ ConnInv /\ StopInv /\ GotInv /\ LateInv
       /\ Whole => WholeInv /\ EntryInv /\ PairInv

\* At first nothing is connected, listed or stopped.
LEMMA InitInv ==
    ASSUME EndpointAssumption, Init
    PROVE  Inv
  <1>1. TypeInv
    BY InitTypes
  <1>2. \A s \in Side : \A t \in Thread(s) : thread[s][t] = Start(s, t)
    BY DEF Init
  <1>3. EntryInv
    <2> SUFFICES ASSUME NEW t \in Thread("host"), NEW k \in DOMAIN Opens["host"][t]
                 PROVE  entries[Opens["host"][t][k]] <=
                            HostPart(thread["host"][t], k) + HandlerPart(Mirror(Opens["host"][t][k]))
      BY DEF EntryInv
    <2>1. Opens["host"][t][k] \in Channel("host")
      BY Lists DEF Side
    <2>2. entries[Opens["host"][t][k]] = 0
      BY <2>1 DEF Init, NewAcceptor, Tag
    <2> QED BY <2>2 DEF HostPart, HandlerPart
  <1>4. ConnInv
    <2>1. \A t \in Thread("client") : \A k \in DOMAIN Opens["client"][t] : Opens["client"][t][k] \in Connection
      BY Lists DEF Side, Connection
    <2> QED BY <2>1 DEF Init, ConnInv
  <1>5. PairInv
    BY DEF Init, NewAcceptor, PairInv, Side, Tag
  <1>6. StopInv
    BY DEF Init, StopInv
  <1>7. GotInv
    <2> SUFFICES ASSUME NEW s \in Side, NEW t \in Thread(s), NEW k \in DOMAIN Opens[s][t],
                        Has(Start(s, t), k) \/ Now(Start(s, t), k, {"names"})
                 PROVE  FALSE
      BY <1>2 DEF GotInv
    <2>1. k \in Nat /\ k >= 1 /\ Opens[s][t] # <<>>
      BY Lists
    <2>2. Start(s, t) = [pc |-> "add", at |-> 1, entry |-> 0]
      BY <2>1 DEF Start
    <2> QED BY <2>1, <2>2 DEF Has, Past, Now
  <1>8. LateInv
    BY DEF Init, NewIOService, LateInv
  <1>9. WholeInv
    BY DEF Init, NewAcceptor, WholeInv
  <1> QED BY <1>1, <1>3, <1>4, <1>5, <1>6, <1>7, <1>8, <1>9 DEF Inv

\* Every step keeps the invariant.
LEMMA StepInv ==
    ASSUME EndpointAssumption, Inv, [Next]_vars
    PROVE  Inv'
  <1>1. TypeInv' /\ ConnInv' /\ StopInv' /\ GotInv' /\ LateInv'
    BY StepTypes, ConnectionsInOrder, StopCounted, SocketsStay, LatesKept DEF Inv
  <1>2. Whole => WholeInv' /\ EntryInv' /\ PairInv'
    BY WholeKept, EntriesCounted, PairsKept DEF Inv
  <1> QED BY <1>1, <1>2 DEF Inv, Whole

\* What SafetySpec keeps: the order of connections, when threads and stop have a socket and, when
\* all names arrive, what it is and the counts of entries.
THEOREM Invariance ==
    ASSUME EndpointAssumption
    PROVE  SafetySpec => []Inv
  <1>1. Init => Inv
    BY InitInv
  <1>2. Inv /\ [Next]_vars => Inv'
    BY StepInv
  <1> QED BY <1>1, <1>2, PTL DEF SafetySpec

\* No index leaves its list, and no entry is looked for that the map has not got, however many
\* threads add channels at once, also when clients die or names come in pieces.
THEOREM EndpointTypes ==
    ASSUME EndpointAssumption
    PROVE  SafetySpec => []TypeOK
  <1>1. Inv => TypeOK
    BY DEF Inv, TypeInv, ThreadType, EndType, AcceptorType, HandlerSteps, PlaceOK, Place, List, Steps, TypeOK
  <1> QED BY <1>1, Invariance, PTL

\* Whoever looks an entry up finds room for another.
RoomLeft ==
    /\ \A t \in Thread("host") :
          thread["host"][t].pc = "lookup" => entries[Current("host", t)] < MaxEntries
    /\ \A c \in Connection : handler[c].pc = "lookup" => entries[handler[c].tag] < MaxEntries

\* When all names arrive, MaxEntries leaves no race of mSocketPromises out: the host's thread and
\* the handler of the connection may each add two entries to a tag, one when none is found under
\* the lock and one when operator[] misses it without the lock, and nobody else adds to it.
THEOREM EntriesFit ==
    ASSUME EndpointAssumption, Whole
    PROVE  SafetySpec => []RoomLeft
  <1>1. ASSUME Inv, NEW t \in Thread("host"), thread["host"][t].pc = "lookup"
        PROVE  entries[Current("host", t)] < MaxEntries
    <2> DEFINE th == thread["host"][t]
               tag == Current("host", t)
    <2>1. PlaceOK("host", t, th)
      BY <1>1 DEF Inv, TypeInv, ThreadType, Side
    <2>2. th.at \in DOMAIN Opens["host"][t] /\ th.at \in Nat /\ tag \in Channel("host")
      BY <1>1, <2>1, Lists DEF PlaceOK, Place, List, Side, Current
    <2>3. entries[tag] <= HostPart(th, th.at) + HandlerPart(Mirror(tag)) /\ entries[tag] \in Nat
      <3>1. EntryInv /\ entries \in [Tag -> 0..MaxEntries]
        BY <1>1 DEF Inv, TypeInv, AcceptorType
      <3>2. entries[tag] <= HostPart(th, th.at) + HandlerPart(Mirror(tag))
        BY <2>2, <3>1 DEF EntryInv, Current
      <3> QED BY <2>2, <3>1, <3>2 DEF Tag
    <2>4. HostPart(th, th.at) = 1
      <3> HIDE DEF th
      <3>1. th.pc = "lookup" /\ th.at \in Nat
        BY <1>1, <2>2 DEF th
      <3> QED BY <3>1 DEF HostPart, Has, Past, Now
    <2>5. HandlerPart(Mirror(tag)) \in 0..2
      BY DEF HandlerPart
    <2> QED BY <2>3, <2>4, <2>5 DEF MaxEntries
  <1>2. ASSUME Inv, NEW c \in Connection, handler[c].pc = "lookup"
        PROVE  entries[handler[c].tag] < MaxEntries
    <2> DEFINE tag == Mirror(c)
    <2>1. tag \in Channel("host") /\ Mirror(tag) = c /\ handler[c].tag = tag
      BY <1>2, Mirrors DEF Inv, WholeInv
    <2>2. PICK t \in Thread("host") : \E k \in DOMAIN Opens["host"][t] : Opens["host"][t][k] = tag
      BY <2>1, SomePlace DEF Side
    <2>3. PICK k \in DOMAIN Opens["host"][t] : Opens["host"][t][k] = tag
      BY <2>2
    <2>4. entries[tag] <= HostPart(thread["host"][t], k) + HandlerPart(c) /\ entries[tag] \in Nat
      BY <1>2, <2>1, <2>3 DEF Inv, EntryInv, TypeInv, AcceptorType, Tag
    <2>5. HostPart(thread["host"][t], k) \in 0..2 /\ HandlerPart(c) = 1
      BY <1>2 DEF HostPart, HandlerPart
    <2> QED BY <2>1, <2>4, <2>5 DEF MaxEntries
  <1>3. Inv => RoomLeft
    BY <1>1, <1>2 DEF RoomLeft
  <1> QED BY <1>3, Invariance, PTL

\* BtEndpoint::addChannel of the host returns the socket of the client's channel with the same
\* two names, swapped, and only when the client has sent them, as long as all names arrive:
\* connections that are accepted in any order, and handlers and threads that race for an entry of
\* mSocketPromises, mix up none. Without that condition it is false, as the tests after the
\* receives in BtAcceptor::start pass whatever was received.
THEOREM SocketsPaired ==
    ASSUME EndpointAssumption, Whole
    PROVE  SafetySpec => []Paired
  <1>1. Inv => Paired
    BY Mirrors DEF Inv, PairInv, Paired
  <1> QED BY <1>1, Invariance, PTL

\* BtEndpoint::stop returns only when every channel was removed: mDoneProm is set by the removal
\* of the last channel after stop, or by stop when none is left, and by nothing else, wherever
\* closing threads and stop meet, also when a client dies or names come in pieces.
THEOREM StopWaits ==
    ASSUME EndpointAssumption
    PROVE  SafetySpec => [](DoneWhenLast /\ StopBlocks)
  <1>1. Inv => DoneWhenLast /\ StopBlocks
    BY DEF Inv, StopInv, DoneWhenLast, StopBlocks
  <1> QED BY <1>1, Invariance, PTL

\* A host that calls stop when its threads have their channels deletes the acceptor, in
\* BtIOService::stop, after the last handler of a connection has run, if all names arrive: every
\* promise is set by then.
THEOREM AcceptorOutlives ==
    ASSUME EndpointAssumption, Whole, StopWhen["host"] # "any"
    PROVE  SafetySpec => []HandlersEnd
  <1>1. ASSUME Inv, acceptor = "gone", NEW c \in Connection
        PROVE  handler[c].pc = "done"
    <2>1. \A t \in Thread("host") : Past(thread["host"][t])
      BY <1>1 DEF Inv, LateInv, Side
    <2>2. Mirror(c) \in Channel("host") /\ Mirror(Mirror(c)) = c
      BY Mirrors
    <2>3. socket["host"][Mirror(c)] # NoSocket
      BY <1>1, <2>1, <2>2, SomePlace DEF Inv, GotInv, Has, Side
    <2> QED BY <1>1, <2>2, <2>3 DEF Inv, PairInv
  <1>2. Inv => HandlersEnd
    BY <1>1 DEF HandlersEnd
  <1> QED BY <1>2, Invariance, PTL

\* Nothing crashes a polite program.
LEMMA NoCrash ==
    ASSUME EndpointAssumption, Polite, Inv, ListInv, NeverCrash, [Next]_vars
    PROVE  NeverCrash'
  <1> USE DEF NeverCrash
  <1>1. ASSUME NEW s \in Side, NEW t \in Thread(s), Add(s, t)
        PROVE  ~stopped[s]
    <2>1. ~Past(thread[s][t])
      BY <1>1 DEF Add, At, Past
    <2> QED BY <2>1 DEF Inv, LateInv, StopInv, Polite
  <1>2. ASSUME NEW c \in Connection, HandlerSet(c)
        PROVE  promise[handler[c].tag][handler[c].entry] = NoSocket
    <2>1. handler[c].pc = "set" /\ handler[c].entry \in 1..MaxEntries
      BY <1>2 DEF HandlerSet, HandlerAt, Inv, TypeInv, AcceptorType
    <2>2. handler[c].tag = Mirror(c) /\ PairInv
      BY <2>1 DEF Inv, WholeInv, Polite
    <2> QED BY <2>1, <2>2, Mirrors DEF PairInv
  <1>3. ASSUME NEW s \in Side, NEW t \in Thread(s), Close(s, t)
        PROVE  /\ socket[s][Closes[s][t][thread[s][t].at]] # NoSocket
               /\ ~done[s]
    <2> DEFINE th == thread[s][t]
               ch == Closes[s][t][th.at]
    <2>1. th.pc = "use" /\ th.at \in DOMAIN Closes[s][t] /\ th.at \in Nat
      <3>1. th.pc = "use"
        BY <1>3 DEF Close, At
      <3>2. PlaceOK(s, t, th) /\ Closes[s][t] \in Seq(Channel(s))
        BY Lists DEF Inv, TypeInv, ThreadType
      <3> QED BY <3>1, <3>2 DEF PlaceOK, Place, List
    <2>2. \E k \in DOMAIN Opens[s][t] : ch = Opens[s][t][k]
      BY <2>1 DEF Polite, ToSet
    <2>3. socket[s][ch] # NoSocket
      BY <2>1, <2>2 DEF Inv, GotInv, Has, Past
    <2>4. ch \in channels[s]
      BY <2>1 DEF ListInv, Listed
    <2>5. done[s] => channels[s] = {}
      BY DEF Inv, StopInv
    <2> QED BY <2>3, <2>4, <2>5
  <1>4. ASSUME NEW s \in Side, Stop(s)
        PROVE  ~done[s]
    BY <1>4 DEF Stop, Inv, StopInv
  <1>5. ASSUME NEW s \in Side, Look(s) \/ Read(s)
        PROVE  FALSE
    BY <1>5 DEF Look, Read, ListInv, Polite
  <1>6. ASSUME NEW c \in Connection, Die(c)
        PROVE  FALSE
    BY <1>6 DEF Die, Polite, Whole
  <1>7. ASSUME NEW s \in Side, NEW t \in Thread(s), Add(s, t) \/ Close(s, t)
        PROVE  UNCHANGED crashed
    <2>1. CASE Add(s, t)
      BY <1>1, <2>1 DEF Add
    <2>2. CASE Close(s, t)
      BY <1>3, <2>2 DEF Close
    <2> QED BY <1>7, <2>1, <2>2
  <1>8. \A c \in Connection : HandlerStep(c) => UNCHANGED crashed
    <2>1. \A c \in Connection : ~Cut(c)
      BY DEF Cut, HandlerAt, Inv, WholeInv, Polite, Whole
    <2> QED BY <1>2, <2>1 DEF HandlerStep, Accept, Header, Body, Find, HandlerInsert, HandlerLookup, HandlerSet
  <1>9. \A s \in Side : EndStep(s) => UNCHANGED crashed
    BY <1>4 DEF EndStep, Stop, StopReturns
  <1>10. UNCHANGED crashed
    BY <1>5, <1>6, <1>7, <1>8, <1>9
       DEF vars, Next, Listen, IosStop, ClientStep, Connect, SendNames, HostStep, HostFind, HostInsert,
           HostLookup, HostGet
  <1> QED BY <1>10

\* Programs whose threads close the channels they added, that stop after that and get all names,
\* never throw: addChannel after stop, set_value on a promise that has its value, a null socket and
\* a channel that is gone cannot be met, whatever the order of threads and handlers.
THEOREM ProgramsRun ==
    ASSUME EndpointAssumption, Polite
    PROVE  SafetySpec => []NeverCrash
  <1>1. Init => ListInv /\ NeverCrash
    <2> SUFFICES ASSUME Init
                 PROVE  ListInv /\ NeverCrash
      OBVIOUS
    <2>1. ASSUME NEW s \in Side, NEW t \in Thread(s)
          PROVE  Listed(s, t, thread[s][t], channels[s])
      <3>1. /\ ToSet(Closes[s][t]) \subseteq ToSet(Opens[s][t])
            /\ Closes[s][t] \in Seq(Channel(s)) /\ Closes[s][t] # <<>>
        BY Lists DEF Polite
      <3>2. Closes[s][t][1] \in ToSet(Opens[s][t])
        <4>1. 1 \in DOMAIN Closes[s][t]
          BY <3>1
        <4> QED BY <3>1, <4>1 DEF ToSet
      <3>3. Opens[s][t] # <<>>
        BY <3>2 DEF ToSet
      <3>4. thread[s][t] = [pc |-> "add", at |-> 1, entry |-> 0]
        BY <3>3 DEF Init, Start
      <3>5. \A k \in DOMAIN Opens[s][t] : k \in Nat /\ k >= 1
        BY Lists
      <3> QED BY <3>4, <3>5 DEF Listed
    <2> QED BY <2>1 DEF Init, ListInv, NeverCrash
  <1>2. Inv /\ ListInv /\ NeverCrash /\ [Next]_vars => ListInv' /\ NeverCrash'
    BY ListsKept, NoCrash DEF Inv
  <1> QED BY <1>1, <1>2, Invariance, PTL DEF SafetySpec

=============================================================================
