----------------------------- MODULE SeedCommit -----------------------------
(***************************************************************************)
(* random_seed_commit (libBDX/OT/Tools.cpp) over CommitComm and CommitOpen *)
(* (libBDX/Crypto/Commit.cpp): two parties toss a seed together.  Each     *)
(* sends a commitment to its own, receives the other's, then opens; the    *)
(* seed is the sum of both.  A commitment is the hash of the bytes and     *)
(* SEED_SIZE random ones; the hash is one to one here.                     *)
(***************************************************************************)
EXTENDS Integers, Sequences

CONSTANTS len,           \* bytes of the seed
          SEED_SIZE,
          Byte
SeedCommitAssumption == len \in Nat /\ SEED_SIZE \in Nat /\ Byte = {0, 1}

Party == {0, 1}

VARIABLES mySeed, myOpen, theirComm,
          chl,           \* what is under way to each party
          pc, seed

vars == <<mySeed, myOpen, theirComm, chl, pc, seed>>

SeedBytes == [1..len -> Byte]
Rand  == [1..SEED_SIZE -> Byte]
hash(bytes) == <<"SHA1", bytes>>
Sum(a, b) == [i \in 1..len |-> (a[i] + b[i]) % 2]
Nothing == <<>>

Init == /\ mySeed \in [Party -> SeedBytes]
        /\ \E rand \in [Party -> Rand] : myOpen = [p \in Party |-> mySeed[p] \o rand[p]]
        /\ theirComm = [p \in Party |-> Nothing]
        /\ chl = [p \in Party |-> <<>>]
        /\ pc = [p \in Party |-> "sendComm"]
        /\ seed = [p \in Party |-> Nothing]

At(p, label) == pc[p] = label
Goto(p, label) == pc' = [pc EXCEPT ![p] = label]
Received(p) == chl' = [chl EXCEPT ![p] = Tail(@)]

CommOfData(p) == hash(mySeed[p])                            \* fault: the random bytes are left out
CommOf(p) == hash(myOpen[p])

BothSent(p) == <<CommOf(p), <<"open", myOpen[p]>>>>          \* fault: shown at once
FirstSent(p) == <<CommOf(p)>>
SendComm(p) == /\ At(p, "sendComm")
               /\ chl' = [chl EXCEPT ![1 - p] = @ \o FirstSent(p)]
               /\ Goto(p, "recvComm")
               /\ UNCHANGED <<mySeed, myOpen, theirComm, seed>>
FirstNeeded(p) == Len(chl[p]) > 1                           \* fault: waits for a second message
FirstThere(p) == chl[p] # <<>>
RecvComm(p) == /\ At(p, "recvComm") /\ FirstThere(p)
               /\ theirComm' = [theirComm EXCEPT ![p] = Head(chl[p])]
               /\ Received(p) /\ Goto(p, "sendOpen")
               /\ UNCHANGED <<mySeed, myOpen, seed>>

SendOpen(p) == /\ At(p, "sendOpen")
               /\ chl' = [chl EXCEPT ![1 - p] = Append(@, <<"open", myOpen[p]>>)]
               /\ Goto(p, "recvOpen")
               /\ UNCHANGED <<mySeed, myOpen, theirComm, seed>>

Opened(bytes) == SubSeq(bytes, 1, Len(bytes) - SEED_SIZE)   \* setp(tellp() - SEED_SIZE)
SeedWhole(p, their) == mySeed[p] \o their                   \* fault: put together, not added
SeedOf(p, their) == Sum(mySeed[p], their)
RecvOpen(p) == /\ At(p, "recvOpen") /\ chl[p] # <<>>
               /\ LET bytes == Head(chl[p])[2] IN
                  IF hash(bytes) # theirComm[p]
                  THEN Goto(p, "thrown") /\ UNCHANGED seed
                  ELSE /\ seed' = [seed EXCEPT ![p] = SeedOf(p, Opened(bytes))]
                       /\ Goto(p, "returned")
               /\ Received(p) /\ UNCHANGED <<mySeed, myOpen, theirComm>>

Step(p) == SendComm(p) \/ RecvComm(p) \/ SendOpen(p) \/ RecvOpen(p)
Next == \E p \in Party : Step(p)
Spec == Init /\ [][Next]_vars /\ \A p \in Party : WF_vars(Step(p))
-----------------------------------------------------------------------------
TypeOK == \A p \in Party :
    /\ pc[p] \in {"sendComm", "recvComm", "sendOpen", "recvOpen", "returned", "thrown"}
    /\ seed[p] \in {Nothing} \cup SeedBytes /\ Len(chl[p]) <= 2

\* Both return the sum of what they chose, which neither's commitment refuses.
SumOfBoth == \A p \in Party :
    /\ pc[p] # "thrown"
    /\ pc[p] = "returned" => seed[p] = Sum(mySeed[0], mySeed[1])

\* Nobody shows its seed before the other party has committed to one.
ShownOnlyThen == \A p \in Party : \A i \in DOMAIN chl[p] :
    chl[p][i][1] = "open" => theirComm[1-p] = CommOf(p)

\* Both return.
Returned == \A p \in Party : pc[p] = "returned"
BothReturn == <>Returned

=============================================================================
