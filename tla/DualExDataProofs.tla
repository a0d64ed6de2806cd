--------------------------- MODULE DualExDataProofs ---------------------------
(***************************************************************************)
(* What the buckets, the buffers of labels and the rows under way hold.    *)
(*                                                                         *)
(* The argument: in the state in which the threads of gone have left each  *)
(* program counter of an execution, Facts says what its bucket holds, and  *)
(* RowsHold what the rows on the eval channels are.  Both parties draw the *)
(* same PSI value for the circuits that agree, one match is in the         *)
(* intersection, and its opening is the only one that does not count as a  *)
(* miss.  So no check fails, and execute returns the function's value.     *)
(***************************************************************************)
EXTENDS DualExOnlineProofs

-----------------------------------------------------------------------------
(* What a bucket holds.  With a thread per circuit the contents of a bucket   *)
(* follow from the threads that have left each program counter of its         *)
(* execution: whose labels are in, which circuits gave the function's value,  *)
(* which PSI inputs are drawn, committed to and opened.                       *)

Gone(p, k) ==
    [their     |-> EvalsPast(p, k, "their"),   own  |-> EvalsPast(p, k, "own"),
     permute   |-> EvalsPast(p, k, "permute"), commits |-> EvalsPast(p, k, "commits"),
     open      |-> EvalsPast(p, k, "open"),
     received  |-> SubsPast(p, k, "permute"),
     committed |-> SubsPast(p, k, "commit")]

GoneType == [their : SUBSET Circuit, own : SUBSET Circuit, permute : SUBSET Circuit,
             commits : SUBSET Circuit, open : SUBSET Circuit,
             received : SUBSET Circuit, committed : SUBSET Circuit]

\* Thread i has left one more of the counters.
Joined(s, f, i) == [s EXCEPT ![f] = @ \cup {i}]

\* At most one PSI input of a party is the common value, and the first one drawn is.
OneCommon(psi) ==
    /\ \A c, d \in Circuit : psi[c] = "common" /\ psi[d] = "common" => c = d
    /\ (\E c \in Circuit : psi[c] # "none") => \E d \in Circuit : psi[d] = "common"

Missing(psi, S) == {i \in S : psi[i] # "common"}

Facts(b, s) ==
    /\ b.labelsIn = s.their /\ b.permutes = s.received /\ b.commits = s.commits
    /\ \A i \in s.own : b.result[i] = "good"
    /\ OneCommon(b.psi)
    /\ \A i \in s.permute : b.psi[i] # "none"
    /\ \A i \in s.committed : b.pse[i] = b.psi[i] /\ b.psi[i] # "none"
    /\ b.misses = Cardinality(Missing(b.psi, s.open))
    /\ b.output = IF \E i \in s.open : b.psi[i] = "common" THEN "good" ELSE "none"

Holds(b) == <<b.labelsIn, b.permutes, b.commits, b.result, b.psi, b.pse, b.misses, b.output>>

LEMMA SameFacts ==
    ASSUME NEW b, NEW c, NEW s, Facts(b, s), Holds(c) = Holds(b)
    PROVE  Facts(c, s)
  <1>1. /\ c.labelsIn = b.labelsIn /\ c.permutes = b.permutes /\ c.commits = b.commits
        /\ c.result = b.result /\ c.psi = b.psi /\ c.pse = b.pse
        /\ c.misses = b.misses /\ c.output = b.output
    BY DEF Holds
  <1> QED BY <1>1 DEF Facts

LEMMA CircuitFinite == IsFiniteSet(Circuit) /\ Cardinality(Circuit) = BucketSize
  BY FS_Interval, SizeAssumption DEF Circuit

\* Labels, results, masked inputs and commitments that arrive.
LEMMA ArrivalFacts ==
    ASSUME NEW b \in BucketType, NEW s \in GoneType, NEW i \in Circuit, Facts(b, s)
    PROVE  /\ Facts([b EXCEPT !.labelsIn = @ \cup {i}], Joined(s, "their", i))
           /\ Facts([b EXCEPT !.result[i] = "good"], Joined(s, "own", i))
           /\ Facts([b EXCEPT !.permutes = @ \cup {i}, !.permuteLeft = @ - 1],
                    Joined(s, "received", i))
           /\ Facts([b EXCEPT !.commits = @ \cup {i}, !.commitLeft = @ - 1],
                    Joined(s, "commits", i))
           /\ b.psi[i] # "none" => Facts(b, Joined(s, "permute", i))
  <1>1. Facts([b EXCEPT !.labelsIn = @ \cup {i}], Joined(s, "their", i))
    <2> DEFINE c == [b EXCEPT !.labelsIn = @ \cup {i}]
               u == Joined(s, "their", i)
    <2>1. /\ c.labelsIn = b.labelsIn \cup {i} /\ c.permutes = b.permutes /\ c.commits = b.commits
          /\ c.result = b.result /\ c.psi = b.psi /\ c.pse = b.pse
          /\ c.misses = b.misses /\ c.output = b.output
      BY DEF BucketType
    <2>2. /\ u.their = s.their \cup {i} /\ u.own = s.own /\ u.permute = s.permute
          /\ u.commits = s.commits /\ u.open = s.open /\ u.received = s.received
          /\ u.committed = s.committed
      BY DEF GoneType, Joined
    <2> HIDE DEF c, u
    <2>3. Facts(c, u)
      BY <2>1, <2>2 DEF Facts
    <2> QED BY <2>3 DEF c, u
  <1>2. Facts([b EXCEPT !.result[i] = "good"], Joined(s, "own", i))
    <2> DEFINE c == [b EXCEPT !.result[i] = "good"]
               u == Joined(s, "own", i)
    <2>1. /\ c.labelsIn = b.labelsIn /\ c.permutes = b.permutes /\ c.commits = b.commits
          /\ c.psi = b.psi /\ c.pse = b.pse /\ c.misses = b.misses /\ c.output = b.output
          /\ \A j \in Circuit : c.result[j] = IF j = i THEN "good" ELSE b.result[j]
      BY DEF BucketType
    <2>2. /\ u.their = s.their /\ u.own = s.own \cup {i} /\ u.permute = s.permute
          /\ u.commits = s.commits /\ u.open = s.open /\ u.received = s.received
          /\ u.committed = s.committed /\ s.own \subseteq Circuit
      BY DEF GoneType, Joined
    <2> HIDE DEF c, u
    <2>3. \A j \in u.own : c.result[j] = "good"
      BY <2>1, <2>2 DEF Facts
    <2>4. Facts(c, u)
      BY <2>1, <2>2, <2>3 DEF Facts
    <2> QED BY <2>4 DEF c, u
  <1>3. Facts([b EXCEPT !.permutes = @ \cup {i}, !.permuteLeft = @ - 1],
              Joined(s, "received", i))
    <2> DEFINE c == [b EXCEPT !.permutes = @ \cup {i}, !.permuteLeft = @ - 1]
               u == Joined(s, "received", i)
    <2>1. /\ c.labelsIn = b.labelsIn /\ c.permutes = b.permutes \cup {i} /\ c.commits = b.commits
          /\ c.result = b.result /\ c.psi = b.psi /\ c.pse = b.pse
          /\ c.misses = b.misses /\ c.output = b.output
      BY DEF BucketType
    <2>2. /\ u.their = s.their /\ u.own = s.own /\ u.permute = s.permute
          /\ u.commits = s.commits /\ u.open = s.open /\ u.received = s.received \cup {i}
          /\ u.committed = s.committed
      BY DEF GoneType, Joined
    <2> HIDE DEF c, u
    <2>3. Facts(c, u)
      BY <2>1, <2>2 DEF Facts
    <2> QED BY <2>3 DEF c, u
  <1>4. Facts([b EXCEPT !.commits = @ \cup {i}, !.commitLeft = @ - 1],
              Joined(s, "commits", i))
    <2> DEFINE c == [b EXCEPT !.commits = @ \cup {i}, !.commitLeft = @ - 1]
               u == Joined(s, "commits", i)
    <2>1. /\ c.labelsIn = b.labelsIn /\ c.permutes = b.permutes /\ c.commits = b.commits \cup {i}
          /\ c.result = b.result /\ c.psi = b.psi /\ c.pse = b.pse
          /\ c.misses = b.misses /\ c.output = b.output
      BY DEF BucketType
    <2>2. /\ u.their = s.their /\ u.own = s.own /\ u.permute = s.permute
          /\ u.commits = s.commits \cup {i} /\ u.open = s.open /\ u.received = s.received
          /\ u.committed = s.committed
      BY DEF GoneType, Joined
    <2> HIDE DEF c, u
    <2>3. Facts(c, u)
      BY <2>1, <2>2 DEF Facts
    <2> QED BY <2>3 DEF c, u
  <1>5. ASSUME b.psi[i] # "none" PROVE Facts(b, Joined(s, "permute", i))
    <2> DEFINE u == Joined(s, "permute", i)
    <2>2. /\ u.their = s.their /\ u.own = s.own /\ u.permute = s.permute \cup {i}
          /\ u.commits = s.commits /\ u.open = s.open /\ u.received = s.received
          /\ u.committed = s.committed
      BY DEF GoneType, Joined
    <2> HIDE DEF u
    <2>3. Facts(b, u)
      BY <1>5, <2>2 DEF Facts
    <2> QED BY <2>3 DEF u
  <1> QED BY <1>1, <1>2, <1>3, <1>4, <1>5

\* Drawing: the first value drawn is the common one, the others are fresh.
LEMMA DrawFacts ==
    ASSUME NEW b \in BucketType, NEW s \in GoneType, NEW i \in s.own, NEW place \in Circuit,
           Facts(b, s), s.open \subseteq s.permute, b.psi[place] = "none"
    PROVE  Facts([b EXCEPT !.psi[place] = ValueToDraw(b, i)], s)
  <1> DEFINE v == ValueToDraw(b, i)
             c == [b EXCEPT !.psi[place] = v]
  <1>1. /\ c.labelsIn = b.labelsIn /\ c.permutes = b.permutes /\ c.commits = b.commits
        /\ c.result = b.result /\ c.pse = b.pse /\ c.misses = b.misses /\ c.output = b.output
        /\ \A j \in Circuit : c.psi[j] = IF j = place THEN v ELSE b.psi[j]
    BY DEF BucketType
  <1>2. /\ Drawn(b) => v = "fresh"
        /\ ~Drawn(b) => v = "common"
    BY DEF ValueToDraw, Facts
  <1> HIDE DEF c, v
  <1>3. /\ s.open \subseteq Circuit /\ s.permute \subseteq Circuit /\ s.committed \subseteq Circuit
        /\ place \notin s.permute /\ place \notin s.open /\ place \notin s.committed
    BY DEF Facts, GoneType
  <1>4. OneCommon(c.psi)
    <2>1. CASE Drawn(b)
      BY <1>1, <1>2, <2>1 DEF Facts, OneCommon, Drawn
    <2>2. CASE ~Drawn(b)
      BY <1>1, <1>2, <2>2 DEF Facts, OneCommon, Drawn
    <2> QED BY <2>1, <2>2
  <1>5. \A j \in s.open : c.psi[j] = b.psi[j]
    BY <1>1, <1>3
  <1>6. Missing(c.psi, s.open) = Missing(b.psi, s.open)
    BY <1>5 DEF Missing
  <1>7. \A j \in s.permute \cup s.committed : c.psi[j] = b.psi[j]
    BY <1>1, <1>3
  <1>8. Facts(c, s)
    BY <1>1, <1>4, <1>5, <1>6, <1>7 DEF Facts
  <1> QED BY <1>8 DEF c, v

LEMMA CommitFacts ==
    ASSUME NEW b \in BucketType, NEW s \in GoneType, NEW i \in Circuit, Facts(b, s),
           b.psi[i] # "none"
    PROVE  Facts([b EXCEPT !.pse[i] = b.psi[i], !.pseLeft = @ - 1],
                 Joined(s, "committed", i))
  <1> DEFINE c == [b EXCEPT !.pse[i] = b.psi[i], !.pseLeft = @ - 1]
             u == Joined(s, "committed", i)
  <1>1. /\ c.labelsIn = b.labelsIn /\ c.permutes = b.permutes /\ c.commits = b.commits
        /\ c.result = b.result /\ c.psi = b.psi /\ c.misses = b.misses /\ c.output = b.output
        /\ \A j \in Circuit : c.pse[j] = IF j = i THEN b.psi[i] ELSE b.pse[j]
    BY DEF BucketType
  <1>2. /\ u.their = s.their /\ u.own = s.own /\ u.permute = s.permute
        /\ u.commits = s.commits /\ u.open = s.open /\ u.received = s.received
        /\ u.committed = s.committed \cup {i} /\ s.committed \subseteq Circuit
    BY DEF GoneType, Joined
  <1> HIDE DEF c, u
  <1>3. Facts(c, u)
    BY <1>1, <1>2 DEF Facts
  <1> QED BY <1>3 DEF c, u

LEMMA OpenFacts ==
    ASSUME NEW b \in BucketType, NEW s \in GoneType, NEW i \in Circuit, Facts(b, s), i \notin s.open
    PROVE  LET u == Joined(s, "open", i) IN
           /\ b.psi[i] = "common" => /\ b.output = "none"
                                     /\ Facts([b EXCEPT !.output = "good"], u)
           /\ b.psi[i] # "common" => Facts([b EXCEPT !.misses = @ + 1, !.output = b.output], u)
           /\ (\E d \in Circuit : b.psi[d] = "common") /\ b.psi[i] # "common"
                => b.misses + 1 # BucketSize
  <1> DEFINE u == Joined(s, "open", i)
  <1>2. /\ u.their = s.their /\ u.own = s.own /\ u.permute = s.permute
        /\ u.commits = s.commits /\ u.open = s.open \cup {i} /\ u.received = s.received
        /\ u.committed = s.committed /\ s.open \subseteq Circuit
    BY DEF GoneType, Joined
  <1> HIDE DEF u
  <1>3. /\ IsFiniteSet(Missing(b.psi, s.open)) /\ i \notin Missing(b.psi, s.open)
        /\ Missing(b.psi, s.open) \subseteq Circuit
    BY <1>2, CircuitFinite, FS_Subset DEF Missing
  <1>4. /\ b.psi[i] = "common" => Missing(b.psi, u.open) = Missing(b.psi, s.open)
        /\ b.psi[i] # "common" => Missing(b.psi, u.open) = Missing(b.psi, s.open) \cup {i}
    BY <1>2 DEF Missing
  <1>5. ASSUME b.psi[i] = "common"
        PROVE  b.output = "none" /\ Facts([b EXCEPT !.output = "good"], u)
    <2> DEFINE c == [b EXCEPT !.output = "good"]
    <2>1. /\ c.labelsIn = b.labelsIn /\ c.permutes = b.permutes /\ c.commits = b.commits
          /\ c.result = b.result /\ c.psi = b.psi /\ c.pse = b.pse
          /\ c.misses = b.misses /\ c.output = "good"
      BY DEF BucketType
    <2> HIDE DEF c
    <2>2. b.output = "none"
      BY <1>2, <1>5 DEF Facts, OneCommon
    <2>3. \E j \in u.open : c.psi[j] = "common"
      BY <1>2, <1>5, <2>1
    <2>4. Facts(c, u)
      BY <1>2, <1>4, <1>5, <2>1, <2>3 DEF Facts
    <2> QED BY <2>2, <2>4 DEF c
  <1>6. ASSUME b.psi[i] # "common"
        PROVE  Facts([b EXCEPT !.misses = @ + 1, !.output = b.output], u)
    <2> DEFINE c == [b EXCEPT !.misses = @ + 1, !.output = b.output]
    <2>1. /\ c.labelsIn = b.labelsIn /\ c.permutes = b.permutes /\ c.commits = b.commits
          /\ c.result = b.result /\ c.psi = b.psi /\ c.pse = b.pse
          /\ c.misses = b.misses + 1 /\ c.output = b.output
      BY DEF BucketType
    <2> HIDE DEF c
    <2>2. Cardinality(Missing(b.psi, u.open)) = b.misses + 1
      BY <1>3, <1>4, <1>6, FS_AddElement DEF Facts
    <2>3. (\E j \in u.open : b.psi[j] = "common") <=> \E j \in s.open : b.psi[j] = "common"
      BY <1>2, <1>6
    <2>4. Facts(c, u)
      BY <1>2, <2>1, <2>2, <2>3 DEF Facts
    <2> QED BY <2>4 DEF c
  <1>7. ASSUME NEW d \in Circuit, b.psi[d] = "common", b.psi[i] # "common"
        PROVE  b.misses + 1 # BucketSize
    <2>0. Cardinality(Missing(b.psi, s.open)) = b.misses
      BY DEF Facts
    <2>1. Cardinality(Missing(b.psi, s.open) \cup {i}) = b.misses + 1
      BY <1>3, <2>0, FS_AddElement
    <2>2. Missing(b.psi, s.open) \cup {i} \subseteq Circuit \ {d}
      BY <1>3, <1>7 DEF Missing
    <2>3. /\ IsFiniteSet(Circuit \ {d})
          /\ Cardinality(Circuit \ {d}) = BucketSize - 1
      BY CircuitFinite, FS_RemoveElement
    <2>4. Cardinality(Missing(b.psi, s.open) \cup {i}) <= BucketSize - 1
      BY <2>2, <2>3, FS_Subset
    <2> QED BY <2>1, <2>4, SizeAssumption
  <1> QED BY <1>5, <1>6, <1>7 DEF u

\* Every bucket holds what its threads have put in.
BucketData(p, k) == Facts(bucket[p][k], Gone(p, k))
BucketsHold == \A p \in Party, k \in Exec : BucketData(p, k)

LEMMA ThreadPerCircuit ==
    ASSUME NumThreads = BucketSize
    PROVE  Thread = Circuit
  BY DEF Thread, Circuit

LEMMA GoneTyped ==
    ASSUME NumThreads = BucketSize, NEW p, NEW k
    PROVE  Gone(p, k) \in GoneType
  BY ThreadPerCircuit, SubsPastIsSet DEF Gone, GoneType

\* A thread has left the earlier counters before it leaves a later one.
LEMMA EvalEarlier ==
    ASSUME NEW t \in EvalAtType, NEW k \in Exec
    PROVE  /\ Past(t, EvalOrder, k, "open") => Past(t, EvalOrder, k, "permute")
           /\ t.ex = k /\ t.pc \in {"draw", "permute", "commits", "check", "open"}
                => Past(t, EvalOrder, k, "own")
           /\ t.ex = k /\ t.pc \in {"commits", "check", "open"}
                => Past(t, EvalOrder, k, "permute")
  <1>1. t.ex \in Nat /\ k \in Nat
    BY DEF EvalAtType, At, Exec
  <1>2. \A pc \in EvalPc : EvalOrder[pc] \in Nat
    BY Orders DEF EvalPc
  <1>3. t.pc \in EvalPc
    BY DEF EvalAtType, At
  <1> QED BY <1>1, <1>2, <1>3, Orders DEF Past

LEMMA SameGone ==
    ASSUME NEW r, NEW l,
           \A pc \in {"permute", "commit"} : SubsPast(r, l, pc)' = SubsPast(r, l, pc),
           \A pc \in {"their", "own", "permute", "commits", "open"} :
              EvalsPast(r, l, pc)' = EvalsPast(r, l, pc)
    PROVE  Gone(r, l)' = Gone(r, l)
  <1>1. /\ SubsPast(r, l, "permute")' = SubsPast(r, l, "permute")
        /\ SubsPast(r, l, "commit")' = SubsPast(r, l, "commit")
        /\ EvalsPast(r, l, "their")' = EvalsPast(r, l, "their")
        /\ EvalsPast(r, l, "own")' = EvalsPast(r, l, "own")
        /\ EvalsPast(r, l, "permute")' = EvalsPast(r, l, "permute")
        /\ EvalsPast(r, l, "commits")' = EvalsPast(r, l, "commits")
        /\ EvalsPast(r, l, "open")' = EvalsPast(r, l, "open")
    OBVIOUS
  <1> QED BY <1>1 DEF Gone

LEMMA SubGone ==
    ASSUME TypeOK, NEW p \in Party, NEW i \in Thread, NEW q \in SubPc, SubGoes(p, i, q),
           UNCHANGED eval, NEW r \in Party, NEW l \in Exec
    PROVE  /\ r # p \/ l # sub[p][i].ex \/ q \in {"labels", "check"} => Gone(r, l)' = Gone(r, l)
           /\ r = p /\ l = sub[p][i].ex /\ q = "permute" =>
                Gone(r, l)' = Joined(Gone(r, l), "received", i)
           /\ r = p /\ l = sub[p][i].ex /\ q = "commit" =>
                Gone(r, l)' = Joined(Gone(r, l), "committed", i)
  <1>1. SubJoins(p, i, q)
    BY SubLeaves
  <1>2. \A pc : EvalsPast(r, l, pc)' = EvalsPast(r, l, pc)
    BY EvalsStay
  <1>3. "permute" \in SubPc /\ "commit" \in SubPc
    BY DEF SubPc
  <1>4. \A pc \in {"permute", "commit"} :
           SubsPast(r, l, pc)' = IF r = p /\ l = sub[p][i].ex /\ pc = q
                                 THEN SubsPast(r, l, pc) \cup {i} ELSE SubsPast(r, l, pc)
    BY <1>1, <1>3 DEF SubJoins
  <1>5. r # p \/ l # sub[p][i].ex \/ q \in {"labels", "check"} => Gone(r, l)' = Gone(r, l)
    <2> SUFFICES ASSUME r # p \/ l # sub[p][i].ex \/ q \in {"labels", "check"}
                 PROVE  Gone(r, l)' = Gone(r, l)
      OBVIOUS
    <2>1. \A pc \in {"permute", "commit"} : SubsPast(r, l, pc)' = SubsPast(r, l, pc)
      BY <1>4
    <2> QED BY <1>2, <2>1, SameGone
  <1>6. ASSUME r = p, l = sub[p][i].ex, q \in {"permute", "commit"}
        PROVE  Gone(r, l)' = [their     |-> EvalsPast(r, l, "their"),
                              own       |-> EvalsPast(r, l, "own"),
                              permute   |-> EvalsPast(r, l, "permute"),
                              commits   |-> EvalsPast(r, l, "commits"),
                              open      |-> EvalsPast(r, l, "open"),
                              received  |-> IF q = "permute" THEN SubsPast(r, l, "permute") \cup {i}
                                            ELSE SubsPast(r, l, "permute"),
                              committed |-> IF q = "commit" THEN SubsPast(r, l, "commit") \cup {i}
                                            ELSE SubsPast(r, l, "commit")]
    <2>1. /\ SubsPast(r, l, "permute")' = IF q = "permute" THEN SubsPast(r, l, "permute") \cup {i}
                                          ELSE SubsPast(r, l, "permute")
          /\ SubsPast(r, l, "commit")' = IF q = "commit" THEN SubsPast(r, l, "commit") \cup {i}
                                         ELSE SubsPast(r, l, "commit")
      BY <1>4, <1>6
    <2>2. /\ EvalsPast(r, l, "their")' = EvalsPast(r, l, "their")
          /\ EvalsPast(r, l, "own")' = EvalsPast(r, l, "own")
          /\ EvalsPast(r, l, "permute")' = EvalsPast(r, l, "permute")
          /\ EvalsPast(r, l, "commits")' = EvalsPast(r, l, "commits")
          /\ EvalsPast(r, l, "open")' = EvalsPast(r, l, "open")
      BY <1>2
    <2> QED BY <2>1, <2>2 DEF Gone
  <1>7. ASSUME r = p, l = sub[p][i].ex, q = "permute"
        PROVE  Gone(r, l)' = Joined(Gone(r, l), "received", i)
    <2>1. Gone(r, l)' = [their |-> EvalsPast(r, l, "their"), own |-> EvalsPast(r, l, "own"),
                         permute   |-> EvalsPast(r, l, "permute"),
                         commits   |-> EvalsPast(r, l, "commits"),
                         open      |-> EvalsPast(r, l, "open"),
                         received  |-> SubsPast(r, l, "permute") \cup {i},
                         committed |-> SubsPast(r, l, "commit")]
      BY <1>6, <1>7
    <2> QED BY <2>1 DEF Gone, Joined
  <1>8. ASSUME r = p, l = sub[p][i].ex, q = "commit"
        PROVE  Gone(r, l)' = Joined(Gone(r, l), "committed", i)
    BY <1>6, <1>8 DEF Gone, Joined
  <1> QED BY <1>5, <1>7, <1>8

LEMMA EvalGone ==
    ASSUME TypeOK, NEW p \in Party, NEW i \in Thread, NEW q \in EvalPc, EvalGoes(p, i, q),
           UNCHANGED sub, NEW r \in Party, NEW l \in Exec
    PROVE  /\ r # p \/ l # eval[p][i].ex \/ q \in {"draw", "check"} => Gone(r, l)' = Gone(r, l)
           /\ r = p /\ l = eval[p][i].ex =>
                /\ q = "their"   => Gone(r, l)' = Joined(Gone(r, l), "their", i)
                /\ q = "own"     => Gone(r, l)' = Joined(Gone(r, l), "own", i)
                /\ q = "permute" => Gone(r, l)' = Joined(Gone(r, l), "permute", i)
                /\ q = "commits" => Gone(r, l)' = Joined(Gone(r, l), "commits", i)
                /\ q = "open"    => Gone(r, l)' = Joined(Gone(r, l), "open", i)
  <1>1. EvalJoins(p, i, q)
    BY EvalLeaves
  <1>2. \A pc : SubsPast(r, l, pc)' = SubsPast(r, l, pc)
    BY SubsStay
  <1>3. {"their", "own", "permute", "commits", "open"} \subseteq EvalPc
    BY DEF EvalPc
  <1>4. \A pc \in {"their", "own", "permute", "commits", "open"} :
           EvalsPast(r, l, pc)' = IF r = p /\ l = eval[p][i].ex /\ pc = q
                                  THEN EvalsPast(r, l, pc) \cup {i} ELSE EvalsPast(r, l, pc)
    BY <1>1, <1>3 DEF EvalJoins
  <1>5. r # p \/ l # eval[p][i].ex \/ q \in {"draw", "check"} => Gone(r, l)' = Gone(r, l)
    <2> SUFFICES ASSUME r # p \/ l # eval[p][i].ex \/ q \in {"draw", "check"}
                 PROVE  Gone(r, l)' = Gone(r, l)
      OBVIOUS
    <2>1. \A pc \in {"their", "own", "permute", "commits", "open"} :
             EvalsPast(r, l, pc)' = EvalsPast(r, l, pc)
      BY <1>4
    <2> QED BY <1>2, <2>1, SameGone
  <1> DEFINE Then(pc) == IF pc = q THEN EvalsPast(r, l, pc) \cup {i} ELSE EvalsPast(r, l, pc)
  <1>6. ASSUME r = p, l = eval[p][i].ex
        PROVE  Gone(r, l)' = [their     |-> Then("their"),   own  |-> Then("own"),
                              permute   |-> Then("permute"), commits |-> Then("commits"),
                              open      |-> Then("open"),
                              received  |-> SubsPast(r, l, "permute"),
                              committed |-> SubsPast(r, l, "commit")]
    <2>1. /\ EvalsPast(r, l, "their")' = Then("their")
          /\ EvalsPast(r, l, "own")' = Then("own")
          /\ EvalsPast(r, l, "permute")' = Then("permute")
          /\ EvalsPast(r, l, "commits")' = Then("commits")
          /\ EvalsPast(r, l, "open")' = Then("open")
      BY <1>4, <1>6
    <2>2. /\ SubsPast(r, l, "permute")' = SubsPast(r, l, "permute")
          /\ SubsPast(r, l, "commit")' = SubsPast(r, l, "commit")
      BY <1>2
    <2> HIDE DEF Then
    <2> QED BY <2>1, <2>2 DEF Gone
  <1>7. ASSUME r = p, l = eval[p][i].ex, q = "their"
        PROVE  Gone(r, l)' = Joined(Gone(r, l), "their", i)
    BY <1>6, <1>7 DEF Gone, Joined
  <1>8. ASSUME r = p, l = eval[p][i].ex, q = "own"
        PROVE  Gone(r, l)' = Joined(Gone(r, l), "own", i)
    <2>1. Gone(r, l)' = [their |-> EvalsPast(r, l, "their"), own |-> EvalsPast(r, l, "own") \cup {i},
                         permute   |-> EvalsPast(r, l, "permute"),
                         commits   |-> EvalsPast(r, l, "commits"),
                         open      |-> EvalsPast(r, l, "open"),
                         received  |-> SubsPast(r, l, "permute"),
                         committed |-> SubsPast(r, l, "commit")]
      BY <1>6, <1>8
    <2> QED BY <2>1 DEF Gone, Joined
  <1>9. ASSUME r = p, l = eval[p][i].ex, q = "permute"
        PROVE  Gone(r, l)' = Joined(Gone(r, l), "permute", i)
    BY <1>6, <1>9 DEF Gone, Joined
  <1>10. ASSUME r = p, l = eval[p][i].ex, q = "commits"
         PROVE  Gone(r, l)' = Joined(Gone(r, l), "commits", i)
    BY <1>6, <1>10 DEF Gone, Joined
  <1>11. ASSUME r = p, l = eval[p][i].ex, q = "open"
         PROVE  Gone(r, l)' = Joined(Gone(r, l), "open", i)
    BY <1>6, <1>11 DEF Gone, Joined
  <1> QED BY <1>5, <1>7, <1>8, <1>9, <1>10, <1>11

\* A step that writes one bucket keeps the others' facts.
LEMMA BucketStep ==
    ASSUME TypeOK, BucketsHold, NEW p \in Party, NEW k \in Exec, NEW c, SetBucket(p, k, c),
           Facts(c, Gone(p, k)'),
           \A r \in Party, l \in Exec : r # p \/ l # k => Gone(r, l)' = Gone(r, l)
    PROVE  BucketsHold'
  <1> SUFFICES ASSUME NEW r \in Party, NEW l \in Exec
               PROVE  Facts(bucket'[r][l], Gone(r, l)')
    BY DEF BucketsHold, BucketData, Facts, Missing
  <1>1. bucket'[r][l] = IF r = p /\ l = k THEN c ELSE bucket[r][l]
    BY BucketFrame
  <1>2. Facts(bucket[r][l], Gone(r, l))
    BY DEF BucketsHold, BucketData
  <1>3. CASE r = p /\ l = k
    BY <1>1, <1>3
  <1>4. CASE r # p \/ l # k
    BY <1>1, <1>2, <1>4
  <1> QED BY <1>3, <1>4

LEMMA BucketsStay ==
    ASSUME BucketsHold, UNCHANGED bucket,
           \A r \in Party, l \in Exec : Gone(r, l)' = Gone(r, l)
    PROVE  BucketsHold'
  <1> SUFFICES ASSUME NEW r \in Party, NEW l \in Exec
               PROVE  Facts(bucket'[r][l], Gone(r, l)')
    BY DEF BucketsHold, BucketData, Facts, Missing
  <1>1. Facts(bucket[r][l], Gone(r, l))
    BY DEF BucketsHold, BucketData
  <1> QED BY <1>1

LEMMA QuietBuckets ==
    ASSUME TypeOK, BucketsHold,
           \/ UNCHANGED bucket
           \/ \E p \in Party, k \in Exec : \E c : SetBucket(p, k, c)
                                             /\ Holds(c) = Holds(bucket[p][k]),
           \A r \in Party, l \in Exec : Gone(r, l)' = Gone(r, l)
    PROVE  BucketsHold'
  <1>1. CASE UNCHANGED bucket
    BY <1>1, BucketsStay
  <1>2. ASSUME NEW p \in Party, NEW k \in Exec, NEW c, SetBucket(p, k, c),
               Holds(c) = Holds(bucket[p][k])
        PROVE  BucketsHold'
    <2>1. Facts(bucket[p][k], Gone(p, k))
      BY DEF BucketsHold, BucketData
    <2>2. Facts(c, Gone(p, k))
      BY <1>2, <2>1, SameFacts
    <2>3. Facts(c, Gone(p, k)')
      BY <2>2
    <2> QED BY <1>2, <2>3, BucketStep
  <1> QED BY <1>1, <1>2

LEMMA HoldsEdits ==
    ASSUME NEW b \in BucketType
    PROVE  /\ Holds([b EXCEPT !.input = TRUE]) = Holds(b)
           /\ Holds([b EXCEPT !.correction = TRUE]) = Holds(b)
           /\ Holds([b EXCEPT !.translation = TRUE]) = Holds(b)
           /\ Holds([b EXCEPT !.transLeft = @ - 1]) = Holds(b)
  <1>1. Holds([b EXCEPT !.input = TRUE]) = Holds(b)
    BY DEF BucketType, Holds
  <1>2. Holds([b EXCEPT !.correction = TRUE]) = Holds(b)
    BY DEF BucketType, Holds
  <1>3. Holds([b EXCEPT !.translation = TRUE]) = Holds(b)
    BY DEF BucketType, Holds
  <1>4. Holds([b EXCEPT !.transLeft = @ - 1]) = Holds(b)
    BY DEF BucketType, Holds
  <1> QED BY <1>1, <1>2, <1>3, <1>4

LEMMA GoneStays ==
    ASSUME UNCHANGED <<sub, eval>>, NEW r \in Party, NEW l \in Exec
    PROVE  Gone(r, l)' = Gone(r, l)
  <1>1. \A pc : SubsPast(r, l, pc)' = SubsPast(r, l, pc)
    BY SubsStay
  <1>2. \A pc : EvalsPast(r, l, pc)' = EvalsPast(r, l, pc)
    BY EvalsStay
  <1> QED BY <1>1, <1>2, SameGone

LEMMA MainLoopBuckets ==
    ASSUME TypeOK, BucketsHold, NEW p \in Party, MainStep(p) \/ LoopStep(p)
    PROVE  BucketsHold'
  <1>1. \A r \in Party, l \in Exec : Gone(r, l)' = Gone(r, l)
    <2>1. UNCHANGED <<sub, eval>>
      BY DEF MainStep, MainCall, MainCheckLabels, MainReceiveSeed, MainReturn, MainClose,
             LoopStep, LoopReceiveCorrection, LoopSendSeed, Abort
    <2> QED BY <2>1, GoneStays
  <1>2. /\ main[p].pc \in {"labels", "seed", "output"} => main[p].ex \in Exec
        /\ main[p].ex < NumExe => main[p].ex \in Exec
        /\ loop[p].ex < NumExe => loop[p].ex \in Exec
    BY ThreadsTyped, InExec DEF MainAtType, At
  <1>3. \A k \in Exec : bucket[p][k] \in BucketType
    BY BucketsTyped
  <1>4. CASE MainCall(p)
    <2> DEFINE k == main[p].ex
               b == bucket[p][k]
    <2>1. k \in Exec /\ SetBucket(p, k, [b EXCEPT !.input = TRUE])
      BY <1>2, <1>4 DEF MainCall
    <2>2. Holds([b EXCEPT !.input = TRUE]) = Holds(b)
      BY <1>3, <2>1, HoldsEdits
    <2> QED BY <1>1, <2>1, <2>2, QuietBuckets
  <1>5. CASE MainReceiveSeed(p)
    <2> DEFINE k == main[p].ex
               b == bucket[p][k]
    <2>1. k \in Exec /\ SetBucket(p, k, [b EXCEPT !.translation = TRUE])
      BY <1>2, <1>5 DEF MainReceiveSeed, MainAt
    <2>2. Holds([b EXCEPT !.translation = TRUE]) = Holds(b)
      BY <1>3, <2>1, HoldsEdits
    <2> QED BY <1>1, <2>1, <2>2, QuietBuckets
  <1>6. CASE LoopReceiveCorrection(p)
    <2> DEFINE k == loop[p].ex
               b == bucket[p][k]
    <2>1. k \in Exec /\ SetBucket(p, k, [b EXCEPT !.correction = TRUE])
      BY <1>2, <1>6 DEF LoopReceiveCorrection, LoopAt
    <2>2. Holds([b EXCEPT !.correction = TRUE]) = Holds(b)
      BY <1>3, <2>1, HoldsEdits
    <2> QED BY <1>1, <2>1, <2>2, QuietBuckets
  <1>7. CASE MainCheckLabels(p) \/ MainReturn(p) \/ MainClose(p) \/ LoopSendSeed(p)
    <2>1. UNCHANGED bucket
      BY <1>7 DEF MainCheckLabels, MainReturn, MainClose, LoopSendSeed, Abort
    <2> QED BY <1>1, <2>1, BucketsStay
  <1> QED BY <1>4, <1>5, <1>6, <1>7 DEF MainStep, LoopStep

\* With both countdowns at zero the sets they count are complete.
LEMMA CountedOut ==
    ASSUME NumThreads = BucketSize, TypeOK, CountersExact, NEW p \in Party, NEW k \in Exec
    PROVE  /\ bucket[p][k].permuteLeft = 0 => SubsPast(p, k, "permute") = Circuit
           /\ bucket[p][k].pseLeft = 0 => SubsPast(p, k, "commit") = Circuit
           /\ bucket[p][k].commitLeft = 0 => EvalsPast(p, k, "commits") = Circuit
  <1>1. ExactIn(p, k)
    BY ExactEverywhere
  <1> QED BY <1>1, SubsPastIsSet, CountFacts, ThreadPerCircuit DEF ExactIn

LEMMA SubBuckets ==
    ASSUME NumThreads = BucketSize, TypeOK, CountersExact, BucketsHold,
           NEW p \in Party, NEW i \in Thread, SubStep(p, i)
    PROVE  BucketsHold'
  <1>k. PICK k \in Exec : k = sub[p][i].ex
    BY ThreadsTyped, InExec
       DEF SubStep, SubSendLabels, SubReceivePermute, SubCommit, SubOpen, SubAt
  <1> DEFINE b == bucket[p][k]
  <1>b. b \in BucketType /\ i \in Circuit
    BY <1>k, BucketsTyped, ThreadIsCircuit
  <1>f. Facts(b, Gone(p, k)) /\ Gone(p, k) \in GoneType
    BY <1>k, GoneTyped DEF BucketsHold, BucketData
  <1>e. UNCHANGED eval
    BY DEF SubStep, SubSendLabels, SubReceivePermute, SubCommit, SubOpen
  <1>p. "labels" \in SubPc /\ "permute" \in SubPc /\ "commit" \in SubPc /\ "check" \in SubPc
    BY DEF SubPc
  <1>1. CASE SubSendLabels(p, i)
    <2>1. SubGoes(p, i, "labels") /\ UNCHANGED bucket
      BY <1>1, <1>p, Successors DEF SubSendLabels, SubGoes
    <2>2. \A r \in Party, l \in Exec : Gone(r, l)' = Gone(r, l)
      BY <1>e, <1>p, <2>1, SubGone
    <2> QED BY <2>1, <2>2, BucketsStay
  <1>2. CASE SubReceivePermute(p, i)
    <2> DEFINE c == [b EXCEPT !.permutes = @ \cup {i}, !.permuteLeft = @ - 1]
    <2>1. SubGoes(p, i, "permute")
      BY <1>2, <1>p, Successors DEF SubReceivePermute, SubGoes
    <2>2. SetBucket(p, k, c)
      BY <1>2, <1>k DEF SubReceivePermute, PermuteReceived
    <2>3. Facts(c, Joined(Gone(p, k), "received", i))
      BY <1>b, <1>f, ArrivalFacts
    <2> HIDE DEF c
    <2>g. Gone(p, k)' = Joined(Gone(p, k), "received", i)
      BY <1>e, <1>k, <1>p, <2>1, SubGone
    <2>4. Facts(c, Gone(p, k)')
      BY <2>3, <2>g
    <2>5. \A r \in Party, l \in Exec : r # p \/ l # k => Gone(r, l)' = Gone(r, l)
      BY <1>e, <1>k, <1>p, <2>1, SubGone
    <2> QED BY <1>k, <2>2, <2>4, <2>5, BucketStep
  <1>3. CASE SubCommit(p, i)
    <2> DEFINE c == [b EXCEPT !.pse[i] = b.psi[i], !.pseLeft = @ - 1]
    <2>1. SubGoes(p, i, "commit")
      BY <1>3, <1>p, Successors DEF SubCommit, SubGoes
    <2>2. b.psi[i] # "none" /\ b.permuteLeft = 0
      BY <1>3, <1>k DEF SubCommit
    <2>3. b.permutes = Circuit
      <3>1. SubsPast(p, k, "permute") = Circuit
        BY <1>k, <2>2, CountedOut
      <3> QED BY <1>f, <3>1 DEF Facts, Gone
    <2>4. SetBucket(p, k, c)
      BY <1>3, <1>k, <2>3 DEF SubCommit
    <2>5. Facts(c, Joined(Gone(p, k), "committed", i))
      BY <1>b, <1>f, <2>2, CommitFacts
    <2> HIDE DEF c
    <2>g. Gone(p, k)' = Joined(Gone(p, k), "committed", i)
      BY <1>e, <1>k, <1>p, <2>1, SubGone
    <2>6. Facts(c, Gone(p, k)')
      BY <2>5, <2>g
    <2>7. \A r \in Party, l \in Exec : r # p \/ l # k => Gone(r, l)' = Gone(r, l)
      BY <1>e, <1>k, <1>p, <2>1, SubGone
    <2> QED BY <1>k, <2>4, <2>6, <2>7, BucketStep
  <1>4. CASE SubOpen(p, i)
    <2>1. SubGoes(p, i, "check") /\ UNCHANGED bucket
      BY <1>4 DEF SubOpen, SubGoes
    <2>2. \A r \in Party, l \in Exec : Gone(r, l)' = Gone(r, l)
      BY <1>e, <1>p, <2>1, SubGone
    <2> QED BY <2>1, <2>2, BucketsStay
  <1> QED BY <1>1, <1>2, <1>3, <1>4 DEF SubStep

\* The messages on the channel of rows are for the circuit of their thread,
\* and an opening reveals the peer's finished encodings.
Genuine(p, i, m) ==
    /\ m.kind \in {"own", "their"} => m.cir = i /\ m.len = InputLen[Other(p)]
    /\ m.kind = "open" => /\ SubsPast(Other(p), m.ex, "commit") = Circuit
                          /\ m.row = bucket[Other(p)][m.ex].pse

RowsHold == \A p \in Party, i \in Thread :
                \A n \in 1..Len(net[EvalEnd(p, i)]) : Genuine(p, i, net[EvalEnd(p, i)][n])

\* The label buffers hold what the threads last received.
LabelsHold == \A p \in Party, i \in Thread :
                  labels[p][i] = eval[p][i].ex - IF eval[p][i].pc = "their" THEN 1 ELSE 0
OutLabelsHold == \A p \in Party : outLabels[p] = SeedsIn(main[p]) - 1

DataInv == BucketsHold /\ RowsHold /\ LabelsHold /\ OutLabelsHold

\* The next message a thread receives on the channel of rows.
LEMMA NextRow ==
    ASSUME NumThreads = BucketSize, TypeOK, WireInv, RowsHold, NEW p \in Party, NEW i \in Thread,
           Receivable(EvalEnd(p, i))
    PROVE  LET m == Head(net[EvalEnd(p, i)])
               e == eval[p][i]
           IN  /\ Genuine(p, i, m)
               /\ e.pc = "their" => m.kind = "own" /\ m.ex = e.ex
               /\ e.pc = "own" => m.kind = "their" /\ m.ex = e.ex
               /\ e.pc = "commits" => m.kind = "commits" /\ m.ex = e.ex
               /\ e.pc = "open" => m.kind = "open" /\ m.ex = e.ex
  <1> DEFINE s == net[EvalEnd(p, i)]
  <1>1. s \in Seq(Msg) /\ s # <<>>
    BY EndsType DEF TypeOK, Receivable
  <1>2. Len(s) \in Nat /\ Len(s) >= 1 /\ Head(s) = s[1]
    BY <1>1, EmptySeq, LenProperties, HeadTailProperties
  <1>3. Genuine(p, i, Head(s))
    BY <1>2 DEF RowsHold
  <1>4. WireInStep
    BY WiresInStep
  <1> QED BY <1>1, <1>3, <1>4 DEF WireInStep, IsNext

\* At an opening both intersections are committed and the peer's row is its
\* PSI inputs: the walk matches exactly when ours at this place is the common one.
LEMMA OpeningDecides ==
    ASSUME NumThreads = BucketSize, TypeOK, CountersExact, WireInv, BucketsHold, RowsHold,
           NEW p \in Party, NEW i \in Thread, NEW k \in Exec, k = eval[p][i].ex,
           NEW b, b = bucket[p][k], NEW row, row = Head(net[EvalEnd(p, i)]).row,
           EvalAt(p, i, "open"), b.commitLeft = 0, Receivable(EvalEnd(p, i))
    PROVE  /\ Matches(b, row, i) <=> b.psi[i] = "common"
           /\ Misses(b, row, i) <=> b.psi[i] # "common"
           /\ b.result[i] = "good"
           /\ \E d \in Circuit : b.psi[d] = "common"
  <1> DEFINE o == bucket[Other(p)][k]
  <1>1. Other(p) \in Party /\ i \in Circuit
    BY EndsType, ThreadIsCircuit
  <1>2. Facts(b, Gone(p, k)) /\ Facts(o, Gone(Other(p), k))
    BY <1>1 DEF BucketsHold, BucketData
  <1>3. b.commits = Circuit
    BY <1>2, CountedOut DEF Facts, Gone
  <1>4. row = o.pse /\ SubsPast(Other(p), k, "commit") = Circuit
    BY NextRow DEF Genuine, EvalAt
  <1> HIDE DEF o
  <1>5. \A j \in Circuit : row[j] = o.psi[j] /\ o.psi[j] # "none"
    <2>1. Gone(Other(p), k).committed = Circuit
      BY <1>4 DEF Gone
    <2>2. \A j \in Circuit : o.pse[j] = o.psi[j] /\ o.psi[j] # "none"
      BY <1>2, <2>1 DEF Facts
    <2> QED BY <1>4, <2>2
  <1>6. PICK d \in Circuit : row[d] = "common"
    <2>1. OneCommon(o.psi)
      BY <1>2 DEF Facts
    <2> QED BY <1>1, <1>5, <2>1 DEF OneCommon
  <1>7. i \in EvalsPast(p, k, "own") /\ i \in EvalsPast(p, k, "permute")
    BY ThreadsTyped, EvalEarlier DEF EvalAt, EvalsPast, EvalPast
  <1>8. b.result[i] = "good" /\ b.psi[i] # "none"
    BY <1>2, <1>7 DEF Facts, Gone
  <1>9. \E e \in Circuit : b.psi[e] = "common"
    BY <1>1, <1>2, <1>8 DEF Facts, OneCommon
  <1>10. \A j \in Circuit : Opens(b, row, j)
    BY <1>3, <1>5 DEF Opens
  <1>11. \A j \in Circuit : \A l \in 0..j : l \in Circuit
    BY SizeAssumption DEF Circuit
  <1>12. Matches(b, row, i) <=> b.psi[i] = "common"
    BY <1>6, <1>10, <1>11 DEF Matches
  <1>13. Misses(b, row, i) <=> b.psi[i] # "common"
    BY <1>10, <1>12 DEF Misses
  <1> QED BY <1>8, <1>9, <1>12, <1>13

LEMMA EvalBuckets ==
    ASSUME NumThreads = BucketSize, TypeOK, CountersExact, WireInv, DataInv,
           NEW p \in Party, NEW i \in Thread, EvalStep(p, i), ~Abort(p)
    PROVE  BucketsHold'
  <1>k. PICK k \in Exec : k = eval[p][i].ex
    BY ThreadsTyped, InExec
       DEF EvalStep, EvalReceiveTheirLabels, EvalReceiveOwnLabels, EvalDraw, EvalSendPermute,
           EvalReceiveCommits, EvalCheckTranslation, EvalOpen, EvalAt
  <1> DEFINE b == bucket[p][k]
             s == Gone(p, k)
  <1>b. b \in BucketType /\ i \in Circuit
    BY <1>k, BucketsTyped, ThreadIsCircuit
  <1>f. Facts(b, s) /\ s \in GoneType /\ BucketsHold /\ RowsHold /\ LabelsHold
    BY <1>k, GoneTyped DEF DataInv, BucketsHold, BucketData
  <1>s. UNCHANGED sub
    BY DEF EvalStep, EvalReceiveTheirLabels, EvalReceiveOwnLabels, EvalDraw, EvalSendPermute,
           EvalReceiveCommits, EvalCheckTranslation, EvalOpen
  <1>p. /\ "their" \in EvalPc /\ "own" \in EvalPc /\ "draw" \in EvalPc
        /\ "permute" \in EvalPc /\ "commits" \in EvalPc /\ "check" \in EvalPc
        /\ "open" \in EvalPc
    BY DEF EvalPc
  <1>g. \A q \in EvalPc : EvalGoes(p, i, q) =>
           \A r \in Party, l \in Exec : r # p \/ l # k => Gone(r, l)' = Gone(r, l)
    BY <1>k, <1>s, EvalGone
  <1>1. CASE EvalReceiveTheirLabels(p, i)
    <2> DEFINE c == [b EXCEPT !.labelsIn = @ \cup {i}]
    <2>1. EvalGoes(p, i, "their")
      BY <1>1, <1>p, Successors DEF EvalReceiveTheirLabels, EvalGoes
    <2>2. SetBucket(p, k, c)
      BY <1>1, <1>k DEF EvalReceiveTheirLabels
    <2>3. Facts(c, Joined(s, "their", i))
      BY <1>b, <1>f, ArrivalFacts
    <2> HIDE DEF c
    <2>4. Gone(p, k)' = Joined(s, "their", i)
      BY <1>k, <1>s, <1>p, <2>1, EvalGone
    <2>5. Facts(c, Gone(p, k)')
      BY <2>3, <2>4
    <2> QED BY <1>f, <1>g, <1>p, <2>1, <2>2, <2>5, BucketStep
  <1>2. CASE EvalReceiveOwnLabels(p, i)
    <2> DEFINE c == [b EXCEPT !.result[i] = "good"]
    <2>1. EvalGoes(p, i, "own")
      BY <1>2, <1>p, Successors DEF EvalReceiveOwnLabels, EvalGoes
    <2>2. SetBucket(p, k, c)
      <3> DEFINE m == Head(net[EvalEnd(p, i)])
      <3>1. m.kind = "their" /\ m.ex = k /\ m.cir = i
        BY <1>2, <1>f, <1>k, NextRow DEF EvalReceiveOwnLabels, EvalAt, Genuine
      <3>2. labels[p][i] = k
        <4>1. EvalAt(p, i, "own")
          BY <1>2, Zenon DEF EvalReceiveOwnLabels
        <4>2. labels[p][i] = k - 0
          BY <1>k, <1>f, <4>1 DEF LabelsHold, EvalAt
        <4> QED BY <1>k, <4>2 DEF Exec
      <3> QED BY <1>2, <1>k, <3>1, <3>2 DEF EvalReceiveOwnLabels
    <2>3. Facts(c, Joined(s, "own", i))
      BY <1>b, <1>f, ArrivalFacts
    <2> HIDE DEF c
    <2>4. Gone(p, k)' = Joined(s, "own", i)
      BY <1>k, <1>s, <1>p, <2>1, EvalGone
    <2>5. Facts(c, Gone(p, k)')
      BY <2>3, <2>4
    <2> QED BY <1>f, <1>g, <1>p, <2>1, <2>2, <2>5, BucketStep
  <1>3. CASE EvalDraw(p, i)
    <2>1. EvalGoes(p, i, "draw")
      BY <1>3, <1>p, Successors DEF EvalDraw, EvalGoes
    <2>2. PICK place \in Circuit : /\ b.psi[place] = "none"
                                   /\ SetBucket(p, k, [b EXCEPT !.psi[place] = ValueToDraw(b, i)])
      BY <1>3, <1>k DEF EvalDraw
    <2>3. /\ i \in s.own
          /\ s.open \subseteq s.permute
      <3>1. i \in EvalsPast(p, k, "own")
        BY <1>3, <1>k, ThreadsTyped, EvalEarlier DEF EvalDraw, EvalAt, EvalsPast, EvalPast
      <3>2. EvalsPast(p, k, "open") \subseteq EvalsPast(p, k, "permute")
        BY ThreadsTyped, EvalEarlier DEF EvalsPast, EvalPast
      <3> QED BY <3>1, <3>2 DEF Gone
    <2> DEFINE c == [b EXCEPT !.psi[place] = ValueToDraw(b, i)]
    <2> HIDE DEF s
    <2>4. Facts(c, s)
      BY <1>b, <1>f, <2>2, <2>3, DrawFacts
    <2> HIDE DEF c
    <2>5. Gone(p, k)' = s
      BY <1>k, <1>s, <1>p, <2>1, EvalGone DEF s
    <2>6. Facts(c, Gone(p, k)')
      BY <2>4, <2>5
    <2>7. SetBucket(p, k, c)
      BY <2>2 DEF c
    <2> QED BY <1>f, <1>g, <1>p, <2>1, <2>6, <2>7, BucketStep
  <1>4. CASE EvalSendPermute(p, i)
    <2>1. EvalGoes(p, i, "permute") /\ UNCHANGED bucket
      BY <1>4, <1>p, Successors DEF EvalSendPermute, EvalGoes
    <2>2. b.psi[i] # "none"
      BY <1>4, <1>k DEF EvalSendPermute
    <2>3. Facts(b, Joined(s, "permute", i))
      BY <1>b, <1>f, <2>2, ArrivalFacts
    <2>4. Gone(p, k)' = Joined(s, "permute", i)
      BY <1>k, <1>s, <1>p, <2>1, EvalGone
    <2>5. Facts(b, Gone(p, k)')
      BY <2>3, <2>4
    <2>6. SetBucket(p, k, b)
      <3>1. [bucket EXCEPT ![p][k] = bucket[p][k]] = bucket
        BY DEF TypeOK
      <3> QED BY <2>1, <3>1 DEF SetBucket
    <2> QED BY <1>f, <1>g, <1>p, <2>1, <2>5, <2>6, BucketStep
  <1>5. CASE EvalReceiveCommits(p, i)
    <2> DEFINE c == [b EXCEPT !.commits = @ \cup {i}, !.commitLeft = @ - 1]
    <2>1. EvalGoes(p, i, "commits")
      BY <1>5, <1>p, Successors DEF EvalReceiveCommits, EvalGoes
    <2>2. SetBucket(p, k, c)
      BY <1>5, <1>k DEF EvalReceiveCommits
    <2>3. Facts(c, Joined(s, "commits", i))
      BY <1>b, <1>f, ArrivalFacts
    <2> HIDE DEF c
    <2>4. Gone(p, k)' = Joined(s, "commits", i)
      BY <1>k, <1>s, <1>p, <2>1, EvalGone
    <2>5. Facts(c, Gone(p, k)')
      BY <2>3, <2>4
    <2> QED BY <1>f, <1>g, <1>p, <2>1, <2>2, <2>5, BucketStep
  <1>6. CASE EvalCheckTranslation(p, i)
    <2> DEFINE c == [b EXCEPT !.transLeft = @ - 1]
    <2>1. EvalGoes(p, i, "check")
      BY <1>6, <1>p, Successors DEF EvalCheckTranslation, EvalGoes
    <2>2. SetBucket(p, k, c)
      BY <1>6, <1>k DEF EvalCheckTranslation
    <2>3. Holds(c) = Holds(b)
      BY <1>b, HoldsEdits
    <2>4. \A r \in Party, l \in Exec : Gone(r, l)' = Gone(r, l)
      BY <1>k, <1>s, <1>p, <2>1, EvalGone
    <2> QED BY <1>f, <2>2, <2>3, <2>4, QuietBuckets
  <1>7. CASE EvalOpen(p, i)
    <2> DEFINE row == Head(net[EvalEnd(p, i)]).row
    <2>1. EvalGoes(p, i, "open")
      BY <1>7 DEF EvalOpen, EvalGoes
    <2>2. /\ EvalAt(p, i, "open") /\ b.commitLeft = 0 /\ Receivable(EvalEnd(p, i))
          /\ \/ Matches(b, row, i) /\ SetBucket(p, k, [b EXCEPT !.output = b.result[i]])
             \/ Misses(b, row, i) /\ SetBucket(p, k, Missed(b))
      BY <1>7, <1>k DEF EvalOpen
    <2>r. b = bucket[p][k] /\ row = Head(net[EvalEnd(p, i)]).row
      OBVIOUS
    <2> HIDE DEF b, row
    <2>3. /\ Matches(b, row, i) <=> b.psi[i] = "common"
          /\ Misses(b, row, i) <=> b.psi[i] # "common"
          /\ b.result[i] = "good"
          /\ \E d \in Circuit : b.psi[d] = "common"
      <3>1. /\ BucketsHold /\ RowsHold /\ k = eval[p][i].ex
            /\ EvalAt(p, i, "open") /\ b.commitLeft = 0 /\ Receivable(EvalEnd(p, i))
        BY <1>f, <1>k, <2>2
      <3>2. NumThreads = BucketSize /\ TypeOK /\ CountersExact /\ WireInv
        OBVIOUS
      <3>3. PICK c, w : c = b /\ w = row
        OBVIOUS
      <3>4. /\ c = bucket[p][k] /\ w = Head(net[EvalEnd(p, i)]).row /\ c.commitLeft = 0
        BY <2>r, <3>1, <3>3
      <3>5. /\ Matches(c, w, i) <=> c.psi[i] = "common"
            /\ Misses(c, w, i) <=> c.psi[i] # "common"
            /\ c.result[i] = "good"
            /\ \E d \in Circuit : c.psi[d] = "common"
        BY <3>1, <3>2, <3>4, OpeningDecides
      <3> QED BY <3>3, <3>5
    <2>4. i \notin s.open
      <3>1. EvalJoins(p, i, "open")
        BY <1>p, <2>1, EvalLeaves
      <3> QED BY <1>k, <3>1 DEF EvalJoins, Gone
    <2> DEFINE c == IF b.psi[i] = "common" THEN [b EXCEPT !.output = "good"]
                    ELSE [b EXCEPT !.misses = @ + 1, !.output = b.output]
    <2> HIDE DEF s
    <2>5. /\ Facts(c, Joined(s, "open", i))
          /\ b.psi[i] # "common" => b.misses + 1 # BucketSize
      BY <1>b, <1>f, <2>3, <2>4, OpenFacts
    <2>6. SetBucket(p, k, c)
      <3>1. b.psi[i] # "common" => Missed(b) = [b EXCEPT !.misses = @ + 1, !.output = b.output]
        BY <2>5 DEF Missed, AllMissed
      <3> QED BY <2>2, <2>3, <3>1
    <2> HIDE DEF c
    <2>7. Gone(p, k)' = Joined(s, "open", i)
      BY <1>k, <1>s, <1>p, <2>1, EvalGone DEF s
    <2>8. Facts(c, Gone(p, k)')
      BY <2>5, <2>7
    <2> QED BY <1>f, <1>g, <1>p, <2>1, <2>6, <2>8, BucketStep
  <1> QED BY <1>1, <1>2, <1>3, <1>4, <1>5, <1>6, <1>7 DEF EvalStep

\* Finished encodings stay: the thread that would write one is past its commit.
LEMMA EncodingsStay ==
    ASSUME NumThreads = BucketSize, TypeOK, [Next]_vars, NEW r \in Party, NEW l \in Exec,
           SubsPast(r, l, "commit") = Circuit
    PROVE  SubsPast(r, l, "commit")' = Circuit /\ bucket'[r][l].pse = bucket[r][l].pse
  <1>1. SubsPast(r, l, "commit")' = Circuit
    <2>1. \A i \in Thread : SubPast(r, i, l, "commit") => SubPast(r, i, l, "commit")'
      BY PastStays DEF SubPc
    <2> QED BY <2>1, ThreadPerCircuit DEF SubsPast
  <1>b. \A q \in Party, k \in Exec : bucket[q][k] \in BucketType
    BY BucketsTyped
  <1>2. ASSUME NEW q \in Party, NEW k \in Exec, NEW c, SetBucket(q, k, c),
               c.pse = bucket[q][k].pse
        PROVE  bucket'[r][l].pse = bucket[r][l].pse
    BY <1>2, BucketFrame
  <1>3. ASSUME NEW q \in Party, MainStep(q)
        PROVE  bucket'[r][l].pse = bucket[r][l].pse
    <2> DEFINE k == main[q].ex
               b == bucket[q][k]
    <2>1. CASE UNCHANGED bucket
      BY <2>1
    <2>2. CASE MainCall(q)
      <3>1. k \in Exec /\ SetBucket(q, k, [b EXCEPT !.input = TRUE])
        BY <2>2, ThreadsTyped, InExec DEF MainCall
      <3>2. [b EXCEPT !.input = TRUE].pse = b.pse
        BY <1>b, <3>1 DEF BucketType
      <3> QED BY <1>2, <3>1, <3>2
    <2>3. CASE MainReceiveSeed(q)
      <3>1. k \in Exec /\ SetBucket(q, k, [b EXCEPT !.translation = TRUE])
        BY <2>3, ThreadsTyped, InExec DEF MainReceiveSeed, MainAt, MainAtType, At
      <3>2. [b EXCEPT !.translation = TRUE].pse = b.pse
        BY <1>b, <3>1 DEF BucketType
      <3> QED BY <1>2, <3>1, <3>2
    <2> QED BY <1>3, <2>1, <2>2, <2>3 DEF MainStep, MainCheckLabels, MainReturn, MainClose, Abort
  <1>4. ASSUME NEW q \in Party, LoopStep(q)
        PROVE  bucket'[r][l].pse = bucket[r][l].pse
    <2> DEFINE k == loop[q].ex
               b == bucket[q][k]
    <2>1. CASE UNCHANGED bucket
      BY <2>1
    <2>2. CASE LoopReceiveCorrection(q)
      <3>1. k \in Exec /\ SetBucket(q, k, [b EXCEPT !.correction = TRUE])
        BY <2>2, ThreadsTyped, InExec DEF LoopReceiveCorrection, LoopAt
      <3>2. [b EXCEPT !.correction = TRUE].pse = b.pse
        BY <1>b, <3>1 DEF BucketType
      <3> QED BY <1>2, <3>1, <3>2
    <2> QED BY <1>4, <2>1, <2>2 DEF LoopStep, LoopSendSeed
  <1>5. ASSUME NEW q \in Party, NEW i \in Thread, SubStep(q, i)
        PROVE  bucket'[r][l].pse = bucket[r][l].pse
    <2> DEFINE k == sub[q][i].ex
               b == bucket[q][k]
    <2>k. k \in Exec
      BY <1>5, ThreadsTyped, InExec
         DEF SubStep, SubSendLabels, SubReceivePermute, SubCommit, SubOpen, SubAt
    <2>1. CASE UNCHANGED bucket
      BY <2>1
    <2>2. CASE SubReceivePermute(q, i)
      <3>1. SetBucket(q, k, [b EXCEPT !.permutes = @ \cup {i}, !.permuteLeft = @ - 1])
        BY <2>2 DEF SubReceivePermute, PermuteReceived
      <3>2. [b EXCEPT !.permutes = @ \cup {i}, !.permuteLeft = @ - 1].pse = b.pse
        BY <1>b, <2>k DEF BucketType
      <3> QED BY <1>2, <2>k, <3>1, <3>2
    <2>3. CASE SubCommit(q, i)
      <3>1. SubGoes(q, i, "commit")
        BY <2>3, Successors DEF SubCommit, SubGoes, SubPc
      <3>2. i \notin SubsPast(q, k, "commit")
        BY <3>1, SubLeaves DEF SubJoins, SubPc
      <3>3. r # q \/ l # k
        BY <3>2, ThreadIsCircuit
      <3>4. PICK c : SetBucket(q, k, c)
        BY <2>3 DEF SubCommit
      <3> QED BY <2>k, <3>3, <3>4, BucketFrame
    <2> QED BY <1>5, <2>1, <2>2, <2>3 DEF SubStep, SubSendLabels, SubOpen
  <1>6. ASSUME NEW q \in Party, NEW i \in Thread, EvalStep(q, i)
        PROVE  bucket'[r][l].pse = bucket[r][l].pse
    BY <1>6, EvalFlags DEF Kept
  <1>7. ASSUME UNCHANGED bucket
        PROVE  bucket'[r][l].pse = bucket[r][l].pse
    BY <1>7
  <1>8. ASSUME NEW q \in Party, Fail(q) \/ LosePeer(q)
        PROVE  UNCHANGED bucket
    BY <1>8 DEF Fail, LosePeer, Abort
  <1>9. UNCHANGED vars => UNCHANGED bucket
    BY DEF vars
  <1>10. bucket'[r][l].pse = bucket[r][l].pse
    BY <1>3, <1>4, <1>5, <1>6, <1>7, <1>8, <1>9 DEF Next
  <1> QED BY <1>1, <1>10

LEMMA GenuineStays ==
    ASSUME NumThreads = BucketSize, TypeOK, [Next]_vars, NEW p \in Party, NEW i \in Thread,
           NEW m \in Msg, Genuine(p, i, m)
    PROVE  Genuine(p, i, m)'
  <1>1. Other(p) \in Party /\ m.ex \in Exec
    BY EndsType DEF Msg
  <1> QED BY <1>1, EncodingsStay DEF Genuine

\* Who uses the channel of rows.
LEMMA RowChannel ==
    ASSUME TypeOK, [Next]_vars, NEW p \in Party, NEW i \in Thread
    PROVE  LET ch == EvalEnd(p, i)  q == Other(p) IN
           \/ net'[ch] = net[ch]
           \/ net[ch] # <<>> /\ net'[ch] = Tail(net[ch])
           \/ SubSendLabels(q, i) \/ SubCommit(q, i) \/ SubOpen(q, i)
  <1> DEFINE ch == EvalEnd(p, i)
  <1>e. ch \in Ends
    BY EndsType
  <1>n. \A c \in Ends : /\ \A msgs : Send(c, msgs) => \A d \in Ends \ {c} : net'[d] = net[d]
                        /\ Consume(c) => /\ net'[c] = Tail(net[c])
                                         /\ \A d \in Ends \ {c} : net'[d] = net[d]
    BY NetMoved
  <1>1. ASSUME NEW q \in Party, MainStep(q) \/ LoopStep(q)
        PROVE  net'[ch] = net[ch]
    <2>1. Other(q) \in Party
      BY EndsType
    <2>2. \A o \in Party : /\ MainEnd(o) \in Ends /\ LoopEnd(o) \in Ends
                           /\ MainEnd(o) # ch /\ LoopEnd(o) # ch
      BY EndsType, EndsDiffer
    <2>3. \/ UNCHANGED net
          \/ \E msgs : Send(LoopEnd(Other(q)), msgs) \/ Send(MainEnd(Other(q)), msgs)
          \/ Consume(MainEnd(q)) \/ Consume(LoopEnd(q))
      BY <1>1 DEF MainStep, MainCall, MainCheckLabels, MainReceiveSeed, MainReturn, MainClose,
                  LoopStep, LoopReceiveCorrection, LoopSendSeed, Abort
    <2> QED BY <1>e, <1>n, <2>1, <2>2, <2>3
  <1>2. ASSUME NEW q \in Party, NEW j \in Thread, SubStep(q, j)
        PROVE  \/ net'[ch] = net[ch]
               \/ SubSendLabels(Other(p), i) \/ SubCommit(Other(p), i) \/ SubOpen(Other(p), i)
    <2>1. CASE SubReceivePermute(q, j)
      <3>1. SubEnd(q, j) \in Ends /\ SubEnd(q, j) # ch /\ Consume(SubEnd(q, j))
        BY <2>1, EndsType, EndsDiffer DEF SubReceivePermute
      <3> QED BY <1>e, <1>n, <3>1
    <2>2. CASE ~SubReceivePermute(q, j)
      <3>1. \E msgs : Send(EvalEnd(Other(q), j), msgs)
        BY <1>2, <2>2 DEF SubStep, SubSendLabels, SubCommit, SubOpen
      <3>2. EvalEnd(Other(q), j) \in Ends /\ Other(q) \in Party /\ Other(Other(q)) = q
        BY EndsType, OthersDiffer
      <3>3. CASE EvalEnd(Other(q), j) # ch
        BY <1>e, <1>n, <3>1, <3>2, <3>3
      <3>4. CASE EvalEnd(Other(q), j) = ch
        <4>1. q = Other(p) /\ j = i
          BY <3>2, <3>4, EndsDiffer
        <4> QED BY <1>2, <2>2, <4>1 DEF SubStep
      <3> QED BY <3>3, <3>4
    <2> QED BY <2>1, <2>2
  <1>3. ASSUME NEW q \in Party, NEW j \in Thread, EvalStep(q, j)
        PROVE  net'[ch] = net[ch] \/ (net[ch] # <<>> /\ net'[ch] = Tail(net[ch]))
    <2>1. \/ UNCHANGED net
          \/ Receivable(EvalEnd(q, j)) /\ Consume(EvalEnd(q, j))
          \/ \E msgs : Send(SubEnd(Other(q), j), msgs)
      BY <1>3 DEF EvalStep, EvalReceiveTheirLabels, EvalReceiveOwnLabels, EvalDraw, EvalSendPermute,
                  EvalReceiveCommits, EvalCheckTranslation, EvalOpen, Abort
    <2>2. /\ Other(q) \in Party /\ SubEnd(Other(q), j) \in Ends /\ EvalEnd(q, j) \in Ends
          /\ SubEnd(Other(q), j) # ch
      BY EndsType, EndsDiffer
    <2> QED BY <1>e, <1>n, <2>1, <2>2 DEF Receivable
  <1>4. ASSUME NEW q \in Party, Fail(q) \/ LosePeer(q)
        PROVE  net'[ch] = net[ch]
    BY <1>4 DEF Fail, LosePeer, Abort
  <1>5. CASE UNCHANGED vars
    BY <1>5 DEF vars
  <1> QED BY <1>1, <1>2, <1>3, <1>4, <1>5 DEF Next

AllGenuine(p, i, s) == \A n \in 1..Len(s) : Genuine(p, i, s[n])

LEMMA GenuineAppend ==
    ASSUME NEW p, NEW i, NEW s \in Seq(Msg), NEW m \in Msg, AllGenuine(p, i, s)', Genuine(p, i, m)'
    PROVE  AllGenuine(p, i, s \o <<m>>)'
  <1>1. /\ <<m>> \in Seq(Msg) /\ Len(<<m>>) = 1 /\ <<m>>[1] = m
        /\ Len(s) \in Nat /\ Len(s \o <<m>>) = Len(s) + 1
        /\ \A n \in 1..Len(s \o <<m>>) : (s \o <<m>>)[n] = IF n <= Len(s) THEN s[n] ELSE m
    BY ConcatProperties, LenProperties
  <1>2. ASSUME NEW n \in 1..Len(s \o <<m>>)
        PROVE  Genuine(p, i, (s \o <<m>>)[n])'
    <2>1. CASE n <= Len(s)
      <3>1. n \in 1..Len(s) /\ (s \o <<m>>)[n] = s[n]
        BY <1>1, <2>1
      <3>2. Genuine(p, i, s[n])'
        BY <3>1 DEF AllGenuine
      <3> QED BY <3>1, <3>2
    <2>2. CASE ~(n <= Len(s))
      <3>1. (s \o <<m>>)[n] = m
        BY <1>1, <2>2
      <3> QED BY <3>1
    <2> QED BY <2>1, <2>2
  <1> QED BY <1>2 DEF AllGenuine

LEMMA GenuineTail ==
    ASSUME NEW p, NEW i, NEW s \in Seq(Msg), s # <<>>, AllGenuine(p, i, s)'
    PROVE  AllGenuine(p, i, Tail(s))'
  <1>1. /\ Len(s) \in Nat /\ Len(Tail(s)) = Len(s) - 1
        /\ \A n \in 1..Len(Tail(s)) : Tail(s)[n] = s[n+1] /\ n + 1 \in 1..Len(s)
    BY HeadTailProperties, LenProperties
  <1>2. ASSUME NEW n \in 1..Len(Tail(s))
        PROVE  Genuine(p, i, Tail(s)[n])'
    <2>1. Tail(s)[n] = s[n+1] /\ Genuine(p, i, s[n+1])'
      BY <1>1 DEF AllGenuine
    <2> QED BY <2>1
  <1> QED BY <1>2 DEF AllGenuine

LEMMA RowsStay ==
    ASSUME NumThreads = BucketSize, TypeOK, CountersExact, RowsHold, [Next]_vars
    PROVE  RowsHold'
  <1> SUFFICES ASSUME NEW p \in Party, NEW i \in Thread
               PROVE  AllGenuine(p, i, net[EvalEnd(p, i)])'
    BY DEF RowsHold, AllGenuine
  <1> DEFINE ch == EvalEnd(p, i)
             q == Other(p)
  <1>q. q \in Party /\ Other(q) = p /\ ch \in Ends /\ i \in Circuit
    BY EndsType, OthersDiffer, ThreadIsCircuit
  <1>1. PICK s \in Seq(Msg) : s = net[ch]
    BY <1>q DEF TypeOK
  <1>2. PICK u : u = net'[ch]
    OBVIOUS
  <1>3. SUFFICES AllGenuine(p, i, u)'
    BY <1>2 DEF AllGenuine, EvalEnd
  <1>4. AllGenuine(p, i, s)'
    <2> SUFFICES ASSUME NEW n \in 1..Len(s)
                 PROVE  Genuine(p, i, s[n])'
      BY DEF AllGenuine
    <2>1. s[n] \in Msg /\ Genuine(p, i, s[n])
      BY <1>1, ElementOfSeq DEF RowsHold
    <2> QED BY <2>1, GenuineStays
  <1>n. \A msgs : Send(ch, msgs) => u = s \o msgs
    BY <1>q, <1>1, <1>2, NetMoved
  <1>5. CASE net'[ch] = net[ch]
    BY <1>1, <1>2, <1>4, <1>5
  <1>6. CASE net[ch] # <<>> /\ net'[ch] = Tail(net[ch])
    <2>1. u = Tail(s) /\ s # <<>>
      BY <1>1, <1>2, <1>6
    <2>2. AllGenuine(p, i, Tail(s))'
      BY <1>4, <2>1, GenuineTail
    <2> QED BY <2>1, <2>2
  <1>7. CASE SubSendLabels(q, i)
    <2>1. PICK k \in Exec : k = sub[q][i].ex
      BY <1>7, <1>q, ThreadsTyped, InExec DEF SubSendLabels, SubAt
    <2> DEFINE own == LabelsMessage(q, i, k, "own")
               their == LabelsMessage(q, i, k, "their")
    <2>2. Send(ch, LabelMessages(q, i, k))
      BY <1>7, <1>q, <2>1 DEF SubSendLabels
    <2>3. LabelMessages(q, i, k) = <<own>> \o <<their>> /\ own \in Msg /\ their \in Msg
      BY <1>q, TwoLabels
    <2>4. Genuine(p, i, own)' /\ Genuine(p, i, their)'
      BY <1>q DEF Genuine, LabelsMessage, Message
    <2> HIDE DEF own, their
    <2>5. u = (s \o <<own>>) \o <<their>>
      <3>1. u = s \o (<<own>> \o <<their>>)
        BY <1>n, <2>2, <2>3
      <3> QED BY <2>3, <3>1, ConcatAssociative
    <2>6. AllGenuine(p, i, s \o <<own>>)' /\ s \o <<own>> \in Seq(Msg)
      BY <1>4, <2>3, <2>4, GenuineAppend, ConcatProperties
    <2>7. AllGenuine(p, i, (s \o <<own>>) \o <<their>>)'
      BY <2>3, <2>4, <2>6, GenuineAppend
    <2> QED BY <2>5, <2>7
  <1>8. CASE SubCommit(q, i)
    <2>1. PICK k \in Exec : k = sub[q][i].ex
      BY <1>8, <1>q, ThreadsTyped, InExec DEF SubCommit, SubAt
    <2> DEFINE m == Plain("commits", k, i)
    <2>2. Send(ch, <<m>>)
      BY <1>8, <1>q, <2>1 DEF SubCommit
    <2>3. m \in Msg
      BY PlainType, ThreadIsCircuit
    <2>4. Genuine(p, i, m)'
      BY DEF Genuine, Plain, Message
    <2> HIDE DEF m
    <2>5. u = s \o <<m>>
      BY <1>n, <2>2
    <2>6. AllGenuine(p, i, s \o <<m>>)'
      BY <1>4, <2>3, <2>4, GenuineAppend
    <2> QED BY <2>5, <2>6
  <1>9. CASE SubOpen(q, i)
    <2>1. PICK k \in Exec : k = sub[q][i].ex
      BY <1>9, <1>q, ThreadsTyped, InExec DEF SubOpen, SubAt
    <2>2. PICK row : row = bucket[q][k].pse
      OBVIOUS
    <2> DEFINE m == Message("open", k, i, 0, row)
    <2>3. Send(ch, <<m>>) /\ UNCHANGED bucket /\ bucket[q][k].pseLeft = 0
      BY <1>9, <1>q, <2>1, <2>2 DEF SubOpen, MayOpen
    <2>4. row \in [Circuit -> PsiVal]
      BY <1>q, <2>2, BucketsTyped DEF BucketType
    <2>5. m \in Msg
      BY <2>4, ThreadIsCircuit DEF Msg, Message
    <2>6. SubsPast(q, k, "commit")' = Circuit
      BY <1>q, <2>3, CountedOut, EncodingsStay
    <2>7. Genuine(p, i, m)'
      BY <1>q, <2>2, <2>3, <2>6 DEF Genuine, Message
    <2> HIDE DEF m
    <2>8. u = s \o <<m>>
      BY <1>n, <2>3
    <2>9. AllGenuine(p, i, s \o <<m>>)'
      BY <1>4, <2>5, <2>7, GenuineAppend
    <2> QED BY <2>8, <2>9
  <1> QED BY <1>5, <1>6, <1>7, <1>8, <1>9, RowChannel

LabelIn(t) == t.ex - IF t.pc = "their" THEN 1 ELSE 0

LEMMA LabelsStay ==
    ASSUME NumThreads = BucketSize, TypeOK, WireInv, RowsHold, LabelsHold, [Next]_vars
    PROVE  LabelsHold'
  <1> SUFFICES ASSUME NEW r \in Party, NEW j \in Thread
               PROVE  labels'[r][j] = LabelIn(eval'[r][j])
    BY DEF LabelsHold, LabelIn
  <1>0. labels[r][j] = LabelIn(eval[r][j]) /\ j \in Circuit
    BY ThreadIsCircuit DEF LabelsHold, LabelIn
  <1>1. ASSUME UNCHANGED <<labels, eval>>
        PROVE  labels'[r][j] = LabelIn(eval'[r][j])
    BY <1>0, <1>1
  <1>2. ASSUME NEW p \in Party, NEW i \in Thread, EvalStep(p, i), ~Abort(p)
        PROVE  labels'[r][j] = LabelIn(eval'[r][j])
    <2> DEFINE e == eval[p][i]
    <2>e. e.ex \in Int /\ i \in Circuit
      BY ThreadsTyped, ThreadIsCircuit
    <2>m. \A t : eval' = [eval EXCEPT ![p][i] = t] =>
            eval'[r][j] = IF r = p /\ j = i THEN t ELSE eval[r][j]
      BY DEF TypeOK
    <2>1. CASE EvalReceiveTheirLabels(p, i)
      <3>1. Receivable(EvalEnd(p, i)) /\ e.pc = "their"
        BY <2>1 DEF EvalReceiveTheirLabels, EvalAt
      <3>2. LET m == Head(net[EvalEnd(p, i)]) IN m.kind = "own" /\ m.cir = i /\ m.ex = e.ex
        BY <3>1, NextRow DEF Genuine
      <3>3. /\ labels' = [labels EXCEPT ![p][i] = e.ex]
            /\ eval' = [eval EXCEPT ![p][i] = Go(e, "own")]
        BY <1>2, <2>1, <3>2 DEF EvalReceiveTheirLabels
      <3>4. labels'[r][j] = IF r = p /\ j = i THEN e.ex ELSE labels[r][j]
        BY <1>0, <2>e, <3>3 DEF TypeOK
      <3>5. LabelIn(Go(e, "own")) = e.ex
        BY <2>e DEF LabelIn, Go
      <3>6. eval'[r][j] = IF r = p /\ j = i THEN Go(e, "own") ELSE eval[r][j]
        BY <2>m, <3>3
      <3> QED BY <1>0, <3>4, <3>5, <3>6
    <2>2. CASE ~EvalReceiveTheirLabels(p, i)
      <3>1. UNCHANGED labels
        BY <1>2, <2>2 DEF EvalStep, EvalReceiveOwnLabels, EvalDraw, EvalSendPermute,
                          EvalReceiveCommits, EvalCheckTranslation, EvalOpen
      <3>2. \/ \E pc \in {"draw", "permute", "commits", "check", "open"} :
                  eval' = [eval EXCEPT ![p][i] = Go(e, pc)] /\ e.pc # "their"
            \/ eval' = [eval EXCEPT ![p][i] = Repeat(e, "their")] /\ e.pc # "their"
        BY <1>2, <2>2 DEF EvalStep, EvalReceiveOwnLabels, EvalDraw, EvalSendPermute,
                          EvalReceiveCommits, EvalCheckTranslation, EvalOpen, EvalAt
      <3>3. /\ \A pc \in {"draw", "permute", "commits", "check", "open"} :
                  e.pc # "their" => LabelIn(Go(e, pc)) = LabelIn(e)
            /\ e.pc # "their" => LabelIn(Repeat(e, "their")) = LabelIn(e)
        BY <2>e DEF LabelIn, Go, Repeat
      <3>4. PICK t : eval' = [eval EXCEPT ![p][i] = t] /\ LabelIn(t) = LabelIn(e)
        BY <3>2, <3>3
      <3> QED BY <1>0, <2>m, <3>1, <3>4
    <2> QED BY <2>1, <2>2
  <1>3. ASSUME NEW p \in Party, \/ MainStep(p) \/ LoopStep(p) \/ Abort(p) \/ Fail(p) \/ LosePeer(p)
                                \/ \E i \in Thread : SubStep(p, i)
        PROVE  UNCHANGED <<labels, eval>>
    BY <1>3 DEF MainStep, MainCall, MainCheckLabels, MainReceiveSeed, MainReturn, MainClose,
                LoopStep, LoopReceiveCorrection, LoopSendSeed, Abort, Fail, LosePeer,
                SubStep, SubSendLabels, SubReceivePermute, SubCommit, SubOpen
  <1>4. UNCHANGED vars => UNCHANGED <<labels, eval>>
    BY DEF vars
  <1> QED BY <1>1, <1>2, <1>3, <1>4 DEF Next

LEMMA OutLabelsStay ==
    ASSUME NumThreads = BucketSize, TypeOK, WireInv, OutLabelsHold, [Next]_vars
    PROVE  OutLabelsHold'
  <1> SUFFICES ASSUME NEW r \in Party
               PROVE  outLabels'[r] = SeedsIn(main'[r]) - 1
    BY DEF OutLabelsHold, SeedsIn
  <1>0. outLabels[r] = SeedsIn(main[r]) - 1
    BY DEF OutLabelsHold
  <1>1. ASSUME UNCHANGED <<outLabels, main>>
        PROVE  outLabels'[r] = SeedsIn(main'[r]) - 1
    BY <1>0, <1>1
  <1>2. ASSUME NEW p \in Party, MainStep(p), ~Abort(p)
        PROVE  outLabels'[r] = SeedsIn(main'[r]) - 1
    <2>e. main[p].ex \in Int
      BY ThreadsTyped
    <2>1. CASE MainReceiveSeed(p)
      <3>1. main[p].pc = "seed" /\ net[MainEnd(p)] # <<>>
        BY <2>1 DEF MainReceiveSeed, MainAt, Receivable
      <3>2. Head(net[MainEnd(p)]).ex = main[p].ex
        BY <3>1, WiresInStep DEF WireInStep, IsNext
      <3>3. /\ outLabels' = [outLabels EXCEPT ![p] = main[p].ex]
            /\ main' = [main EXCEPT ![p] = Go(main[p], "output")]
        BY <2>1, <3>2 DEF MainReceiveSeed
      <3>4. /\ outLabels'[r] = IF r = p THEN main[p].ex ELSE outLabels[r]
            /\ main'[r] = IF r = p THEN Go(main[p], "output") ELSE main[r]
        BY <3>3 DEF TypeOK
      <3>5. SeedsIn(Go(main[p], "output")) - 1 = main[p].ex
        BY <2>e DEF SeedsIn, Go
      <3> QED BY <1>0, <3>4, <3>5
    <2>2. CASE ~MainReceiveSeed(p)
      <3>1. UNCHANGED outLabels
        BY <1>2, <2>2 DEF MainStep, MainCall, MainCheckLabels, MainReturn, MainClose
      <3>2. SeedsIn(main'[p]) = SeedsIn(main[p])
        <4>1. \/ main[p].pc = "idle" /\ main'[p] = Go(main[p], "labels")
              \/ main[p].pc = "labels" /\ main'[p] = Go(main[p], "seed")
              \/ main[p].pc = "output" /\ main'[p] = Repeat(main[p], "idle")
              \/ main[p].pc = "idle" /\ main'[p] = Go(main[p], "closed")
          BY <1>2, <2>2, Moved DEF MainStep, MainCall, Calling, MainCheckLabels, MainReturn,
                                    MainClose, MainAt
        <4> QED BY <2>e, <4>1 DEF SeedsIn, Go, Repeat
      <3>3. r # p => main'[r] = main[r]
        BY <1>2, MainGoes
      <3> QED BY <1>0, <3>1, <3>2, <3>3
    <2> QED BY <2>1, <2>2
  <1>3. ASSUME NEW p \in Party, \/ LoopStep(p) \/ Abort(p) \/ Fail(p) \/ LosePeer(p)
                                \/ \E i \in Thread : SubStep(p, i) \/ EvalStep(p, i)
        PROVE  UNCHANGED <<outLabels, main>>
    BY <1>3 DEF LoopStep, LoopReceiveCorrection, LoopSendSeed, Abort, Fail, LosePeer,
                SubStep, SubSendLabels, SubReceivePermute, SubCommit, SubOpen,
                EvalStep, EvalReceiveTheirLabels, EvalReceiveOwnLabels, EvalDraw, EvalSendPermute,
                EvalReceiveCommits, EvalCheckTranslation, EvalOpen
  <1>4. UNCHANGED vars => UNCHANGED <<outLabels, main>>
    BY DEF vars
  <1> QED BY <1>1, <1>2, <1>3, <1>4 DEF Next

LEMMA InitData == NumThreads = BucketSize /\ Init => DataInv
  <1> SUFFICES ASSUME NumThreads = BucketSize, Init
               PROVE  DataInv
    OBVIOUS
  <1>1. BucketsHold
    <2> SUFFICES ASSUME NEW p \in Party, NEW k \in Exec
                 PROVE  Facts(NewBucket, Gone(p, k))
      BY DEF BucketsHold, BucketData, Init
    <2>1. \A i \in Thread : /\ \A pc \in SubPc : ~SubPast(p, i, k, pc)
                            /\ \A pc \in EvalPc : ~EvalPast(p, i, k, pc)
      BY Orders DEF Init, SubPast, EvalPast, Past, Exec, SubPc, EvalPc
    <2>2. Gone(p, k) = [their |-> {}, own |-> {}, permute |-> {}, commits |-> {}, open |-> {},
                        received |-> {}, committed |-> {}]
      BY <2>1 DEF Gone, SubsPast, EvalsPast, SubPc, EvalPc
    <2>3. Missing(NewBucket.psi, {}) = {} /\ Cardinality({}) = 0
      BY FS_EmptySet DEF Missing
    <2>4. OneCommon(NewBucket.psi)
      BY DEF OneCommon, NewBucket, NoRow
    <2> QED BY <2>2, <2>3, <2>4 DEF Facts, NewBucket
  <1>2. RowsHold
    <2>1. \A p \in Party, i \in Thread : net[EvalEnd(p, i)] = <<>>
      BY EndsType DEF Init
    <2> QED BY <2>1 DEF RowsHold
  <1>3. LabelsHold
    BY ThreadIsCircuit DEF LabelsHold, Init, NoExec
  <1>4. OutLabelsHold
    BY DEF OutLabelsHold, Init, NoExec, SeedsIn
  <1> QED BY <1>1, <1>2, <1>3, <1>4 DEF DataInv

LEMMA DataStays ==
    ASSUME NumThreads = BucketSize, TypeOK, CountersExact, WireInv, DataInv, [Next]_vars
    PROVE  DataInv'
  <1>1. RowsHold' /\ LabelsHold' /\ OutLabelsHold'
    BY RowsStay, LabelsStay, OutLabelsStay DEF DataInv
  <1>2. BucketsHold'
    <2>0. BucketsHold
      BY DEF DataInv
    <2>1. ASSUME UNCHANGED <<sub, eval, bucket>>
          PROVE  BucketsHold'
      <3>1. \A r \in Party, l \in Exec : Gone(r, l)' = Gone(r, l)
        BY <2>1, GoneStays
      <3> QED BY <2>0, <2>1, <3>1, BucketsStay
    <2>2. ASSUME NEW p \in Party, Abort(p) \/ Fail(p) \/ LosePeer(p)
          PROVE  UNCHANGED <<sub, eval, bucket>>
      BY <2>2 DEF Abort, Fail, LosePeer
    <2>3. UNCHANGED vars => UNCHANGED <<sub, eval, bucket>>
      BY DEF vars
    <2>4. ASSUME NEW p \in Party, MainStep(p) \/ LoopStep(p)
          PROVE  BucketsHold'
      BY <2>0, <2>4, MainLoopBuckets
    <2>5. ASSUME NEW p \in Party, NEW i \in Thread, SubStep(p, i)
          PROVE  BucketsHold'
      BY <2>0, <2>5, SubBuckets
    <2>6. ASSUME NEW p \in Party, NEW i \in Thread, EvalStep(p, i)
          PROVE  BucketsHold'
      BY <2>1, <2>2, <2>6, EvalBuckets
    <2> QED BY <2>1, <2>2, <2>3, <2>4, <2>5, <2>6 DEF Next
  <1> QED BY <1>1, <1>2 DEF DataInv

\* A countdown reaches zero only with a thread for every circuit; with fewer no
\* execution gets as far as opening a commitment.
FullData == NumThreads = BucketSize => DataInv

LEMMA DataHolds == SafetySpec => []FullData
  <1>1. Init => FullData
    BY InitData DEF FullData
  <1>2. TypeOK /\ CountersExact /\ WireInv /\ FullData /\ [Next]_vars => FullData'
    BY DataStays DEF FullData
  <1> QED BY <1>1, <1>2, TypeCorrect, CountdownsCorrect, WiresCorrect, PTL DEF SafetySpec

\* OneMatch: exactly one of the openings of an execution matches, whatever the size of its bucket.
THEOREM MatchesOnce == SafetySpec => []OneMatch
  <1>1. TypeOK /\ WireInv /\ SeedInv /\ WaitInv /\ OpenAfterChecks /\ FullData => OneMatch
    <2> SUFFICES ASSUME TypeOK, WireInv, SeedInv, WaitInv, OpenAfterChecks, FullData,
                        NEW p \in Party, NEW k \in Exec, \A i \in Thread : eval[p][i].ex > k
                 PROVE  bucket[p][k].misses = BucketSize - 1 /\ bucket[p][k].output = "good"
      BY DEF OneMatch
    <2>0. DataInv /\ NumThreads = BucketSize
      <3>1. PICK q \in Party : loop[q].ex > k
        BY ZeroThread, AheadOfSeed
      <3>2. NumThreads = BucketSize
        BY <3>1 DEF SeedInv, SeedSent
      <3> QED BY <3>2 DEF FullData
    <2>1. PICK b, s : b = bucket[p][k] /\ s = Gone(p, k)
      OBVIOUS
    <2>2. b \in BucketType /\ Facts(b, s)
      BY <2>0, <2>1, BucketsTyped DEF DataInv, BucketsHold, BucketData
    <2>3. s.open = Circuit /\ s.permute = Circuit
      <3>1. \A i \in Thread : EvalPast(p, i, k, "open") /\ EvalPast(p, i, k, "permute")
        BY DEF EvalPast, Past
      <3>2. EvalsPast(p, k, "open") = Thread /\ EvalsPast(p, k, "permute") = Thread
        BY <3>1 DEF EvalsPast
      <3> QED BY <2>0, <2>1, <3>2, ThreadPerCircuit DEF Gone
    <2>4. PICK d \in Circuit : b.psi[d] = "common"
      <3>1. b.psi[0] # "none"
        BY <2>2, <2>3, SomeCircuit DEF Facts
      <3> QED BY <2>2, <3>1, SomeCircuit DEF Facts, OneCommon
    <2>5. Missing(b.psi, Circuit) = Circuit \ {d}
      BY <2>2, <2>4 DEF Facts, OneCommon, Missing
    <2>6. Cardinality(Circuit \ {d}) = BucketSize - 1
      BY <2>4, CircuitFinite, FS_RemoveElement
    <2> QED BY <2>1, <2>2, <2>3, <2>4, <2>5, <2>6 DEF Facts
  <1> QED BY <1>1, TypeCorrect, WiresCorrect, SeedHolds, WaitHolds, OpenedAfterChecks, DataHolds, PTL

\* The labels in the buffers are those of the execution the caller is in.
LEMMA LabelsMatch ==
    ASSUME NumThreads = BucketSize, TypeOK, WaitInv, DataInv, NEW p \in Party, MainStep(p)
    PROVE  UNCHANGED aborted
  <1> DEFINE k == main[p].ex
  <1>1. CASE MainCheckLabels(p)
    <2>1. k \in Exec /\ main[p].pc = "labels" /\ bucket[p][k].labelsIn = Circuit
      BY <1>1, ThreadsTyped, InExec DEF MainCheckLabels, MainAt, MainAtType, At
    <2>2. ASSUME NEW c \in Circuit
          PROVE  labels[p][c] = k
      <3>1. c \in Thread /\ eval[p][c] \in EvalAtType /\ eval[p][c].ex \in Nat /\ k \in Nat
        BY <2>1, ThreadPerCircuit, ThreadsTyped DEF Exec
      <3>2. EvalPast(p, c, k, "their")
        <4>1. EvalsPast(p, k, "their") = Circuit
          BY <2>1 DEF DataInv, BucketsHold, BucketData, Facts, Gone
        <4> QED BY <4>1 DEF EvalsPast
      <3>3. ~(eval[p][c].ex > k)
        <4>1. ~EvalPast(p, c, k, "check")
          BY <2>1, <3>1 DEF WaitInv, WaitsOf, SeedsIn
        <4> QED BY <4>1 DEF EvalPast, Past
      <3>4. eval[p][c].ex = k /\ eval[p][c].pc # "their"
        BY <3>1, <3>2, <3>3, Orders DEF EvalPast, Past
      <3> QED BY <2>1, <3>1, <3>4 DEF DataInv, LabelsHold
    <2> QED BY <1>1, <2>2 DEF MainCheckLabels
  <1>2. CASE MainReturn(p)
    <2>1. k \in Exec
      BY <1>2, ThreadsTyped, InExec DEF MainReturn, MainAt, MainAtType, At
    <2>2. bucket[p][k].output # "exception"
      BY <2>1 DEF DataInv, BucketsHold, BucketData, Facts
    <2> QED BY <1>2, <2>2 DEF MainReturn
  <1> QED BY <1>1, <1>2 DEF MainStep, MainCall, MainReceiveSeed, MainClose

\* The output labels are those of the execution whose translation a thread checks.
LEMMA SeedInStep ==
    ASSUME TypeOK, WireInv, SeedInv, WaitInv, OutLabelsHold, NEW p \in Party, NEW i \in Thread,
           EvalCheckTranslation(p, i)
    PROVE  UNCHANGED aborted
  <1> DEFINE k == eval[p][i].ex
             q == Other(p)
  <1>1. k \in Exec /\ k \in Nat /\ bucket[p][k].translation
    BY ThreadsTyped, InExec DEF EvalCheckTranslation, EvalAt, SeedExpanded
  <1>2. SeedsIn(main[p]) > k
    BY <1>1 DEF WaitInv, FlagsOf
  <1>3. SeedsIn(main[p]) \in Nat /\ outLabels[p] = SeedsIn(main[p]) - 1
    <2>1. main[p].ex \in Nat
      BY ThreadsTyped
    <2> QED BY <2>1 DEF OutLabelsHold, SeedsIn
  <1>4. ~(SeedsIn(main[p]) > k + 1)
    <2> SUFFICES ASSUME SeedsIn(main[p]) > k + 1
                 PROVE  FALSE
      OBVIOUS
    <2>1. q \in Party /\ Other(q) = p
      BY EndsType, OthersDiffer
    <2>2. loop[q].ex > k + 1
      <3>1. Stream(net[MainEnd(p)], SeedsIn(main[p]), loop[q].ex, Each("seed"))
        BY DEF WireInv, MainWire
      <3>2. Len(net[MainEnd(p)]) \in Nat
        BY EndsType, LenProperties DEF TypeOK
      <3>3. loop[q].ex \in Nat /\ Len(net[MainEnd(p)]) = loop[q].ex - SeedsIn(main[p])
        BY <3>1 DEF Stream
      <3> QED BY <1>1, <1>3, <3>2, <3>3
    <2>3. k + 1 \in Exec
      BY <1>1, <2>1, <2>2, ThreadsTyped, SizeAssumption DEF Exec
    <2>4. EvalPast(p, i, k + 1, "permute")
      BY <2>1, <2>2, <2>3 DEF SeedInv, SeedSent
    <2>5. eval[p][i].ex >= k + 1
      BY <2>3, <2>4, ThreadsTyped, EvalPositions DEF EvalPast
    <2> QED BY <1>1, <2>5
  <1>5. outLabels[p] = k
    BY <1>1, <1>2, <1>3, <1>4
  <1> QED BY <1>5 DEF EvalCheckTranslation

\* The opening either matches or misses, and the promise is not set before.
LEMMA OpeningGoes ==
    ASSUME NumThreads = BucketSize, TypeOK, CountersExact, WireInv, DataInv,
           NEW p \in Party, NEW i \in Thread, EvalOpen(p, i)
    PROVE  UNCHANGED aborted
  <1>k. PICK k \in Exec : k = eval[p][i].ex
    BY ThreadsTyped, InExec DEF EvalOpen, EvalAt
  <1>b. PICK b, row : b = bucket[p][k] /\ row = Head(net[EvalEnd(p, i)]).row
    OBVIOUS
  <1>s. PICK s : s = Gone(p, k)
    OBVIOUS
  <1>1. EvalAt(p, i, "open") /\ b.commitLeft = 0 /\ Receivable(EvalEnd(p, i))
    BY <1>k, <1>b DEF EvalOpen
  <1>2. BucketsHold /\ RowsHold
    BY DEF DataInv
  <1>3. /\ Matches(b, row, i) <=> b.psi[i] = "common"
        /\ Misses(b, row, i) <=> b.psi[i] # "common"
        /\ \E d \in Circuit : b.psi[d] = "common"
    BY <1>k, <1>b, <1>1, <1>2, OpeningDecides
  <1>4. b \in BucketType /\ i \in Circuit /\ s \in GoneType /\ Facts(b, s)
    BY <1>b, <1>s, <1>2, BucketsTyped, ThreadIsCircuit, GoneTyped DEF BucketsHold, BucketData
  <1>5. i \notin s.open
    <2>1. ~EvalPast(p, i, k, "open")
      BY <1>k, <1>1, ThreadsTyped, Orders DEF EvalAt, EvalPast, Past, Exec
    <2> QED BY <1>s, <2>1 DEF Gone, EvalsPast
  <1>6. /\ b.psi[i] = "common" => b.output = "none"
        /\ b.psi[i] # "common" => b.misses + 1 # BucketSize
    BY <1>3, <1>4, <1>5, OpenFacts
  <1> QED BY <1>k, <1>b, <1>3, <1>6 DEF EvalOpen, AllMissed

LEMMA EvalGoesOn ==
    ASSUME NumThreads = BucketSize, InputLen[0] = InputLen[1],
           TypeOK, CountersExact, WireInv, SeedInv, WaitInv, DataInv,
           NEW p \in Party, NEW i \in Thread, EvalStep(p, i)
    PROVE  UNCHANGED aborted
  <1>1. InputLen[p] = InputLen[Other(p)]
    BY DEF Party, Other
  <1>2. RowsHold /\ OutLabelsHold
    BY DEF DataInv
  <1>3. CASE EvalReceiveTheirLabels(p, i)
    BY <1>2, <1>3, NextRow DEF EvalReceiveTheirLabels, EvalAt, IsLabels, Genuine
  <1>4. CASE EvalReceiveOwnLabels(p, i)
    BY <1>1, <1>2, <1>4, NextRow DEF EvalReceiveOwnLabels, EvalAt, IsLabels, Genuine
  <1>5. CASE EvalReceiveCommits(p, i)
    BY <1>2, <1>5, NextRow DEF EvalReceiveCommits, EvalAt
  <1>6. CASE EvalCheckTranslation(p, i)
    BY <1>2, <1>6, SeedInStep
  <1>7. CASE EvalOpen(p, i)
    BY <1>7, OpeningGoes
  <1> QED BY <1>3, <1>4, <1>5, <1>6, <1>7 DEF EvalStep, EvalDraw, EvalSendPermute

\* NeverAborts: no commitment fails to open, no message meets a receive of another size and no
\* promise is set twice, whatever the numbers of circuits and executions.
THEOREM NoneAborts ==
    ASSUME NumThreads = BucketSize, InputLen[0] = InputLen[1], MayFail = {}
    PROVE  SafetySpec => []NeverAborts
  <1>1. Init => NeverAborts
    BY DEF Init, NeverAborts
  <1>2. TypeOK /\ CountersExact /\ WireInv /\ SeedInv /\ WaitInv /\ FullData /\ NeverAborts
        /\ [Next]_vars => NeverAborts'
    <2> SUFFICES ASSUME TypeOK, CountersExact, WireInv, SeedInv, WaitInv, DataInv, NeverAborts,
                        [Next]_vars
                 PROVE  UNCHANGED aborted
      BY DEF NeverAborts, FullData
    <2>1. ASSUME NEW p \in Party, MainStep(p)
          PROVE  UNCHANGED aborted
      BY <2>1, LabelsMatch
    <2>2. ASSUME NEW p \in Party, NEW i \in Thread, EvalStep(p, i)
          PROVE  UNCHANGED aborted
      BY <2>2, EvalGoesOn
    <2>3. ASSUME NEW p \in Party, LoopStep(p) \/ \E i \in Thread : SubStep(p, i)
          PROVE  UNCHANGED aborted
      BY <2>3 DEF LoopStep, LoopReceiveCorrection, LoopSendSeed,
                  SubStep, SubSendLabels, SubReceivePermute, SubCommit, SubOpen
    <2>4. \A p \in Party : ~Fail(p) /\ ~LosePeer(p)
      BY EndsType DEF Fail, LosePeer, NeverAborts
    <2>5. UNCHANGED vars => UNCHANGED aborted
      BY DEF vars
    <2> QED BY <2>1, <2>2, <2>3, <2>4, <2>5 DEF Next
  <1> QED BY <1>1, <1>2, TypeCorrect, CountdownsCorrect, WiresCorrect, SeedHolds, WaitHolds,
             DataHolds, PTL DEF SafetySpec

Done(p, k) == main[p].ex > k => bucket[p][k].output = "good"
ReturnInv  == \A p \in Party, k \in Exec : Done(p, k)

\* The promise of the output keeps its value.
LEMMA OutputStays ==
    ASSUME TypeOK, BucketsHold', [Next]_vars, NEW r \in Party, NEW l \in Exec,
           bucket[r][l].output = "good"
    PROVE  bucket'[r][l].output = "good"
  <1>h. bucket'[r][l].output # "exception"
    BY DEF BucketsHold, BucketData, Facts
  <1>b. \A q \in Party, k \in Exec : bucket[q][k] \in BucketType
    BY BucketsTyped
  <1>1. ASSUME UNCHANGED bucket
        PROVE  bucket'[r][l].output = "good"
    BY <1>1
  <1>2. ASSUME NEW q \in Party, NEW k \in Exec, NEW c, SetBucket(q, k, c),
               r = q /\ l = k => c.output = "good"
        PROVE  bucket'[r][l].output = "good"
    BY <1>2, BucketFrame
  <1>3. ASSUME NEW q \in Party, MainStep(q) \/ LoopStep(q)
        PROVE  bucket'[r][l].output = "good"
    <2>1. CASE MainCall(q)
      <3>1. PICK k \in Exec : k = main[q].ex
        BY <2>1, ThreadsTyped, InExec DEF MainCall
      <3>2. SetBucket(q, k, [bucket[q][k] EXCEPT !.input = TRUE])
        BY <2>1, <3>1 DEF MainCall
      <3>3. [bucket[q][k] EXCEPT !.input = TRUE].output = bucket[q][k].output
        BY <1>b DEF BucketType
      <3> QED BY <1>2, <3>2, <3>3
    <2>2. CASE MainReceiveSeed(q)
      <3>1. PICK k \in Exec : k = main[q].ex
        BY <2>2, ThreadsTyped, InExec DEF MainReceiveSeed, MainAt, MainAtType, At
      <3>2. SetBucket(q, k, [bucket[q][k] EXCEPT !.translation = TRUE])
        BY <2>2, <3>1 DEF MainReceiveSeed
      <3>3. [bucket[q][k] EXCEPT !.translation = TRUE].output = bucket[q][k].output
        BY <1>b DEF BucketType
      <3> QED BY <1>2, <3>2, <3>3
    <2>3. CASE LoopReceiveCorrection(q)
      <3>1. PICK k \in Exec : k = loop[q].ex
        BY <2>3, ThreadsTyped, InExec DEF LoopReceiveCorrection, LoopAt
      <3>2. SetBucket(q, k, [bucket[q][k] EXCEPT !.correction = TRUE])
        BY <2>3, <3>1 DEF LoopReceiveCorrection
      <3>3. [bucket[q][k] EXCEPT !.correction = TRUE].output = bucket[q][k].output
        BY <1>b DEF BucketType
      <3> QED BY <1>2, <3>2, <3>3
    <2>4. CASE MainCheckLabels(q) \/ MainReturn(q) \/ MainClose(q) \/ LoopSendSeed(q)
      <3>1. UNCHANGED bucket
        BY <2>4 DEF MainCheckLabels, MainReturn, MainClose, LoopSendSeed, Abort
      <3> QED BY <1>1, <3>1
    <2> QED BY <1>3, <2>1, <2>2, <2>3, <2>4 DEF MainStep, LoopStep
  <1>4. ASSUME NEW q \in Party, NEW i \in Thread, SubStep(q, i)
        PROVE  bucket'[r][l].output = "good"
    <2>k. PICK k \in Exec : k = sub[q][i].ex
      BY <1>4, ThreadsTyped, InExec
         DEF SubStep, SubSendLabels, SubReceivePermute, SubCommit, SubOpen, SubAt
    <2>1. CASE UNCHANGED bucket
      BY <1>1, <2>1
    <2>2. CASE SubReceivePermute(q, i)
      <3> DEFINE c == [bucket[q][k] EXCEPT !.permutes = @ \cup {i}, !.permuteLeft = @ - 1]
      <3>1. SetBucket(q, k, c)
        BY <2>2, <2>k DEF SubReceivePermute, PermuteReceived
      <3>2. c.output = bucket[q][k].output
        BY <1>b DEF BucketType
      <3> QED BY <1>2, <3>1, <3>2
    <2>3. CASE SubCommit(q, i)
      <3>1. PICK v : SetBucket(q, k, [bucket[q][k] EXCEPT !.pse[i] = v, !.pseLeft = @ - 1])
        BY <2>3, <2>k DEF SubCommit
      <3>2. [bucket[q][k] EXCEPT !.pse[i] = v, !.pseLeft = @ - 1].output = bucket[q][k].output
        BY <1>b DEF BucketType
      <3> QED BY <1>2, <3>1, <3>2
    <2> QED BY <1>4, <2>1, <2>2, <2>3 DEF SubStep, SubSendLabels, SubOpen
  <1>5. ASSUME NEW q \in Party, NEW i \in Thread, EvalStep(q, i)
        PROVE  bucket'[r][l].output = "good"
    <2>k. PICK k \in Exec : k = eval[q][i].ex
      BY <1>5, ThreadsTyped, InExec
         DEF EvalStep, EvalReceiveTheirLabels, EvalReceiveOwnLabels, EvalDraw, EvalSendPermute,
             EvalReceiveCommits, EvalCheckTranslation, EvalOpen, EvalAt
    <2>b. PICK b \in BucketType : b = bucket[q][k]
      BY <1>b
    <2>1. SUFFICES ASSUME ~UNCHANGED bucket
                   PROVE  bucket'[r][l].output = "good"
      BY <1>1
    <2>u. ~UNCHANGED bucket
      BY <2>1
    <2>2. CASE EvalOpen(q, i)
      <3>1. \/ b.output = "none"
            \/ SetBucket(q, k, Missed(b))
        BY <2>1, <2>2, <2>k, <2>b DEF EvalOpen, Abort
      <3>2. CASE r # q \/ l # k
        <4>1. PICK c : SetBucket(q, k, c)
          BY <2>1, <2>2, <2>k, <2>b DEF EvalOpen, Abort
        <4> QED BY <1>2, <3>2, <4>1
      <3>3. CASE r = q /\ l = k
        <4>1. SetBucket(q, k, Missed(b))
          BY <2>b, <3>1, <3>3
        <4>2. Missed(b).output \in {b.output, "exception"}
          BY <2>b DEF Missed, BucketType
        <4>3. bucket'[q][k] = Missed(b)
          BY <4>1, BucketFrame
        <4> QED BY <1>h, <2>b, <3>3, <4>2, <4>3
      <3> QED BY <3>2, <3>3
    <2>3. ASSUME NEW c, SetBucket(q, k, c), c.output = b.output
          PROVE  bucket'[r][l].output = "good"
      BY <1>2, <2>b, <2>3
    <2>4. CASE EvalReceiveTheirLabels(q, i)
      <3>1. SetBucket(q, k, [b EXCEPT !.labelsIn = @ \cup {i}])
        BY <2>4, <2>k, <2>b, <2>u DEF EvalReceiveTheirLabels, Abort
      <3>2. [b EXCEPT !.labelsIn = @ \cup {i}].output = b.output
        BY DEF BucketType
      <3> QED BY <2>3, <3>1, <3>2
    <2>5. CASE EvalReceiveOwnLabels(q, i)
      <3>1. PICK v : SetBucket(q, k, [b EXCEPT !.result[i] = v])
        BY <2>5, <2>k, <2>b, <2>u DEF EvalReceiveOwnLabels, Abort
      <3>2. [b EXCEPT !.result[i] = v].output = b.output
        BY DEF BucketType
      <3> QED BY <2>3, <3>1, <3>2
    <2>6. CASE EvalDraw(q, i)
      <3>1. PICK place \in Circuit : SetBucket(q, k, [b EXCEPT !.psi[place] = ValueToDraw(b, i)])
        BY <2>6, <2>k, <2>b DEF EvalDraw
      <3>2. [b EXCEPT !.psi[place] = ValueToDraw(b, i)].output = b.output
        BY DEF BucketType
      <3> QED BY <2>3, <3>1, <3>2
    <2>7. CASE EvalReceiveCommits(q, i)
      <3>1. SetBucket(q, k, [b EXCEPT !.commits = @ \cup {i}, !.commitLeft = @ - 1])
        BY <2>7, <2>k, <2>b, <2>u DEF EvalReceiveCommits, Abort
      <3>2. [b EXCEPT !.commits = @ \cup {i}, !.commitLeft = @ - 1].output = b.output
        BY DEF BucketType
      <3> QED BY <2>3, <3>1, <3>2
    <2>8. CASE EvalCheckTranslation(q, i)
      <3>1. SetBucket(q, k, [b EXCEPT !.transLeft = @ - 1])
        BY <2>8, <2>k, <2>b, <2>u DEF EvalCheckTranslation, Abort
      <3>2. [b EXCEPT !.transLeft = @ - 1].output = b.output
        BY DEF BucketType
      <3> QED BY <2>3, <3>1, <3>2
    <2>9. CASE EvalSendPermute(q, i)
      BY <2>9, <2>u DEF EvalSendPermute
    <2> QED BY <1>5, <2>2, <2>4, <2>5, <2>6, <2>7, <2>8, <2>9 DEF EvalStep
  <1>6. ASSUME NEW q \in Party, Fail(q) \/ LosePeer(q)
        PROVE  UNCHANGED bucket
    BY <1>6 DEF Fail, LosePeer, Abort
  <1>7. UNCHANGED vars => UNCHANGED bucket
    BY DEF vars
  <1> QED BY <1>1, <1>3, <1>4, <1>5, <1>6, <1>7 DEF Next

\* A caller about to return has the peer's call and the function's value.
LEMMA ReturnsRight ==
    ASSUME TypeOK, WireInv, SeedInv, WaitInv, FullData, NEW p \in Party, MainReturn(p), ~Abort(p)
    PROVE  LET k == main[p].ex IN
           /\ k \in Exec /\ NumThreads = BucketSize
           /\ bucket[p][k].output = "good" /\ UNCHANGED bucket
           /\ CorrectionsSent(main[Other(p)]) > k
  <1> DEFINE k == main[p].ex
             q == Other(p)
  <1>0. q \in Party /\ k \in Exec /\ k \in Nat /\ main[p].pc = "output"
    BY EndsType, ThreadsTyped, InExec DEF MainReturn, MainAt, MainAtType, At
  <1>1. loop[q].ex > k
    <2>1. Stream(net[MainEnd(p)], SeedsIn(main[p]), loop[q].ex, Each("seed"))
      BY DEF WireInv, MainWire
    <2>2. net[MainEnd(p)] \in Seq(Msg) /\ SeedsIn(main[p]) = k + 1
      BY <1>0, EndsType DEF TypeOK, SeedsIn
    <2> QED BY <1>0, <2>1, <2>2, LenProperties DEF Stream
  <1>2. /\ NumThreads = BucketSize
        /\ SubPast(q, 0, k, "permute")
    BY <1>0, <1>1, ZeroThread DEF SeedInv, SeedSent
  <1>3. bucket[p][k].output = "good" /\ UNCHANGED bucket
    <2>1. bucket[p][k].output \in {"good", "garbled"} /\ UNCHANGED bucket
      BY DEF MainReturn, HasValue
    <2> QED BY <1>0, <1>2, <2>1 DEF FullData, DataInv, BucketsHold, BucketData, Facts
  <1>4. CorrectionsSent(main[q]) > k
    <2>1. SubPast(q, 0, k, "labels")
      BY <1>0, <1>2, ZeroThread, ThreadsTyped, SubPositions DEF SubPast
    <2> QED BY <1>0, <2>1, ZeroThread DEF WaitInv, WaitsOf
  <1> QED BY <1>0, <1>2, <1>3, <1>4

LEMMA ReturnsStay ==
    ASSUME TypeOK, CountersExact, WireInv, SeedInv, WaitInv, OpenAfterChecks, FullData, ReturnInv,
           [Next]_vars
    PROVE  ReturnInv'
  <1> SUFFICES ASSUME NEW p \in Party, NEW k \in Exec, main'[p].ex > k
               PROVE  bucket'[p][k].output = "good"
    BY DEF ReturnInv, Done
  <1>1. CASE main[p].ex > k
    <2>1. bucket[p][k].output = "good"
      BY <1>1 DEF ReturnInv, Done
    <2>2. NumThreads = BucketSize
      <3>1. PICK q \in Party : loop[q].ex > k
        BY <1>1, AheadOfSeed
      <3> QED BY <3>1 DEF SeedInv, SeedSent
    <2>3. BucketsHold'
      BY <2>2, DataStays DEF FullData, DataInv
    <2> QED BY <2>1, <2>3, OutputStays
  <1>2. CASE ~(main[p].ex > k)
    <2>1. main'[p] # main[p]
      BY <1>2
    <2>2. PICK q \in Party : MainStep(q) /\ ~Abort(q)
      BY <2>1, StepMoves
    <2>3. q = p
      BY <2>1, <2>2, MainGoes
    <2>4. main'[p] = Repeat(main[p], "idle") /\ main[p].pc = "output"
      <3>1. \/ \E pc : main'[p] = Go(main[p], pc)
            \/ main[p].pc = "output" /\ main'[p] = Repeat(main[p], "idle")
        BY <2>2, <2>3, MainGoes
      <3>2. \A pc : Go(main[p], pc).ex = main[p].ex
        BY DEF Go
      <3> QED BY <1>2, <3>1, <3>2
    <2>5. MainReturn(p)
      BY <2>2, <2>3, <2>4 DEF MainStep, MainCall, MainCheckLabels, MainReceiveSeed, MainClose, MainAt
    <2>6. k = main[p].ex
      BY <1>2, <2>4, ThreadsTyped DEF Repeat, Exec
    <2> QED BY <2>2, <2>3, <2>5, <2>6, ReturnsRight
  <1> QED BY <1>1, <1>2

CalledNow   == [p \in Party |-> CorrectionsSent(main[p])]
ReturnedNow == [p \in Party |-> main[p].ex]
ResultOf(p, k) == IF main[p].ex > k THEN bucket[p][k].output ELSE "none"
ResultsNow  == [p \in Party |-> [k \in Exec |-> ResultOf(p, k)]]

LEMMA OneEntry ==
    ASSUME NEW f, NEW g, NEW S, DOMAIN f = S, f = [x \in S |-> f[x]], g = [x \in S |-> g[x]],
           NEW p \in S, NEW v, \A x \in S : g[x] = IF x = p THEN v ELSE f[x]
    PROVE  g = [f EXCEPT ![p] = v]
  OBVIOUS

\* The results change only when main moves to its next execution.
LEMMA ResultsStay ==
    ASSUME ReturnInv, ReturnInv', \A p \in Party : main'[p].ex = main[p].ex
    PROVE  UNCHANGED <<ReturnedNow, ResultsNow>>
  <1>1. ASSUME NEW p \in Party, NEW k \in Exec
        PROVE  ResultOf(p, k)' = ResultOf(p, k)
    BY DEF ReturnInv, Done, ResultOf
  <1> QED BY <1>1 DEF ReturnedNow, ResultsNow

LEMMA StepIsIdeal ==
    ASSUME TypeOK, CountersExact, WireInv, SeedInv, WaitInv, OpenAfterChecks, FullData,
           ReturnInv, ReturnInv', [Next]_vars
    PROVE  \/ UNCHANGED <<CalledNow, ReturnedNow, ResultsNow>>
           \/ \E p \in Party :
                \/ /\ CalledNow[p] = ReturnedNow[p] /\ CalledNow[p] < NumExe
                   /\ CalledNow' = [CalledNow EXCEPT ![p] = CalledNow[p] + 1]
                   /\ UNCHANGED <<ReturnedNow, ResultsNow>>
                \/ /\ ReturnedNow[p] < CalledNow[p] /\ ReturnedNow[p] < CalledNow[1 - p]
                   /\ ResultsNow' = [ResultsNow EXCEPT ![p] =
                                        [ResultsNow[p] EXCEPT ![ReturnedNow[p]] = "good"]]
                   /\ ReturnedNow' = [ReturnedNow EXCEPT ![p] = ReturnedNow[p] + 1]
                   /\ UNCHANGED CalledNow
  <1>m. /\ \A r \in Party : /\ CalledNow[r] = CorrectionsSent(main[r])
                            /\ CalledNow'[r] = CorrectionsSent(main'[r])
                            /\ ReturnedNow[r] = main[r].ex /\ ReturnedNow'[r] = main'[r].ex
        /\ CalledNow = [r \in Party |-> CalledNow[r]] /\ CalledNow' = [r \in Party |-> CalledNow'[r]]
        /\ ReturnedNow = [r \in Party |-> ReturnedNow[r]]
        /\ ReturnedNow' = [r \in Party |-> ReturnedNow'[r]]
        /\ DOMAIN CalledNow = Party /\ DOMAIN ReturnedNow = Party
    BY DEF CalledNow, ReturnedNow
  <1>1. CASE UNCHANGED main
    <2>1. UNCHANGED <<CalledNow, ReturnedNow>>
      BY <1>1 DEF CalledNow, ReturnedNow
    <2> QED BY <1>1, <2>1, ResultsStay
  <1>2. CASE ~UNCHANGED main
    <2>1. PICK p \in Party : MainStep(p) /\ ~Abort(p)
      BY <1>2, StepMoves
    <2>n. main[p].ex \in Nat
      BY ThreadsTyped
    <2>2. /\ \A r \in Party : r # p => main'[r] = main[r]
          /\ \/ main[p].pc = "idle" /\ main'[p] = Go(main[p], "labels")
             \/ main[p].pc = "labels" /\ main'[p] = Go(main[p], "seed")
             \/ main[p].pc = "seed" /\ main'[p] = Go(main[p], "output")
             \/ main[p].pc = "output" /\ main'[p] = Repeat(main[p], "idle")
             \/ main[p].pc = "idle" /\ main'[p] = Go(main[p], "closed")
      BY <2>1, MainGoes
    <2>3. CASE main[p].pc = "idle" /\ main'[p] = Go(main[p], "labels")
      <3>1. main[p].ex < NumExe
        <4>1. MainCall(p) \/ MainClose(p)
          BY <2>1, <2>3 DEF MainStep, MainCheckLabels, MainReceiveSeed, MainReturn, MainAt
        <4>2. ~MainClose(p)
          <5>1. MainClose(p) => main'[p] = Go(main[p], "closed")
            BY Moved DEF MainClose
          <5> QED BY <2>3, <5>1 DEF Go
        <4> QED BY <4>1, <4>2 DEF MainCall
      <3>2. /\ main'[p].ex = main[p].ex /\ CorrectionsSent(main[p]) = main[p].ex
            /\ CorrectionsSent(main'[p]) = main[p].ex + 1
        BY <2>n, <2>3 DEF Go, CorrectionsSent
      <3>3. UNCHANGED <<ReturnedNow, ResultsNow>>
        BY <2>2, <3>2, ResultsStay
      <3>4. CalledNow' = [CalledNow EXCEPT ![p] = CalledNow[p] + 1]
        <4>1. \A r \in Party : CalledNow'[r] = IF r = p THEN CalledNow[p] + 1 ELSE CalledNow[r]
          BY <1>m, <2>2, <3>2
        <4> QED BY <1>m, <4>1, OneEntry
      <3>5. CalledNow[p] = ReturnedNow[p] /\ CalledNow[p] < NumExe
        BY <1>m, <3>1, <3>2
      <3> QED BY <3>3, <3>4, <3>5
    <2>4. CASE \/ main[p].pc = "labels" /\ main'[p] = Go(main[p], "seed")
               \/ main[p].pc = "seed" /\ main'[p] = Go(main[p], "output")
               \/ main[p].pc = "idle" /\ main'[p] = Go(main[p], "closed")
      <3>1. main'[p].ex = main[p].ex /\ CorrectionsSent(main'[p]) = CorrectionsSent(main[p])
        BY <2>4 DEF CorrectionsSent, Go
      <3>2. UNCHANGED CalledNow
        BY <2>2, <3>1 DEF CalledNow
      <3> QED BY <2>2, <3>1, <3>2, ResultsStay
    <2>5. CASE main[p].pc = "output" /\ main'[p] = Repeat(main[p], "idle")
      <3>k. PICK k : k = main[p].ex
        OBVIOUS
      <3>1. MainReturn(p)
        BY <2>1, <2>5 DEF MainStep, MainCall, MainCheckLabels, MainReceiveSeed, MainClose, MainAt
      <3>2. /\ k \in Exec /\ bucket[p][k].output = "good" /\ UNCHANGED bucket
            /\ CorrectionsSent(main[Other(p)]) > k
        BY <2>1, <3>k, <3>1, ReturnsRight
      <3>3. Other(p) = 1 - p /\ 1 - p \in Party
        BY EndsType DEF Other
      <3>4. /\ main'[p].ex = k + 1 /\ CorrectionsSent(main[p]) = k + 1
            /\ CorrectionsSent(main'[p]) = k + 1
        BY <2>n, <2>5, <3>k DEF CorrectionsSent, Repeat
      <3>5. CalledNow[p] = k + 1 /\ CalledNow[1 - p] > k /\ ReturnedNow[p] = k
        BY <1>m, <3>k, <3>2, <3>3, <3>4
      <3>6. UNCHANGED CalledNow
        BY <2>2, <3>4 DEF CalledNow
      <3>7. ReturnedNow' = [ReturnedNow EXCEPT ![p] = ReturnedNow[p] + 1]
        <4>1. \A r \in Party : ReturnedNow'[r] = IF r = p THEN ReturnedNow[p] + 1 ELSE ReturnedNow[r]
          BY <1>m, <2>2, <3>k, <3>4
        <4> QED BY <1>m, <4>1, OneEntry
      <3>8. ResultsNow' = [ResultsNow EXCEPT ![p] = [ResultsNow[p] EXCEPT ![k] = "good"]]
        <4>1. ASSUME NEW r \in Party, NEW l \in Exec
              PROVE  ResultOf(r, l)' = IF r = p /\ l = k THEN "good" ELSE ResultOf(r, l)
          BY <2>n, <2>2, <3>k, <3>2, <3>4 DEF ResultOf, Exec
        <4> QED BY <3>2, <4>1 DEF ResultsNow
      <3>9. ReturnedNow[p] < CalledNow[p]
        BY <2>n, <3>k, <3>5
      <3> QED BY <3>5, <3>6, <3>7, <3>8, <3>9
    <2> QED BY <2>2, <2>3, <2>4, <2>5
  <1> QED BY <1>1, <1>2

LEMMA IdealStep ==
    ASSUME TypeOK, CountersExact, WireInv, SeedInv, WaitInv, OpenAfterChecks, FullData,
           ReturnInv, ReturnInv', [Next]_vars
    PROVE  [Ideal!Next]_(Ideal!vars)
  BY StepIsIdeal DEF CalledNow, ReturnedNow, ResultsNow, ResultOf, CorrectionsSent, Ideal!Next,
                     Ideal!vars, Ideal!Call, Ideal!Return, Ideal!Party, Party

\* IdealSafety: also programs that may end implement the ideal execution.
THEOREM ImplementsIdeal == SafetySpec => IdealSafety
  <1>2. Init => ReturnInv /\ Ideal!Init
    BY DEF Init, ReturnInv, Done, Exec, Ideal!Init, Ideal!Party, Party
  <1>4. SafetySpec => []ReturnInv
    BY <1>2, ReturnsStay, DataHolds, TypeCorrect, CountdownsCorrect, WiresCorrect, SeedHolds, WaitHolds,
       OpenedAfterChecks, PTL DEF SafetySpec
  <1> QED BY <1>2, <1>4, IdealStep, DataHolds, TypeCorrect, CountdownsCorrect, WiresCorrect, SeedHolds,
             WaitHolds, OpenedAfterChecks, PTL DEF SafetySpec, IdealSafety

=============================================================================
