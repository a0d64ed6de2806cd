-------------------------- MODULE DualExInitProofs --------------------------
(***************************************************************************)
(* The offline phase for every number of circuits, buckets and pipes: what *)
(* is proved of DualExActor::init and the threads it starts.               *)
(*                                                                         *)
(* A thread's record says how far it has come.  All else the proofs need,  *)
(* the OTs it has taken, the circuits and buckets it has filled and the    *)
(* messages it has sent or read, is a function of that record and of the   *)
(* two selections.                                                         *)
(***************************************************************************)
EXTENDS DualExInit

-----------------------------------------------------------------------------
(* Sizes. *)

\* Circuits of thread t, the number of its buckets, and the number of those
\* before bucket b.
Size(t)    == Start(t+1) - Start(t)
Turns(t)   == (NumExe - 1 - t) \div NumInitThreads + 1
Turn(t, b) == (b - t) \div NumInitThreads
OnTurn(t, b) == b \in Bucket /\ Turn(t, b) \in Nat /\ b = t + NumInitThreads * Turn(t, b)

\* There is a thread, no more threads than buckets, and a circuit to put into
\* each place of each bucket.
LEMMA Sizes ==
    ASSUME InitSizes
    PROVE  /\ NumInitThreads \in Nat \ {0} /\ NumExe \in Nat /\ NumInitThreads <= NumExe
           /\ BucketSize \in Nat \ {0} /\ NumOpened \in Nat
           /\ NumCircuits \in Nat \ {0} /\ NumExe <= NumCircuits
           /\ NumOpened <= NumCircuits
           /\ NumCircuits - NumOpened = BucketSize * NumExe
           /\ \A p \in Party : NumOTs(p) \in Nat
<1>1. NumInitThreads \in Nat \ {0} /\ NumInitThreads <= NumExe
  BY DEF InitSizes, NumInitThreads, Min
<1>2. BucketSize * NumExe \in Nat /\ BucketSize * NumExe >= NumExe
  BY DEF InitSizes
<1>3. /\ NumCircuits \in Nat \ {0} /\ NumExe <= NumCircuits /\ NumOpened <= NumCircuits
      /\ NumCircuits - NumOpened = BucketSize * NumExe
  BY <1>2 DEF InitSizes, NumCircuits
<1>4. \A p \in Party : NumOTs(p) \in Nat
  <2> SUFFICES ASSUME NEW p \in Party PROVE NumOTs(p) \in Nat
    OBVIOUS
  <2>1. /\ Encoding[p] * (NumCircuits + NumInitThreads - 1) \in Nat
        /\ PsiOTs * (NumExe + NumInitThreads - 1) \in Nat
    BY <1>1, <1>3 DEF InitSizes
  <2> QED BY <2>1, <1>1 DEF NumOTs
<1>5. NumExe \in Nat /\ BucketSize \in Nat \ {0} /\ NumOpened \in Nat
  BY DEF InitSizes
<1> QED BY <1>1, <1>3, <1>4, <1>5

\* The quotient and the remainder of two natural numbers.
LEMMA Division ==
    ASSUME NEW a \in Nat, NEW b \in Nat \ {0}
    PROVE  a \div b \in Nat /\ b * (a \div b) <= a /\ a < b * (a \div b) + b
  OBVIOUS

\* a % b in terms of the quotient.
LEMMA Remainder ==
    ASSUME NEW a \in Nat, NEW b \in Nat \ {0}
    PROVE  a % b = a - b * (a \div b)
  OBVIOUS

\* Multiplying by a natural number keeps the order.
LEMMA Times ==
    ASSUME NEW n \in Nat, NEW a \in Int, NEW b \in Int, a <= b
    PROVE  n * a \in Int /\ n * b \in Int /\ n * a <= n * b
  OBVIOUS

\* A number that satisfies what the quotient does is the quotient.
LEMMA Quotient ==
    ASSUME NEW a \in Nat, NEW b \in Nat \ {0}, NEW q \in Int, b * q <= a, a < b * q + b
    PROVE  a \div b = q
<1>1. a \div b \in Nat /\ b * (a \div b) <= a /\ a < b * (a \div b) + b
  BY Division
<1> DEFINE d == a \div b
<1> HIDE DEF d
<1>2. d \in Int /\ b * d <= a /\ a < b * d + b
  BY <1>1 DEF d
<1>3. ~ d < q
  <2> SUFFICES ASSUME d + 1 <= q PROVE FALSE
    BY <1>2
  <2>1. b * (d + 1) <= b * q
    BY <1>2
  <2> QED BY <2>1, <1>2
<1>4. ~ q < d
  <2> SUFFICES ASSUME q + 1 <= d PROVE FALSE
    BY <1>2
  <2>1. b * (q + 1) <= b * d
    BY <1>2
  <2> QED BY <2>1, <1>2
<1> QED BY <1>2, <1>3, <1>4 DEF d

\* Shares follow each other, and none is empty.
LEMMA Starts ==
    ASSUME InitSizes
    PROVE  /\ Start(0) = 0 /\ Start(NumInitThreads) = NumCircuits
           /\ \A t \in 0..NumInitThreads : Start(t) \in 0..NumCircuits
           /\ \A t \in Thread : Start(t) < Start(t+1)
           /\ \A s, t \in 0..NumInitThreads : s <= t => Start(s) <= Start(t)
<1> DEFINE N == NumInitThreads
           C == NumCircuits
<1>1. N \in Nat \ {0} /\ C \in Nat \ {0} /\ N <= C
  BY Sizes
<1> HIDE DEF N, C
<1>2. \A t \in Nat : t * C \in Nat
  BY <1>1
<1>3. \A t \in Nat : /\ Start(t) \in Nat /\ N * Start(t) <= t * C
                     /\ t * C < N * Start(t) + N
  BY <1>1, <1>2, Division DEF Start, N, C
<1>4. Start(0) = 0
  BY <1>1, Quotient DEF Start, N, C
<1>5. Start(N) = C
  <2>1. N * C \in Nat /\ N * C <= N * C /\ N * C < N * C + N
    BY <1>1
  <2> QED BY <2>1, <1>1, Quotient DEF Start, N, C
<1>6. \A t \in Thread : Start(t) < Start(t+1)
  <2> SUFFICES ASSUME NEW t \in Nat, Start(t+1) <= Start(t) PROVE FALSE
    BY <1>3 DEF Thread
  <2>1. (t + 1) * C = t * C + C
    BY <1>1
  <2>2. Start(t) \in Nat /\ Start(t+1) \in Nat /\ t * C \in Nat
    BY <1>2, <1>3
  <2>3. N * Start(t+1) <= N * Start(t) /\ N * Start(t) \in Int /\ N * Start(t+1) \in Int
    BY <2>2, <1>1, Times
  <2>4. /\ N * Start(t) <= t * C
        /\ (t + 1) * C < N * Start(t+1) + N
    BY <1>3
  <2> QED BY <2>1, <2>2, <2>3, <2>4, <1>1
<1>7. \A s, t \in Nat : s <= t => Start(s) <= Start(t)
  <2> SUFFICES ASSUME NEW s \in Nat, NEW t \in Nat, s <= t, Start(t) + 1 <= Start(s) PROVE FALSE
    BY <1>3
  <2>1. s * C <= t * C /\ s * C \in Nat /\ t * C \in Nat
    BY <1>1
  <2>2. Start(t) \in Nat /\ Start(s) \in Nat
    BY <1>3
  <2>3. N * (Start(t) + 1) <= N * Start(s) /\ N * Start(s) \in Int /\ N * Start(t) \in Int
    BY <2>2, <1>1, Times
  <2>4. N * (Start(t) + 1) = N * Start(t) + N
    BY <2>2, <1>1
  <2>5. N * Start(s) <= s * C /\ t * C < N * Start(t) + N
    BY <1>3
  <2> QED BY <2>1, <2>3, <2>4, <2>5, <1>1
<1>8. \A t \in 0..N : Start(t) \in 0..C
  <2> SUFFICES ASSUME NEW t \in 0..N PROVE Start(t) \in 0..C
    OBVIOUS
  <2>1. t \in Nat /\ N \in Nat /\ t <= N
    BY <1>1
  <2>2. Start(t) \in Nat /\ Start(t) <= Start(N)
    BY <2>1, <1>3, <1>7
  <2> QED BY <2>2, <1>1, <1>5
<1> QED BY <1>4, <1>5, <1>6, <1>7, <1>8 DEF N, C, Thread

\* Every circuit is in the share of exactly one thread, its owner.
LEMMA Owners ==
    ASSUME InitSizes
    PROVE  /\ \A c \in Circuit : Owner(c) \in Thread /\ c \in Share(Owner(c))
           /\ \A t \in Thread : \A c \in Share(t) : c \in Circuit /\ Owner(c) = t
<1> DEFINE N == NumInitThreads
           C == NumCircuits
<1>1. N \in Nat \ {0} /\ C \in Nat \ {0} /\ N <= C
  BY Sizes
<1>2. /\ \A t \in 0..N : Start(t) \in 0..C
      /\ \A s, t \in 0..N : s <= t => Start(s) <= Start(t)
  BY Starts
<1>3. \A s, t \in Thread : \A c \in Share(s) \cap Share(t) : s = t
  <2> SUFFICES ASSUME NEW s \in Thread, NEW t \in Thread, NEW c \in Share(s) \cap Share(t), s < t
               PROVE  FALSE
    BY <1>1 DEF Thread
  <2>1. s + 1 \in 0..N /\ t \in 0..N /\ s \in 0..N /\ s + 1 <= t
    BY <1>1 DEF Thread
  <2>2. Start(s+1) <= Start(t)
    BY <2>1, <1>2
  <2> QED BY <2>1, <2>2, <1>2 DEF Share
<1>4. \A t \in Thread : \A c \in Share(t) : c \in Circuit
  <2> SUFFICES ASSUME NEW t \in Thread, NEW c \in Share(t) PROVE c \in Circuit
    OBVIOUS
  <2>1. t \in 0..N /\ t + 1 \in 0..N
    BY <1>1 DEF Thread
  <2> QED BY <2>1, <1>1, <1>2 DEF Share, Circuit
<1>5. \A c \in Circuit : \E t \in Thread : c \in Share(t)
  <2> SUFFICES ASSUME NEW c \in Circuit PROVE \E t \in Thread : c \in Share(t)
    OBVIOUS
  <2> DEFINE m == (c + 1) * N - 1
             t == m \div C
  <2>1. c \in Nat /\ c < C /\ (c + 1) * N \in Nat \ {0} /\ m \in Nat
    BY <1>1 DEF Circuit
  <2>2. t \in Nat /\ C * t <= m /\ m < C * t + C
    BY <2>1, <1>1, Division
  <2>3. t < N
    <3> SUFFICES ASSUME N <= t PROVE FALSE
      BY <2>2, <1>1
    <3>1. (c + 1) * N <= C * N
      BY <2>1, <1>1
    <3>2. C * N <= C * t
      BY <2>2, <1>1
    <3> HIDE DEF t
    <3> QED BY <3>1, <3>2, <2>1, <2>2, <1>1
  <2>4. Start(t) <= c
    <3>1. t * C \in Nat /\ t * C = C * t
      BY <2>2, <1>1
    <3>2. Start(t) \in Nat /\ N * Start(t) <= t * C
      BY <3>1, <1>1, Division DEF Start
    <3> SUFFICES ASSUME c + 1 <= Start(t) PROVE FALSE
      BY <2>1, <3>2
    <3>3. N * (c + 1) <= N * Start(t) /\ N * (c + 1) = (c + 1) * N
      BY <3>2, <2>1, <1>1
    <3> HIDE DEF t, N, C
    <3> QED BY <3>1, <3>2, <3>3, <2>1, <2>2, <1>1
  <2>5. c < Start(t+1)
    <3>1. (t + 1) * C \in Nat /\ (t + 1) * C = C * t + C
      BY <2>2, <1>1
    <3>2. Start(t+1) \in Nat /\ (t + 1) * C < N * Start(t+1) + N
      BY <3>1, <2>2, <1>1, Division DEF Start
    <3> SUFFICES ASSUME Start(t+1) <= c PROVE FALSE
      BY <2>1, <3>2
    <3>3. N * Start(t+1) <= N * c /\ N * c + N = (c + 1) * N
      BY <3>2, <2>1, <1>1
    <3> HIDE DEF t, N, C
    <3> QED BY <3>1, <3>2, <3>3, <2>1, <2>2, <1>1
  <2>6. t \in Thread
    BY <2>2, <2>3, <1>1 DEF Thread
  <2>7. c \in Share(t)
    <3> HIDE DEF t
    <3>1. t \in 0..N /\ t + 1 \in 0..N
      BY <2>6, <1>1 DEF Thread
    <3>2. Start(t) \in 0..C /\ Start(t+1) \in 0..C
      BY <3>1, <1>2
    <3> QED BY <3>2, <2>1, <2>4, <2>5 DEF Share
  <2> QED BY <2>6, <2>7
<1>6. \A c \in Circuit : Owner(c) \in Thread /\ c \in Share(Owner(c))
  BY <1>5 DEF Owner
<1> QED BY <1>3, <1>4, <1>6

\* A thread starts with its own bucket and moves on by as many as there are
\* threads, as long as there are buckets.
LEMMA Turning ==
    ASSUME InitSizes, NEW t \in Thread
    PROVE  /\ t \in Bucket /\ OnTurn(t, t) /\ Turn(t, t) = 0
           /\ Turns(t) \in Nat \ {0}
           /\ \A b \in Bucket : OnTurn(t, b) =>
                /\ Turn(t, b) < Turns(t)
                /\ b + NumInitThreads < NumExe =>
                     /\ OnTurn(t, b + NumInitThreads)
                     /\ Turn(t, b + NumInitThreads) = Turn(t, b) + 1
                /\ b + NumInitThreads >= NumExe => Turn(t, b) + 1 = Turns(t)
<1> DEFINE N == NumInitThreads
           E == NumExe
<1>1. N \in Nat \ {0} /\ E \in Nat /\ N <= E /\ t \in Nat /\ t < N
  BY Sizes DEF Thread
<1> HIDE DEF N, E
<1>2. t \in Bucket
  BY <1>1 DEF Bucket, E
<1>3. Turn(t, t) = 0
  BY <1>1, Quotient DEF Turn, N
<1>4. OnTurn(t, t)
  BY <1>1, <1>2, <1>3 DEF OnTurn, N
<1>5. /\ Turns(t) \in Nat \ {0}
      /\ N * (Turns(t) - 1) <= E - 1 - t /\ E - 1 - t < N * (Turns(t) - 1) + N
  <2>1. E - 1 - t \in Nat
    BY <1>1
  <2> QED BY <2>1, <1>1, Division DEF Turns, N, E
<1>6. ASSUME NEW b \in Bucket, OnTurn(t, b)
      PROVE  /\ Turn(t, b) < Turns(t)
             /\ b + N < E => OnTurn(t, b + N) /\ Turn(t, b + N) = Turn(t, b) + 1
             /\ b + N >= E => Turn(t, b) + 1 = Turns(t)
  <2> DEFINE j == Turn(t, b)
             m == Turns(t) - 1
  <2>1. j \in Nat /\ b = t + N * j /\ b \in Nat /\ b < E /\ m \in Nat
    BY <1>1, <1>5, <1>6 DEF OnTurn, Bucket, N, E
  <2> HIDE DEF j
  <2>2. CASE b + N < E
    <3>1. (b + N) - t = N * (j + 1) /\ (b + N) - t \in Nat
      BY <2>1, <1>1
    <3>2. Turn(t, b + N) = j + 1
      <4>1. /\ j + 1 \in Int /\ N * (j + 1) <= (b + N) - t
            /\ (b + N) - t < N * (j + 1) + N
        BY <3>1, <2>1, <1>1
      <4> QED BY <3>1, <4>1, <1>1, Quotient DEF Turn, N
    <3>3. OnTurn(t, b + N)
      BY <3>1, <3>2, <2>1, <2>2, <1>1 DEF OnTurn, Bucket, N, E
    <3>4. ~ m <= j
      <4> SUFFICES ASSUME m <= j PROVE FALSE
        OBVIOUS
      <4>1. N * m <= N * j /\ N * m \in Int /\ N * j \in Int
        BY <2>1, <1>1, Times
      <4> QED BY <4>1, <2>1, <2>2, <1>1, <1>5
    <3> QED BY <3>2, <3>3, <3>4, <2>1, <2>2, <1>1, <1>5 DEF j
  <2>3. CASE b + N >= E
    <3>1. N * j <= E - 1 - t /\ E - 1 - t < N * j + N /\ E - 1 - t \in Nat
      BY <2>1, <2>3, <1>1
    <3>2. j = m
      BY <3>1, <2>1, <1>1, Quotient DEF Turns, N, E
    <3> QED BY <3>2, <2>1, <2>3, <1>1, <1>5 DEF j
  <2> QED BY <2>1, <2>2, <2>3, <1>1
<1> QED BY <1>2, <1>3, <1>4, <1>5, <1>6 DEF N, E

\* Every bucket has its turn, in the thread that is its number modulo the threads.
LEMMA BucketOwner ==
    ASSUME InitSizes
    PROVE  /\ \A b \in Bucket : b % NumInitThreads \in Thread /\ OnTurn(b % NumInitThreads, b)
           /\ \A t \in Thread, b \in Bucket : OnTurn(t, b) => b % NumInitThreads = t
           /\ \A t \in Thread, a, b \in Bucket :
                OnTurn(t, a) /\ OnTurn(t, b) => (a < b <=> Turn(t, a) < Turn(t, b))
<1> DEFINE N == NumInitThreads
<1>1. N \in Nat \ {0} /\ NumExe \in Nat
  BY Sizes
<1> HIDE DEF N
<1>2. ASSUME NEW b \in Bucket PROVE b % N \in Thread /\ OnTurn(b % N, b)
  <2> DEFINE q == b \div N
             t == b % N
  <2>1. b \in Nat /\ q \in Nat /\ t \in 0..N-1 /\ b = t + N * q
    BY <1>1 DEF Bucket
  <2> HIDE DEF q, t
  <2>2. b - t = N * q /\ b - t \in Nat
    BY <2>1, <1>1
  <2>3. Turn(t, b) = q
    BY <2>1, <2>2, <1>1, Quotient DEF Turn, N
  <2> QED BY <2>1, <2>3 DEF OnTurn, Thread, N, t
<1>3. ASSUME NEW t \in Thread, NEW b \in Bucket, OnTurn(t, b) PROVE b % N = t
  <2> DEFINE j == Turn(t, b)
  <2>1. t \in 0..N-1 /\ j \in Nat /\ b = t + N * j /\ b \in Nat
    BY <1>3 DEF OnTurn, Thread, Bucket, N
  <2> HIDE DEF j
  <2>2. b \div N = j
    BY <2>1, <1>1, Quotient
  <2>3. b % N = b - N * (b \div N)
    BY <2>1, <1>1, Remainder
  <2>4. N * j \in Nat
    BY <2>1, <1>1
  <2> HIDE DEF N
  <2> QED BY <2>1, <2>2, <2>3, <2>4
<1>4. ASSUME NEW t \in Thread, NEW a \in Bucket, NEW b \in Bucket, OnTurn(t, a), OnTurn(t, b)
      PROVE  a < b <=> Turn(t, a) < Turn(t, b)
  <2> DEFINE i == Turn(t, a)
             j == Turn(t, b)
  <2>1. /\ t \in Nat /\ i \in Nat /\ j \in Nat /\ a = t + N * i /\ b = t + N * j
        /\ N * i \in Nat /\ N * j \in Nat
    BY <1>1, <1>4 DEF OnTurn, Thread, Bucket, N
  <2> HIDE DEF i, j
  <2>2. i < j => N * (i + 1) <= N * j
    BY <2>1, <1>1, Times
  <2>3. ~ i < j => N * j <= N * i
    BY <2>1, <1>1, Times
  <2>4. N * (i + 1) = N * i + N
    BY <2>1, <1>1
  <2>5. i < j => a < b
    BY <2>1, <2>2, <2>4, <1>1
  <2>6. ~ i < j => ~ a < b
    BY <2>1, <2>3, <1>1
  <2> QED BY <2>5, <2>6 DEF i, j
<1> QED BY <1>2, <1>3, <1>4 DEF N

\* The OTs of a pipe are enough for the circuits and buckets of its thread.
LEMMA EnoughOTs ==
    ASSUME InitSizes, NEW t \in Thread, NEW p \in Party
    PROVE  Size(t) * Encoding[p] + Turns(t) * PsiOTs <= NumOTs(p)
<1> DEFINE N == NumInitThreads
           C == NumCircuits
           E == NumExe
           K == Encoding[p]
           n == Size(t)
           m == Turns(t)
           x == K * (C + N - 1)
           y == PsiOTs * (E + N - 1)
<1>1. /\ N \in Nat \ {0} /\ C \in Nat /\ E \in Nat /\ K \in Nat /\ PsiOTs \in Nat
      /\ t \in Nat /\ t < N /\ N <= E
  BY Sizes DEF Thread, InitSizes
<1>2. n \in Nat
  BY <1>1, Starts DEF Size, Thread
<1>3. m \in Nat
  BY Turning
<1>4. N * n <= C + N - 1
  <2>1. t * C \in Nat /\ (t + 1) * C = t * C + C
    BY <1>1
  <2>2. /\ Start(t) \in Nat /\ t * C < N * Start(t) + N
        /\ Start(t+1) \in Nat /\ N * Start(t+1) <= (t + 1) * C
    BY <2>1, <1>1, Division DEF Start
  <2>3. N * n = N * Start(t+1) - N * Start(t)
    BY <2>2, <1>1 DEF Size
  <2>4. N * Start(t) \in Int /\ N * Start(t+1) \in Int
    BY <2>2, <1>1
  <2> QED BY <2>1, <2>2, <2>3, <2>4, <1>1
<1>5. N * m <= E + N - 1
  <2>1. E - 1 - t \in Nat
    BY <1>1
  <2>2. m - 1 \in Nat /\ N * (m - 1) <= E - 1 - t
    BY <2>1, <1>1, Division DEF Turns
  <2>3. N * m = N * (m - 1) + N
    BY <1>1, <1>3
  <2> QED BY <2>1, <2>2, <2>3, <1>1
<1> HIDE DEF N, C, E, K, n, m
<1>6. ASSUME NEW a \in Nat, NEW k \in Nat, NEW z \in Nat, N * a <= z
      PROVE  a * k <= (k * z) \div N
  <2> DEFINE d == (k * z) \div N
  <2>1. k * z \in Nat /\ d \in Nat /\ k * z < N * d + N
    BY <1>1, Division
  <2>2. k * (N * a) <= k * z
    BY <1>1, <1>6, Times
  <2> HIDE DEF d
  <2> SUFFICES ASSUME d + 1 <= a * k PROVE FALSE
    BY <2>1 DEF d
  <2>3. N * (d + 1) <= N * (a * k)
    BY <2>1, <1>1, Times
  <2>4. N * (a * k) = k * (N * a) /\ N * (d + 1) = N * d + N
    BY <2>1, <1>1
  <2>5. N * d \in Int /\ k * (N * a) \in Int
    BY <2>1, <1>1
  <2> QED BY <2>1, <2>2, <2>3, <2>4, <2>5, <1>1
<1>7. n * K <= x \div N /\ x \div N \in Nat
  <2>1. C + N - 1 \in Nat /\ x \in Nat
    BY <1>1
  <2> QED BY <2>1, <1>1, <1>2, <1>4, <1>6, Division
<1>8. m * PsiOTs <= y \div N /\ y \div N \in Nat
  <2>1. E + N - 1 \in Nat /\ y \in Nat
    BY <1>1
  <2> QED BY <2>1, <1>1, <1>3, <1>5, <1>6, Division
<1>9. NumOTs(p) = x \div N + y \div N
  BY DEF NumOTs, N, C, E, K
<1>10. n * K \in Nat /\ m * PsiOTs \in Nat
  BY <1>1, <1>2, <1>3
<1> HIDE DEF x, y
<1> QED BY <1>7, <1>8, <1>9, <1>10 DEF n, m, K

-----------------------------------------------------------------------------
(* Selections. *)

\* A selection has every circuit in one place.
LEMMA SeedFacts ==
    ASSUME InitSizes, NEW sel \in Seeds
    PROVE  /\ Placed(sel, NumOpened, NumCircuits, NumCircuits)
           /\ sel # <<>>
<1>1. PICK draws \in AllDraws(NumOpened, NumCircuits) :
        sel = Selected(NumOpened, NumCircuits, draws)
  BY DEF InitSizes, Selections, AllDraws
<1>2. Placed(sel, NumOpened, NumCircuits, NumCircuits)
  BY <1>1, Sizes, SelectedPlaced
<1>3. sel # <<>>
  BY <1>2 DEF Placed
<1> QED BY <1>2, <1>3

\* Place n of bucket b in the evaluated circuits is different for every b and n.
LEMMA Places ==
    ASSUME InitSizes
    PROVE  /\ \A b \in Bucket, n \in 1..BucketSize :
                b * BucketSize + n - 1 \in 0..NumCircuits-NumOpened-1
           /\ \A a, b \in Bucket : \A m, n \in 1..BucketSize :
                a * BucketSize + m - 1 = b * BucketSize + n - 1 => a = b /\ m = n
<1> DEFINE B == BucketSize
           E == NumExe
<1>1. B \in Nat \ {0} /\ E \in Nat /\ NumCircuits - NumOpened = B * E
  BY Sizes
<1> HIDE DEF B, E
<1>2. ASSUME NEW b \in Bucket, NEW n \in 1..B PROVE b * B + n - 1 \in 0..B*E-1
  <2>1. b \in Nat /\ b + 1 <= E /\ n \in Nat /\ 1 <= n /\ n <= B
    BY <1>1 DEF Bucket, E
  <2>2. B * (b + 1) <= B * E /\ B * (b + 1) = b * B + B /\ b * B \in Nat
    BY <2>1, <1>1, Times
  <2>3. B * E \in Nat
    BY <1>1
  <2> QED BY <2>1, <2>2, <2>3, <1>1
<1>3. ASSUME NEW a \in Nat, NEW b \in Nat, NEW m \in 1..B, NEW n \in 1..B, a < b,
             a * B + m - 1 = b * B + n - 1
      PROVE  FALSE
  <2>1. B * (a + 1) <= B * b /\ B * (a + 1) = a * B + B /\ B * b = b * B
    BY <1>1, <1>3, Times
  <2>2. a * B \in Nat /\ b * B \in Nat
    BY <1>1
  <2> QED BY <2>1, <2>2, <1>1, <1>3
<1>4. ASSUME NEW a \in Bucket, NEW b \in Bucket, NEW m \in 1..B, NEW n \in 1..B,
             a * B + m - 1 = b * B + n - 1
      PROVE  a = b /\ m = n
  <2>1. a \in Nat /\ b \in Nat
    BY DEF Bucket
  <2>2. a = b
    BY <2>1, <1>3, <1>4
  <2>3. b * B \in Nat
    BY <2>1, <1>1
  <2> QED BY <2>2, <2>3, <1>1, <1>4
<1> QED BY <1>1, <1>2, <1>4 DEF B, E

\* The circuits of bucket b in a selection.
Content(sel, b) == Picked(sel, b * BucketSize)

\* The circuits of the buckets: none is opened, and none is put in two places.
LEMMA ContentFacts ==
    ASSUME InitSizes, NEW sel \in Seeds
    PROVE  /\ \A b \in Bucket : /\ Content(sel, b) \in [1..BucketSize -> Circuit]
                                /\ Content(sel, b) # <<>>
           /\ \A b \in Bucket, n \in 1..BucketSize, a \in 0..NumOpened-1 :
                Content(sel, b)[n] # sel[1][a]
           /\ \A a, b \in Bucket : \A m, n \in 1..BucketSize :
                Content(sel, a)[m] = Content(sel, b)[n] => a = b /\ m = n
<1> DEFINE D == 0..NumCircuits-NumOpened-1
           d == sel[2]
<1>1. /\ d \in [D -> Circuit]
      /\ \A x, y \in D : d[x] = d[y] => x = y
      /\ \A a \in 0..NumOpened-1, x \in D : sel[1][a] # d[x]
  BY SeedFacts DEF Placed, Partitioned, Circuit
<1>2. \A b \in Bucket, n \in 1..BucketSize :
        /\ b * BucketSize + n - 1 \in D
        /\ Content(sel, b)[n] = d[b * BucketSize + n - 1]
  BY Places DEF Content, Picked
<1>3. \A b \in Bucket : Content(sel, b) = [n \in 1..BucketSize |-> Content(sel, b)[n]]
  BY DEF Content, Picked
<1>4. 1 \in 1..BucketSize
  BY Sizes
<1> HIDE DEF D, d
<1>5. \A b \in Bucket : Content(sel, b) \in [1..BucketSize -> Circuit]
  BY <1>1, <1>2, <1>3
<1>6. \A b \in Bucket : Content(sel, b) # <<>>
  <2> SUFFICES ASSUME NEW b \in Bucket, Content(sel, b) = <<>> PROVE FALSE
    OBVIOUS
  <2>1. 1 \in DOMAIN Content(sel, b)
    BY <1>4, <1>5
  <2>2. DOMAIN Content(sel, b) = DOMAIN <<>>
    OBVIOUS
  <2> QED BY <2>1, <2>2
<1>7. \A b \in Bucket, n \in 1..BucketSize, a \in 0..NumOpened-1 :
        Content(sel, b)[n] # sel[1][a]
  BY <1>1, <1>2
<1>8. ASSUME NEW a \in Bucket, NEW b \in Bucket, NEW m \in 1..BucketSize,
             NEW n \in 1..BucketSize, Content(sel, a)[m] = Content(sel, b)[n]
      PROVE  a = b /\ m = n
  <2>1. a * BucketSize + m - 1 = b * BucketSize + n - 1
    BY <1>1, <1>2, <1>8
  <2> QED BY <2>1, Places
<1> QED BY <1>5, <1>6, <1>7, <1>8

\* What is opened of a share are the selected circuits in it.
LEMMA OpenedFacts ==
    ASSUME InitSizes, NEW sel \in Seeds, NEW t \in Thread
    PROVE  /\ Opened(sel, t) \in Seq(Circuit)
           /\ \A x \in 1..Len(Opened(sel, t)) :
                /\ Opened(sel, t)[x] \in Share(t)
                /\ \E a \in 0..NumOpened-1 : Opened(sel, t)[x] = sel[1][a]
           /\ \A a \in 0..NumOpened-1 : sel[1][a] \in Share(t) =>
                \E x \in 1..Len(Opened(sel, t)) : Opened(sel, t)[x] = sel[1][a]
<1> DEFINE K == NumOpened
           s == sel[1]
           Keep(q, a) == IF s[a] \in Share(t) THEN Append(q, s[a]) ELSE q
           Loop(g, m) == g = [n \in 0..m |-> IF n = 0 THEN <<>> ELSE Keep(g[n-1], n - 1)]
           upTo == CHOOSE g : Loop(g, K)
           Fits(q, m) == /\ q \in Seq(Circuit)
                         /\ \A x \in 1..Len(q) :
                              q[x] \in Share(t) /\ \E a \in 0..K-1 : q[x] = s[a]
                         /\ \A a \in 0..m-1 : s[a] \in Share(t) =>
                              \E x \in 1..Len(q) : q[x] = s[a]
           E == {m \in Nat : \E g : Loop(g, m)}
           P == {m \in Nat : m <= K => Fits(upTo[m], m)}
<1>1. Opened(sel, t) = upTo[K]
  BY DEF Opened
<1>2. K \in Nat /\ s \in [0..K-1 -> Circuit]
  BY Sizes, SeedFacts DEF Placed, Circuit
<1> HIDE DEF K, s
<1>3. E = Nat
  <2>1. 0 \in E
    <3> DEFINE g == [n \in 0..0 |-> <<>>]
    <3>1. Loop(g, 0)
      OBVIOUS
    <3> HIDE DEF g, Loop
    <3> QED BY <3>1
  <2>2. ASSUME NEW m \in E PROVE m + 1 \in E
    <3>1. PICK g : Loop(g, m)
      OBVIOUS
    <3> DEFINE h == [n \in 0..m+1 |-> IF n = 0 THEN <<>> ELSE Keep(g[n-1], n - 1)]
    <3> HIDE DEF Keep
    <3>2. \A n \in 0..m : h[n] = g[n]
      <4>1. \A n \in 0..m : g[n] = IF n = 0 THEN <<>> ELSE Keep(g[n-1], n - 1)
        BY <3>1
      <4> HIDE DEF Loop
      <4> QED BY <4>1
    <3>3. Loop(h, m + 1)
      <4>1. \A n \in 0..m+1 : n # 0 => h[n-1] = g[n-1]
        <5> HIDE DEF h, Loop
        <5>1. \A n \in 0..m+1 : n # 0 => n - 1 \in 0..m
          OBVIOUS
        <5> QED BY <3>2, <5>1
      <4> QED BY <4>1
    <3> HIDE DEF h, Loop
    <3> QED BY <3>3
  <2> HIDE DEF E
  <2> QED BY <2>1, <2>2, NatSetInduction DEF E
<1>4. Loop(upTo, K)
  <2>1. K \in E
    <3> HIDE DEF E
    <3> QED BY <1>2, <1>3
  <2>2. \E g : Loop(g, K)
    BY <2>1
  <2> HIDE DEF Loop
  <2> QED BY <2>2
<1> HIDE DEF upTo, Fits
<1>5. P = Nat
  <2>1. 0 \in P
    <3>1. upTo[0] = <<>>
      BY <1>2, <1>4
    <3>2. Fits(<<>>, 0)
      <4>1. 0..0-1 = {} /\ <<>> \in Seq(Circuit) /\ 1..Len(<<>>) = {}
        OBVIOUS
      <4> QED BY <4>1 DEF Fits
    <3> QED BY <3>1, <3>2
  <2>2. ASSUME NEW m \in P PROVE m + 1 \in P
    <3> SUFFICES ASSUME m + 1 <= K PROVE Fits(upTo[m+1], m + 1)
      OBVIOUS
    <3> DEFINE q == upTo[m]
    <3>1. m \in 0..K-1 /\ s[m] \in Circuit /\ Fits(q, m)
      BY <1>2
    <3>2. upTo[m+1] = Keep(q, m)
      <4>1. m + 1 \in 0..K /\ m + 1 # 0 /\ (m + 1) - 1 = m
        BY <1>2
      <4> HIDE DEF Keep
      <4> QED BY <1>4, <4>1
    <3> HIDE DEF q
    <3>3. CASE s[m] \notin Share(t)
      BY <3>1, <3>2, <3>3 DEF Fits
    <3>4. CASE s[m] \in Share(t)
      <4> DEFINE r == Append(q, s[m])
      <4>1. /\ q \in Seq(Circuit) /\ r \in Seq(Circuit) /\ Len(r) = Len(q) + 1
            /\ r[Len(q) + 1] = s[m] /\ \A x \in 1..Len(q) : r[x] = q[x]
        BY <3>1 DEF Fits
      <4> HIDE DEF r
      <4>2. \A x \in 1..Len(r) : r[x] \in Share(t) /\ \E a \in 0..K-1 : r[x] = s[a]
        <5> SUFFICES ASSUME NEW x \in 1..Len(r)
                     PROVE  r[x] \in Share(t) /\ \E a \in 0..K-1 : r[x] = s[a]
          OBVIOUS
        <5>1. CASE x \in 1..Len(q)
          BY <5>1, <4>1, <3>1 DEF Fits
        <5>2. CASE x \notin 1..Len(q)
          <6>1. Len(q) \in Nat
            BY <4>1
          <6>2. x = Len(q) + 1
            BY <6>1, <5>2, <4>1
          <6>3. r[x] = s[m]
            BY <6>2, <4>1
          <6> QED BY <6>3, <3>1, <3>4
        <5> QED BY <5>1, <5>2
      <4>3. \A a \in 0..m : s[a] \in Share(t) => \E x \in 1..Len(r) : r[x] = s[a]
        <5> SUFFICES ASSUME NEW a \in 0..m, s[a] \in Share(t)
                     PROVE  \E x \in 1..Len(r) : r[x] = s[a]
          OBVIOUS
        <5>1. CASE a = m
          BY <5>1, <4>1
        <5>2. CASE a # m
          <6>1. a \in 0..m-1
            BY <5>2
          <6>2. PICK x \in 1..Len(q) : q[x] = s[a]
            BY <6>1, <3>1 DEF Fits
          <6> QED BY <6>2, <4>1
        <5> QED BY <5>1, <5>2
      <4>4. Fits(r, m + 1)
        BY <4>1, <4>2, <4>3 DEF Fits
      <4> QED BY <4>4, <3>2, <3>4 DEF r
    <3> QED BY <3>3, <3>4
  <2> HIDE DEF P
  <2> QED BY <2>1, <2>2, NatSetInduction DEF P
<1>6. K \in P
  <2> HIDE DEF P
  <2> QED BY <1>2, <1>5
<1> QED BY <1>1, <1>2, <1>6 DEF Fits, K, s

-----------------------------------------------------------------------------
(* How far a thread has come. *)

\* The sides agree on what they were started with.
Matched == ParamsMatch /\ Encoding[0] = Encoding[1]

\* The part of its work a send thread, or a recv thread, is in.
SendPhase(pc) == IF pc \in {"unborn", "garble", "garbled"} THEN "start"
                 ELSE IF pc \in {"committed", "open", "opened", "proof"} THEN "open"
                 ELSE IF pc = "translate" THEN "fill" ELSE pc
RecvPhase(pc) == IF pc \in {"unborn", "circuits"} THEN "start"
                 ELSE IF pc \in {"committed", "open", "proof", "noproof"} THEN "open"
                 ELSE IF pc = "deltas" THEN "fill" ELSE pc

Early  == {"start", "initOT", "open"}
Late   == {"bucketed", "kprobe", "done"}
Phases == Early \cup {"bucket", "fill"} \cup Late

\* The first of the OTs a circuit, or a bucket, takes from the pipe to p.
CircuitOT(p, c) == (c - Start(Owner(c))) * Encoding[p]
TurnOT(p, t, j) == Size(t) * Encoding[p] + j * PsiOTs
BucketOT(p, b)  == TurnOT(p, b % NumInitThreads, Turn(b % NumInitThreads, b))

\* The record of a thread that takes OTs from pipe t to p.
WorkerOK(p, t, w, phase) ==
    /\ w.next \in Nat /\ w.ot \in Nat /\ w.bckt \in Bucket
    /\ w.iter \in 0..BucketSize * NumExe
    /\ phase = "start" => w.next = Start(t)
    /\ phase = "initOT" => w.next \in Share(t)
    /\ phase \notin {"start", "initOT"} => w.next = Start(t+1)
    /\ phase \in Early => /\ w.ot = (w.next - Start(t)) * Encoding[p]
                          /\ w.iter = t * BucketSize
    /\ phase \in {"bucket", "fill", "kprobe"} => OnTurn(t, w.bckt)
    /\ phase \notin {"bucket", "fill", "kprobe"} => w.bckt = t
    /\ phase \in {"bucket", "fill"} => w.iter = w.bckt * BucketSize
    /\ phase = "bucket" => w.ot = TurnOT(p, t, Turn(t, w.bckt))
    /\ phase = "fill" => w.ot = TurnOT(p, t, Turn(t, w.bckt) + 1)
    /\ phase \in Late => w.ot = TurnOT(p, t, Turns(t))

\* The thread has taken the OTs of bucket b; has sent, or read, its deltas; has
\* sent, or read, its labels.
Filled(w, phase, b)    == \/ phase \in Late
                          \/ phase = "bucket" /\ b < w.bckt
                          \/ phase = "fill" /\ b <= w.bckt
Delivered(w, phase, b) == phase \in Late \/ (phase \in {"bucket", "fill"} /\ b < w.bckt)
Labelled(w, phase, b)  == phase = "done" \/ (phase = "kprobe" /\ b < w.bckt)

\* The messages a send thread has sent, and a recv thread has read, when o of the
\* circuits of the share are opened.
Sent(t, o, s) ==
    LET n == Size(t)  j == Turn(t, s.bckt) IN
    IF s.pc \in {"unborn", "garble"} THEN 0
    ELSE IF s.pc = "garbled" THEN n + 1
    ELSE IF s.pc = "initOT" THEN n + 1 + (s.next - Start(t))
    ELSE IF s.pc \in {"committed", "open"} THEN 2 * n + 2
    ELSE IF s.pc \in {"opened", "proof"} THEN 2 * n + o + 3
    ELSE IF s.pc \in {"bucket", "translate"} THEN 2 * n + o + 4 + j
    ELSE IF s.pc = "bucketed" THEN 2 * n + o + 5 + Turns(t)
    ELSE IF s.pc = "kprobe" THEN 2 * n + o + 5 + Turns(t) + j
    ELSE 2 * n + o + 5 + 2 * Turns(t)
Read(t, o, r) ==
    LET n == Size(t)  j == Turn(t, r.bckt) IN
    IF r.pc \in {"unborn", "circuits"} THEN 0
    ELSE IF r.pc = "initOT" THEN n + 1 + (r.next - Start(t))
    ELSE IF r.pc = "committed" THEN 2 * n + 1
    ELSE IF r.pc = "open" THEN 2 * n + 2
    ELSE IF r.pc \in {"proof", "noproof"} THEN 2 * n + o + 3
    ELSE IF r.pc \in {"bucket", "deltas"} THEN 2 * n + o + 4 + j
    ELSE IF r.pc = "bucketed" THEN 2 * n + o + 4 + Turns(t)
    ELSE IF r.pc = "kprobe" THEN 2 * n + o + 5 + Turns(t) + j
    ELSE 2 * n + o + 5 + 2 * Turns(t)

-----------------------------------------------------------------------------
(* The invariant: each variable as a function of the threads' records. *)

Kinds   == {"dummy", "commit", "params", "seed", "circuit", "commits", "open", "proof", "deltas",
            "labels"}
Message == [kind : Kinds, cirs : Seq(Int), ots : Seq(Int)]

\* The x-th message to recv[p][t], as far as a check depends on it.
Expected(p, t, sel, other, x, m) ==
    LET o == Len(Opened(sel, t)) IN
    /\ \A n \in 1..o : x = 2 * Size(t) + 2 + n =>
        /\ m.cirs = <<Opened(sel, t)[n]>>
        /\ m.ots = <<CircuitOT(Other(p), Opened(sel, t)[n])>>
    /\ \A b \in Bucket : OnTurn(t, b) /\ x = 2 * Size(t) + o + 6 + Turns(t) + Turn(t, b) =>
        /\ m.cirs = Content(sel, b)
        /\ Matched => m.ots = [n \in 1..BucketSize |-> CircuitOT(p, Content(other, b)[n])]

WireOK(p, t, w, s, r, sel, other) ==
    LET o == Len(Opened(sel, t)) IN
    /\ w \in Seq(Message)
    /\ Len(w) = Sent(t, o, s) - Read(t, o, r)
    /\ \A x \in 1..Len(w) : Expected(p, t, sel, other, Read(t, o, r) + x, w[x])

\* Circuit c garbled by p, and the peer's circuit c; s and r are of its owner.
MineOK(p, c, m, s, sel) ==
    /\ m.ot = IF c < s.next THEN CircuitOT(p, c) ELSE Unset
    /\ m.cleared => sel \in Seeds /\ \E a \in 0..NumOpened-1 : c = sel[1][a]
TheirOK(p, c, h, r, sel) ==
    /\ h.ot = IF c < r.next THEN CircuitOT(Other(p), c) ELSE Unset
    /\ h.received <=> r.pc \notin {"unborn", "circuits"}
    /\ RecvPhase(r.pc) \notin Early => \A a \in 0..NumOpened-1 : sel[1][a] = c => h.checked

\* Bucket b of p, with the threads whose turn it is.
BucketOK(p, b, k, s, r, peersel, sel) ==
    /\ k.psiRecv = IF Filled(s, SendPhase(s.pc), b) THEN BucketOT(p, b) ELSE Unset
    /\ k.mine = IF Filled(s, SendPhase(s.pc), b) THEN Content(peersel, b) ELSE <<>>
    /\ k.psiSend = IF Filled(r, RecvPhase(r.pc), b) THEN BucketOT(Other(p), b) ELSE Unset
    /\ k.their = IF Delivered(r, RecvPhase(r.pc), b) THEN Content(sel, b) ELSE <<>>
    /\ k.deltas <=> Delivered(r, RecvPhase(r.pc), b)
    /\ k.labels <=> Labelled(r, RecvPhase(r.pc), b)
    /\ Labelled(s, SendPhase(s.pc), b) => k.deltas

\* The pipe to p: what its ends have set aside is there.
PipeOK(p, t, e, s, r) ==
    /\ e.recv \in 0..NumOTs(p) /\ e.send \in 0..NumOTs(p)
    /\ e.recv >= (s.next - Start(t)) * Encoding[p]
    /\ Encoding[0] = Encoding[1] => e.send >= (r.next - Start(t)) * Encoding[p]

\* Where init is, and where its threads can be.
MainOK(p, m, s, r, peersel, sel) ==
    /\ m \in MainPc
    /\ \A t \in Thread : /\ s[t].pc = "unborn" <=> m \in {"announce", "params"}
                         /\ r[t].pc = "unborn" <=> m \in {"announce", "params"}
                         /\ SendPhase(s[t].pc) \notin Early \/ s[t].pc \in {"opened", "proof"}
                                => m \in {"join", "online"}
                         /\ m \in {"reveal", "join", "online"} => r[t].next = Start(t+1)
                         /\ m = "online" => s[t].pc = "done" /\ r[t].pc = "done"
    /\ m \notin {"announce", "params"} => ParamsMatch
    /\ peersel = IF m \in {"join", "online"} THEN sel ELSE <<>>

Worker0(pcs) == [pc : pcs, next : Nat, ot : Nat, bckt : Bucket, iter : Nat]

Shape ==
    /\ main \in [Party -> MainPc]
    /\ seed \in [Party -> Seeds]
    /\ theirs \in [Party -> Seeds \cup {<<>>}]
    /\ pipe \in [Party -> [Thread -> [recv : Nat, send : Nat, ended : BOOLEAN]]]
    /\ send \in [Party -> [Thread -> Worker0(SendPc)]]
    /\ recv \in [Party -> [Thread -> Worker0(RecvPc)]]
    /\ mine \in [Party -> [Circuit -> [ot : Int, cleared : BOOLEAN]]]
    /\ their \in [Party -> [Circuit -> [received : BOOLEAN, ot : Int, checked : BOOLEAN]]]
    /\ bucket \in [Party -> [Bucket -> [mine : Picks, their : Picks, deltas : BOOLEAN,
                                        psiSend : Int, psiRecv : Int, labels : BOOLEAN]]]
    /\ net \in [Ends -> Seq(Message)]
    /\ aborted \in [Party -> BOOLEAN]

Threads ==
    \A p \in Party, t \in Thread :
        /\ WorkerOK(p, t, send[p][t], SendPhase(send[p][t].pc))
        /\ WorkerOK(Other(p), t, recv[p][t], RecvPhase(recv[p][t].pc))
        /\ PipeOK(p, t, pipe[p][t], send[p][t], recv[Other(p)][t])
        /\ WireOK(p, t, net[RecvEnd(p, t)], send[Other(p)][t], recv[p][t], seed[p], seed[Other(p)])

Contents ==
    \A p \in Party :
        /\ \A c \in Circuit : /\ MineOK(p, c, mine[p][c], send[p][Owner(c)], theirs[p])
                              /\ TheirOK(p, c, their[p][c], recv[p][Owner(c)], seed[p])
        /\ \A b \in Bucket :
            BucketOK(p, b, bucket[p][b], send[p][b % NumInitThreads], recv[p][b % NumInitThreads],
                     theirs[p], seed[p])

\* The deltas of a bucket are in when all its circuits have their OTs.
DeltasLate ==
    \A p \in Party, b \in Bucket : bucket[p][b].deltas =>
        \A n \in 1..BucketSize :
            LET c == Content(seed[p], b)[n] IN c < recv[p][Owner(c)].next

Mains ==
    \A p \in Party :
        /\ MainOK(p, main[p], send[p], recv[p], theirs[p], seed[Other(p)])
        /\ main[p] = "online" => \A q \in Party, t \in Thread : pipe[q][t].ended

Sound ==
    Matched => /\ \A p \in Party : ~aborted[p]
               /\ \A p \in Party, t \in Thread : recv[p][t].pc # "noproof"

Inv == Shape /\ Threads /\ Contents /\ DeltasLate /\ Mains /\ Sound

-----------------------------------------------------------------------------
(* One thread: what its record says after each part of its work. *)

LEMMA ThreadFacts ==
    ASSUME InitSizes, NEW t \in Thread
    PROVE  /\ Start(t) \in Nat /\ Start(t+1) \in Nat /\ Start(t+1) <= NumCircuits
           /\ Size(t) \in Nat \ {0} /\ Start(t+1) = Start(t) + Size(t)
           /\ Start(t) \in Share(t) /\ Start(t+1) \notin Share(t)
           /\ \A c : c \in Share(t) <=> c \in Nat /\ Start(t) <= c /\ c < Start(t+1)
           /\ \A c \in Share(t) : c \in Circuit /\ (c + 1 \notin Share(t) => c + 1 = Start(t+1))
<1>1. t \in 0..NumInitThreads /\ t + 1 \in 0..NumInitThreads
  BY Sizes DEF Thread
<1>2. /\ Start(t) \in 0..NumCircuits /\ Start(t+1) \in 0..NumCircuits
      /\ Start(t) < Start(t+1) /\ NumCircuits \in Nat
  BY <1>1, Starts, Sizes
<1>3. \A c : c \in Share(t) <=> c \in Nat /\ Start(t) <= c /\ c < Start(t+1)
  BY <1>2 DEF Share
<1> HIDE DEF Share
<1>4. \A c \in Share(t) : c \in Circuit /\ (c + 1 \notin Share(t) => c + 1 = Start(t+1))
  BY <1>2, <1>3 DEF Circuit
<1> QED BY <1>2, <1>3, <1>4 DEF Size

\* The position of a bucket's OTs follows those of the circuits and of the
\* buckets before it.
LEMMA OTFacts ==
    ASSUME InitSizes, NEW p \in Party, NEW t \in Thread
    PROVE  /\ Encoding[p] \in Nat \ {0} /\ PsiOTs \in Nat \ {0}
           /\ \A n \in Nat : /\ n * Encoding[p] \in Nat
                             /\ (n + 1) * Encoding[p] = n * Encoding[p] + Encoding[p]
           /\ \A m, n \in Nat : m <= n => m * Encoding[p] <= n * Encoding[p]
           /\ TurnOT(p, t, 0) = Size(t) * Encoding[p]
           /\ \A j \in Nat : /\ TurnOT(p, t, j) \in Nat /\ TurnOT(p, t, j) >= Size(t) * Encoding[p]
                             /\ TurnOT(p, t, j + 1) = TurnOT(p, t, j) + PsiOTs
           /\ TurnOT(p, t, Turns(t)) <= NumOTs(p)
           /\ \A j \in Nat : j <= Turns(t) => TurnOT(p, t, j) <= NumOTs(p)
           /\ \A n \in Nat : n <= Size(t) => n * Encoding[p] <= NumOTs(p)
<1>1. Encoding[p] \in Nat \ {0} /\ PsiOTs \in Nat \ {0}
  BY DEF InitSizes
<1>2. Size(t) \in Nat /\ Turns(t) \in Nat /\ NumOTs(p) \in Nat
  BY ThreadFacts, Turning, Sizes
<1>3. TurnOT(p, t, Turns(t)) <= NumOTs(p)
  BY EnoughOTs DEF TurnOT
<1> DEFINE K == Encoding[p]
           P == PsiOTs
           n0 == Size(t)
           T == Turns(t)
<1> HIDE DEF K, P, n0, T
<1>4. \A n \in Nat : n * K \in Nat /\ (n + 1) * K = n * K + K /\ n * P \in Nat
                     /\ (n + 1) * P = n * P + P
  BY <1>1 DEF K, P
<1>5. ASSUME NEW m \in Nat, NEW n \in Nat, m <= n PROVE m * K <= n * K /\ m * P <= n * P
  <2>1. K * m <= K * n /\ P * m <= P * n
    BY <1>1, <1>5, Times DEF K, P
  <2> QED BY <2>1, <1>1 DEF K, P
<1>6. /\ \A j : TurnOT(p, t, j) = n0 * K + j * P
      /\ n0 \in Nat /\ T \in Nat /\ n0 * K \in Nat
  BY <1>2, <1>4 DEF TurnOT, n0, K, P, T
<1>7. /\ TurnOT(p, t, 0) = n0 * K
      /\ \A j \in Nat : /\ TurnOT(p, t, j) \in Nat /\ TurnOT(p, t, j) >= n0 * K
                        /\ TurnOT(p, t, j + 1) = TurnOT(p, t, j) + P
  <2>1. 0 * P = 0 /\ P \in Nat
    BY <1>1 DEF P
  <2>2. TurnOT(p, t, 0) = n0 * K
    BY <2>1, <1>6
  <2>3. ASSUME NEW j \in Nat
        PROVE  /\ TurnOT(p, t, j) \in Nat /\ TurnOT(p, t, j) >= n0 * K
               /\ TurnOT(p, t, j + 1) = TurnOT(p, t, j) + P
    <3>1. TurnOT(p, t, j) = n0 * K + j * P /\ TurnOT(p, t, j + 1) = n0 * K + (j + 1) * P
      BY <1>6
    <3>2. (j + 1) * P = j * P + P /\ j * P \in Nat /\ n0 * K \in Nat
      BY <1>4, <1>6
    <3> QED BY <3>1, <3>2, <2>1
  <2> QED BY <2>2, <2>3
<1>8. \A j \in Nat : j <= T => TurnOT(p, t, j) <= NumOTs(p)
  <2> SUFFICES ASSUME NEW j \in Nat, j <= T PROVE TurnOT(p, t, j) <= NumOTs(p)
    OBVIOUS
  <2>1. j * P <= T * P /\ j * P \in Nat /\ T * P \in Nat
    BY <1>4, <1>5, <1>6
  <2>2. n0 * K + T * P <= NumOTs(p)
    BY <1>3, <1>6 DEF T
  <2>3. TurnOT(p, t, j) = n0 * K + j * P /\ n0 * K \in Nat
    BY <1>6
  <2> QED BY <2>1, <2>2, <2>3, <1>2
<1>9. \A n \in Nat : n <= n0 => n * K <= NumOTs(p)
  <2> SUFFICES ASSUME NEW n \in Nat, n <= n0 PROVE n * K <= NumOTs(p)
    OBVIOUS
  <2>1. n * K <= n0 * K /\ n * K \in Nat
    BY <1>4, <1>5, <1>6
  <2>2. n0 * K <= NumOTs(p)
    BY <1>6, <1>7, <1>8
  <2> QED BY <2>1, <2>2, <1>2, <1>6
<1> QED BY <1>1, <1>3, <1>4, <1>5, <1>7, <1>8, <1>9 DEF K, P, n0, T

\* The buckets of a thread before the next one are those up to this one.
LEMMA NextTurn ==
    ASSUME InitSizes, NEW t \in Thread, NEW a \in Bucket, NEW b \in Bucket,
           OnTurn(t, a), OnTurn(t, b)
    PROVE  /\ a + NumInitThreads < NumExe => (b < a + NumInitThreads <=> b <= a)
           /\ ~ a + NumInitThreads < NumExe => b <= a
           /\ ~ b < t
<1> DEFINE c == a + NumInitThreads
<1>1. /\ a \in Nat /\ b \in Nat /\ t \in Nat /\ NumInitThreads \in Nat \ {0} /\ NumExe \in Nat
      /\ Turn(t, a) \in Nat /\ Turn(t, b) \in Nat /\ t \in Bucket /\ c \in Nat
  <2>1. Turn(t, a) \in Nat /\ Turn(t, b) \in Nat
    BY DEF OnTurn
  <2>2. t \in Bucket
    BY Turning
  <2>3. NumInitThreads \in Nat \ {0} /\ NumExe \in Nat
    BY Sizes
  <2> QED BY <2>1, <2>2, <2>3 DEF Bucket
<1>2. a < b <=> Turn(t, a) < Turn(t, b)
  BY BucketOwner
<1>3. ~ b < t
  <2>1. b < t <=> Turn(t, b) < Turn(t, t)
    BY <1>1, Turning, BucketOwner
  <2> QED BY <2>1, <1>1, Turning
<1>4. ASSUME c < NumExe PROVE b < c <=> b <= a
  <2>1. c \in Bucket /\ OnTurn(t, c) /\ Turn(t, c) = Turn(t, a) + 1
    BY <1>1, <1>4, Turning DEF OnTurn
  <2>2. b < c <=> Turn(t, b) < Turn(t, c)
    BY <2>1, BucketOwner
  <2> QED BY <2>1, <2>2, <1>1, <1>2
<1>5. ASSUME ~ c < NumExe PROVE b <= a
  <2>1. Turn(t, a) + 1 = Turns(t) /\ Turn(t, b) < Turns(t)
    BY <1>1, <1>5, Turning
  <2> QED BY <2>1, <1>1, <1>2
<1> QED BY <1>3, <1>4, <1>5

\* What a party may do with a record, w, to get w2, from one part of its work to
\* the next.
SameWork(w, w2) == w2.next = w.next /\ w2.ot = w.ot /\ w2.bckt = w.bckt /\ w2.iter = w.iter

\* A record that keeps its counters stays right when only its position moves on.
LEMMA WorkerWaits ==
    ASSUME InitSizes, NEW p \in Party, NEW t \in Thread, NEW w, NEW w2,
           NEW phase, NEW phase2, WorkerOK(p, t, w, phase), SameWork(w, w2),
           \/ phase2 = phase
           \/ phase = "start" /\ phase2 = "initOT"
           \/ phase = "open" /\ phase2 = "bucket"
           \/ phase = "bucketed" /\ phase2 = "kprobe"
    PROVE  WorkerOK(p, t, w2, phase2)
<1>1. CASE phase2 = phase
  BY <1>1 DEF WorkerOK, SameWork
<1>2. CASE phase = "start" /\ phase2 = "initOT"
  BY <1>2, ThreadFacts DEF WorkerOK, SameWork, Early, Late
<1>3. CASE phase = "open" /\ phase2 = "bucket"
  <2>1. /\ w.next = Start(t+1) /\ w.ot = (w.next - Start(t)) * Encoding[p]
        /\ w.bckt = t /\ w.iter = t * BucketSize
    BY <1>3 DEF WorkerOK, Early
  <2>2. w.ot = TurnOT(p, t, Turn(t, t)) /\ OnTurn(t, t)
    BY <2>1, Turning, OTFacts DEF Size
  <2> QED BY <1>3, <2>1, <2>2 DEF WorkerOK, SameWork, Early, Late
<1>4. CASE phase = "bucketed" /\ phase2 = "kprobe"
  <2>1. w.bckt = t /\ OnTurn(t, t)
    BY <1>4, Turning DEF WorkerOK
  <2> QED BY <1>4, <2>1 DEF WorkerOK, SameWork, Early, Late
<1> QED BY <1>1, <1>2, <1>3, <1>4

\* The OTs of the next circuit.
LEMMA WorkerTakesCircuit ==
    ASSUME InitSizes, NEW p \in Party, NEW t \in Thread, NEW w, NEW w2, NEW phase2,
           WorkerOK(p, t, w, "initOT"),
           w2.next = w.next + 1, w2.ot = w.ot + Encoding[p], w2.bckt = w.bckt, w2.iter = w.iter,
           phase2 = IF w.next + 1 \in Share(t) THEN "initOT" ELSE "open"
    PROVE  /\ WorkerOK(p, t, w2, phase2)
           /\ w.next \in Share(t) /\ Owner(w.next) = t /\ w.ot = CircuitOT(p, w.next)
           /\ (w2.next - Start(t)) * Encoding[p] = w.ot + Encoding[p]
<1>1. /\ w.next \in Share(t) /\ w.ot = (w.next - Start(t)) * Encoding[p]
      /\ w.bckt = t /\ t \in Bucket /\ w.iter = t * BucketSize /\ w.iter \in 0..BucketSize * NumExe
      /\ w.ot \in Nat
  BY DEF WorkerOK, Early
<1>2. w.next \in Nat /\ w.next - Start(t) \in Nat /\ (w.next + 1) - Start(t) = (w.next - Start(t)) + 1
  BY <1>1, ThreadFacts
<1>3. (w2.next - Start(t)) * Encoding[p] = w.ot + Encoding[p]
  <2> DEFINE n == w.next - Start(t)
  <2>1. w2.next - Start(t) = n + 1 /\ n \in Nat
    BY <1>2
  <2>2. (n + 1) * Encoding[p] = n * Encoding[p] + Encoding[p]
    BY <2>1, OTFacts
  <2>3. w.ot = n * Encoding[p]
    BY <1>1
  <2> HIDE DEF n
  <2> QED BY <2>1, <2>2, <2>3
<1>4. w2.ot = (w2.next - Start(t)) * Encoding[p] /\ w2.ot \in Nat
  <2>1. Encoding[p] \in Nat
    BY OTFacts
  <2> QED BY <1>1, <1>3, <2>1
<1>5. w.next + 1 \notin Share(t) => w2.next = Start(t+1)
  BY <1>1, ThreadFacts
<1>6. WorkerOK(p, t, w2, phase2)
  BY <1>1, <1>2, <1>4, <1>5 DEF WorkerOK, Early, Late
<1>7. Owner(w.next) = t
  BY <1>1, Owners
<1> QED BY <1>1, <1>3, <1>6, <1>7 DEF CircuitOT

\* The OTs of the bucket's intersection.
LEMMA WorkerTakesBucket ==
    ASSUME InitSizes, NEW p \in Party, NEW t \in Thread, NEW w, NEW w2,
           WorkerOK(p, t, w, "bucket"),
           w2.next = w.next, w2.ot = w.ot + PsiOTs, w2.bckt = w.bckt, w2.iter = w.iter
    PROVE  /\ WorkerOK(p, t, w2, "fill")
           /\ w.ot = BucketOT(p, w.bckt) /\ OnTurn(t, w.bckt) /\ w.bckt % NumInitThreads = t
           /\ w.iter = w.bckt * BucketSize
<1>1. /\ w.bckt \in Bucket /\ OnTurn(t, w.bckt) /\ w.iter = w.bckt * BucketSize
      /\ w.ot = TurnOT(p, t, Turn(t, w.bckt)) /\ w.next = Start(t+1) /\ w.next \in Nat
      /\ w.iter \in 0..BucketSize * NumExe
  BY DEF WorkerOK, Early
<1>2. w.bckt % NumInitThreads = t
  BY <1>1, BucketOwner
<1>3. w2.ot = TurnOT(p, t, Turn(t, w.bckt) + 1) /\ w2.ot \in Nat
  BY <1>1, OTFacts DEF OnTurn
<1>4. WorkerOK(p, t, w2, "fill")
  BY <1>1, <1>3 DEF WorkerOK, Early, Late
<1> QED BY <1>1, <1>2, <1>4 DEF BucketOT

\* On to the next bucket, or past the last one.
LEMMA WorkerFills ==
    ASSUME InitSizes, NEW p \in Party, NEW t \in Thread, NEW w, NEW w2, NEW phase2,
           WorkerOK(p, t, w, "fill"),
           w2.next = w.next, w2.ot = w.ot,
           w2.bckt = (IF w.bckt + NumInitThreads < NumExe THEN w.bckt + NumInitThreads ELSE t),
           w2.iter = w.iter + BucketSize + Skip(w.bckt),
           phase2 = IF w.bckt + NumInitThreads < NumExe THEN "bucket" ELSE "bucketed"
    PROVE  WorkerOK(p, t, w2, phase2)
<1>1. /\ w.bckt \in Bucket /\ OnTurn(t, w.bckt) /\ w.iter = w.bckt * BucketSize
      /\ w.ot = TurnOT(p, t, Turn(t, w.bckt) + 1) /\ w.next = Start(t+1) /\ w.next \in Nat
      /\ w.ot \in Nat
  BY DEF WorkerOK, Early
<1> DEFINE b == w.bckt
           N == NumInitThreads
           B == BucketSize
<1>2. b \in Nat /\ b < NumExe /\ N \in Nat \ {0} /\ B \in Nat \ {0} /\ NumExe \in Nat
  BY <1>1, Sizes DEF Bucket
<1>3. CASE b + N < NumExe
  <2>1. b + N \in Bucket /\ OnTurn(t, b + N) /\ Turn(t, b + N) = Turn(t, b) + 1
    BY <1>1, <1>3, Turning DEF OnTurn
  <2>2. w2.iter = b * B + B + (N - 1) * B
    BY <1>1, <1>3 DEF Skip
  <2> HIDE DEF b, N, B
  <2>3. b * B + B + (N - 1) * B = (b + N) * B
    BY <1>2
  <2>4. (b + N) * B \in 0..B * NumExe
    <3>1. B * (b + N) <= B * NumExe /\ B * (b + N) \in Nat /\ B * NumExe \in Nat
      BY <1>2, <1>3, Times
    <3>2. (b + N) * B = B * (b + N)
      BY <1>2
    <3> QED BY <3>1, <3>2
  <2> QED BY <1>1, <1>2, <1>3, <2>1, <2>2, <2>3, <2>4 DEF WorkerOK, Early, Late, b, N, B
<1>4. CASE ~ b + N < NumExe
  <2>1. Turn(t, b) + 1 = Turns(t) /\ t \in Bucket
    BY <1>1, <1>2, <1>4, Turning
  <2>2. w2.iter = b * B + B
    BY <1>1, <1>2, <1>4 DEF Skip
  <2> HIDE DEF b, N, B
  <2>3. b * B + B \in 0..B * NumExe
    <3>1. B * (b + 1) <= B * NumExe /\ B * (b + 1) \in Nat /\ B * NumExe \in Nat
      BY <1>2, Times
    <3>2. b * B + B = B * (b + 1)
      BY <1>2
    <3> QED BY <3>1, <3>2
  <2> QED BY <1>1, <1>2, <1>4, <2>1, <2>2, <2>3 DEF WorkerOK, Early, Late, b, N, B
<1> QED BY <1>3, <1>4

\* A record after the k-probe step of one bucket.
LEMMA WorkerProbes ==
    ASSUME InitSizes, NEW p \in Party, NEW t \in Thread, NEW w, NEW w2, NEW phase2,
           WorkerOK(p, t, w, "kprobe"),
           w2.next = w.next, w2.ot = w.ot, w2.iter = w.iter,
           w2.bckt = (IF w.bckt + NumInitThreads < NumExe THEN w.bckt + NumInitThreads ELSE t),
           phase2 = IF w.bckt + NumInitThreads < NumExe THEN "kprobe" ELSE "done"
    PROVE  WorkerOK(p, t, w2, phase2)
<1>1. w.bckt \in Bucket /\ OnTurn(t, w.bckt)
  BY DEF WorkerOK
<1>2. t \in Bucket
  BY Turning
<1>3. CASE w.bckt + NumInitThreads < NumExe
  <2>1. w.bckt + NumInitThreads \in Bucket /\ OnTurn(t, w.bckt + NumInitThreads)
    BY <1>1, <1>3, Turning DEF OnTurn
  <2> QED BY <1>3, <2>1 DEF WorkerOK, Early, Late
<1>4. CASE ~ w.bckt + NumInitThreads < NumExe
  BY <1>2, <1>4 DEF WorkerOK, Early, Late
<1> QED BY <1>3, <1>4

-----------------------------------------------------------------------------
(* The marks a thread leaves in the buckets. *)

LEMMA MarksWait ==
    ASSUME InitSizes, NEW p \in Party, NEW t \in Thread, NEW w, NEW w2,
           NEW phase, NEW phase2, WorkerOK(p, t, w, phase), w2.bckt = w.bckt,
           \/ phase2 = phase
           \/ phase = "start" /\ phase2 = "initOT"
           \/ phase = "initOT" /\ phase2 = "open"
           \/ phase = "open" /\ phase2 = "bucket"
           \/ phase = "bucketed" /\ phase2 = "kprobe",
           NEW b \in Bucket, OnTurn(t, b)
    PROVE  /\ Filled(w2, phase2, b) <=> Filled(w, phase, b)
           /\ Delivered(w2, phase2, b) <=> Delivered(w, phase, b)
           /\ Labelled(w2, phase2, b) <=> Labelled(w, phase, b)
<1>1. t \in Bucket /\ OnTurn(t, t)
  BY Turning
<1>2. ~ b < t
  BY <1>1, NextTurn
<1>3. phase \in {"open", "bucketed"} => w.bckt = t
  BY DEF WorkerOK
<1> QED BY <1>2, <1>3 DEF Filled, Delivered, Labelled, Late

\* b is marked as filled when its turn is the thread's.
LEMMA MarkFilled ==
    ASSUME InitSizes, NEW p \in Party, NEW t \in Thread, NEW w, NEW w2,
           WorkerOK(p, t, w, "bucket"), w2.bckt = w.bckt,
           NEW b \in Bucket, OnTurn(t, b)
    PROVE  /\ Filled(w2, "fill", b) <=> Filled(w, "bucket", b) \/ b = w.bckt
           /\ Delivered(w2, "fill", b) <=> Delivered(w, "bucket", b)
           /\ Labelled(w2, "fill", b) <=> Labelled(w, "bucket", b)
<1>1. w.bckt \in Bucket
  BY DEF WorkerOK
<1> QED BY <1>1 DEF Filled, Delivered, Labelled, Late, Bucket

\* Which buckets are marked after the translation step of one bucket.
LEMMA MarkDelivered ==
    ASSUME InitSizes, NEW p \in Party, NEW t \in Thread, NEW w, NEW w2, NEW phase2,
           WorkerOK(p, t, w, "fill"),
           w2.bckt = (IF w.bckt + NumInitThreads < NumExe THEN w.bckt + NumInitThreads ELSE t),
           phase2 = (IF w.bckt + NumInitThreads < NumExe THEN "bucket" ELSE "bucketed"),
           NEW b \in Bucket, OnTurn(t, b)
    PROVE  /\ Filled(w2, phase2, b) <=> Filled(w, "fill", b)
           /\ Delivered(w2, phase2, b) <=> Delivered(w, "fill", b) \/ b = w.bckt
           /\ Labelled(w2, phase2, b) <=> Labelled(w, "fill", b)
<1>1. w.bckt \in Bucket /\ OnTurn(t, w.bckt) /\ w.bckt \in Nat /\ b \in Nat
  BY DEF WorkerOK, Bucket
<1>2. /\ w.bckt + NumInitThreads < NumExe => (b < w.bckt + NumInitThreads <=> b <= w.bckt)
      /\ ~ w.bckt + NumInitThreads < NumExe => b <= w.bckt
  BY <1>1, NextTurn
<1>3. b <= w.bckt <=> b < w.bckt \/ b = w.bckt
  BY <1>1
<1>4. CASE w.bckt + NumInitThreads < NumExe
  BY <1>2, <1>3, <1>4 DEF Filled, Delivered, Labelled, Late
<1>5. CASE ~ w.bckt + NumInitThreads < NumExe
  BY <1>2, <1>3, <1>5 DEF Filled, Delivered, Labelled, Late
<1> QED BY <1>4, <1>5

\* Which buckets are marked after the k-probe step of one bucket.
LEMMA MarkLabelled ==
    ASSUME InitSizes, NEW p \in Party, NEW t \in Thread, NEW w, NEW w2, NEW phase2,
           WorkerOK(p, t, w, "kprobe"),
           w2.bckt = (IF w.bckt + NumInitThreads < NumExe THEN w.bckt + NumInitThreads ELSE t),
           phase2 = (IF w.bckt + NumInitThreads < NumExe THEN "kprobe" ELSE "done"),
           NEW b \in Bucket, OnTurn(t, b)
    PROVE  /\ Filled(w2, phase2, b) <=> Filled(w, "kprobe", b)
           /\ Delivered(w2, phase2, b) <=> Delivered(w, "kprobe", b)
           /\ Labelled(w2, phase2, b) <=> Labelled(w, "kprobe", b) \/ b = w.bckt
<1>1. w.bckt \in Bucket /\ OnTurn(t, w.bckt) /\ w.bckt \in Nat /\ b \in Nat
  BY DEF WorkerOK, Bucket
<1>2. /\ w.bckt + NumInitThreads < NumExe => (b < w.bckt + NumInitThreads <=> b <= w.bckt)
      /\ ~ w.bckt + NumInitThreads < NumExe => b <= w.bckt
  BY <1>1, NextTurn
<1>3. b <= w.bckt <=> b < w.bckt \/ b = w.bckt
  BY <1>1
<1>4. CASE w.bckt + NumInitThreads < NumExe
  BY <1>2, <1>3, <1>4 DEF Filled, Delivered, Labelled, Late
<1>5. CASE ~ w.bckt + NumInitThreads < NumExe
  BY <1>2, <1>3, <1>5 DEF Filled, Delivered, Labelled, Late
<1> QED BY <1>4, <1>5

-----------------------------------------------------------------------------
(* A channel, when its sender or its receiver moves. *)

LEMMA CountTypes ==
    ASSUME InitSizes, NEW p \in Party, NEW t \in Thread, NEW o \in Nat
    PROVE  /\ \A s : WorkerOK(p, t, s, SendPhase(s.pc)) => Sent(t, o, s) \in Int
           /\ \A r : WorkerOK(p, t, r, RecvPhase(r.pc)) => Read(t, o, r) \in Int
<1>1. Size(t) \in Nat /\ Start(t) \in Nat /\ Turns(t) \in Nat
  BY ThreadFacts, Turning
<1>2. \A b \in Bucket : OnTurn(t, b) => Turn(t, b) \in Nat
  BY DEF OnTurn
<1>3. ASSUME NEW s, WorkerOK(p, t, s, SendPhase(s.pc)) PROVE Sent(t, o, s) \in Int
  <2>1. s.next \in Nat /\ s.bckt \in Bucket
    BY <1>3 DEF WorkerOK
  <2>2. s.pc \in {"bucket", "translate", "kprobe"} => OnTurn(t, s.bckt)
    BY <1>3 DEF WorkerOK, SendPhase
  <2> QED BY <2>1, <2>2, <1>1, <1>2 DEF Sent
<1>4. ASSUME NEW r, WorkerOK(p, t, r, RecvPhase(r.pc)) PROVE Read(t, o, r) \in Int
  <2>1. r.next \in Nat /\ r.bckt \in Bucket
    BY <1>4 DEF WorkerOK
  <2>2. r.pc \in {"bucket", "deltas", "kprobe"} => OnTurn(t, r.bckt)
    BY <1>4 DEF WorkerOK, RecvPhase
  <2> QED BY <2>1, <2>2, <1>1, <1>2 DEF Read
<1> QED BY <1>3, <1>4

\* A channel stays right when the sender sends what is expected of it next.
LEMMA WirePut ==
    ASSUME NEW p, NEW t, NEW w, NEW s, NEW s2, NEW r, NEW sel, NEW other, NEW o,
           o = Len(Opened(sel, t)), WireOK(p, t, w, s, r, sel, other),
           NEW msgs \in Seq(Message), Sent(t, o, s) \in Int, Read(t, o, r) \in Int,
           Sent(t, o, s2) = Sent(t, o, s) + Len(msgs),
           \A n \in 1..Len(msgs) : Expected(p, t, sel, other, Sent(t, o, s) + n, msgs[n])
    PROVE  WireOK(p, t, w \o msgs, s2, r, sel, other)
<1> DEFINE v == w \o msgs
           a == Sent(t, o, s)
           b == Read(t, o, r)
<1>1. /\ w \in Seq(Message) /\ Len(w) = a - b
      /\ \A x \in 1..Len(w) : Expected(p, t, sel, other, b + x, w[x])
  BY DEF WireOK
<1>2. /\ v \in Seq(Message) /\ Len(v) = Len(w) + Len(msgs)
      /\ \A x \in 1..Len(w) : v[x] = w[x]
      /\ \A x \in 1..Len(v) : x > Len(w) => x - Len(w) \in 1..Len(msgs) /\ v[x] = msgs[x - Len(w)]
  <2> HIDE DEF a, b
  <2>1. v \in Seq(Message) /\ Len(v) = Len(w) + Len(msgs) /\ Len(w) \in Nat /\ Len(msgs) \in Nat
    <3>1. w \in Seq(Message) /\ msgs \in Seq(Message)
      BY <1>1
    <3> QED BY ONLY <3>1
  <2>2. \A x \in 1..Len(w) + Len(msgs) : v[x] = IF x <= Len(w) THEN w[x] ELSE msgs[x - Len(w)]
    <3>1. w \in Seq(Message) /\ msgs \in Seq(Message)
      BY <1>1
    <3> QED BY ONLY <3>1
  <2> HIDE DEF v
  <2>3. \A x \in 1..Len(w) : v[x] = w[x]
    BY <2>1, <2>2
  <2>4. \A x \in 1..Len(v) : x > Len(w) => x - Len(w) \in 1..Len(msgs) /\ v[x] = msgs[x - Len(w)]
    BY <2>1, <2>2
  <2> QED BY <2>1, <2>3, <2>4
<1> HIDE DEF v, a, b
<1>3. Len(v) = Sent(t, o, s2) - b
  BY <1>1, <1>2 DEF a, b
<1>4. ASSUME NEW x \in 1..Len(v) PROVE Expected(p, t, sel, other, b + x, v[x])
  <2>1. CASE x \in 1..Len(w)
    BY <2>1, <1>1, <1>2
  <2>2. CASE x \notin 1..Len(w)
    <3>1. x - Len(w) \in 1..Len(msgs) /\ v[x] = msgs[x - Len(w)]
      BY <2>2, <1>1, <1>2
    <3>2. b + x = a + (x - Len(w))
      <4>1. Len(w) = a - b /\ a \in Int /\ b \in Int
        BY <1>1 DEF a, b
      <4>2. x \in Int
        BY <1>2
      <4> QED BY ONLY <4>1, <4>2
    <3>3. Expected(p, t, sel, other, a + (x - Len(w)), msgs[x - Len(w)])
      BY <3>1 DEF a
    <3> QED BY <3>1, <3>2, <3>3
  <2> QED BY <2>1, <2>2
<1> QED BY <1>2, <1>3, <1>4 DEF WireOK, v, b

\* A channel stays right when the receiver takes the oldest messages.
LEMMA WireDrop ==
    ASSUME NEW p, NEW t, NEW w, NEW s, NEW r, NEW r2, NEW sel, NEW other, NEW o,
           o = Len(Opened(sel, t)), WireOK(p, t, w, s, r, sel, other),
           NEW n \in Nat, n <= Len(w), Sent(t, o, s) \in Int, Read(t, o, r) \in Int,
           Read(t, o, r2) = Read(t, o, r) + n
    PROVE  WireOK(p, t, SubSeq(w, n+1, Len(w)), s, r2, sel, other)
<1> DEFINE v == SubSeq(w, n+1, Len(w))
           a == Sent(t, o, s)
           b == Read(t, o, r)
<1>1. /\ w \in Seq(Message) /\ Len(w) = a - b
      /\ \A x \in 1..Len(w) : Expected(p, t, sel, other, b + x, w[x])
  BY DEF WireOK
<1>2. /\ v \in Seq(Message) /\ Len(v) = Len(w) - n
      /\ \A x \in 1..Len(v) : n + x \in 1..Len(w) /\ v[x] = w[n + x]
  <2>1. w \in Seq(Message) /\ Len(w) \in Nat
    BY <1>1
  <2>2. v \in Seq(Message)
    BY ONLY <2>1, n \in Nat, n <= Len(w)
  <2>3. Len(v) = Len(w) - n
    BY ONLY <2>1, n \in Nat, n <= Len(w)
  <2>4. \A x \in 1..Len(w) - n : v[x] = w[n + x]
    BY ONLY <2>1, n \in Nat, n <= Len(w)
  <2> HIDE DEF v
  <2>5. \A x \in 1..Len(v) : n + x \in 1..Len(w) /\ v[x] = w[n + x]
    BY ONLY <2>1, <2>3, <2>4, n \in Nat, n <= Len(w)
  <2> QED BY <2>2, <2>3, <2>5
<1> HIDE DEF v, a, b
<1>3. Len(v) = a - Read(t, o, r2)
  BY <1>1, <1>2 DEF a, b
<1>4. ASSUME NEW x \in 1..Len(v) PROVE Expected(p, t, sel, other, Read(t, o, r2) + x, v[x])
  <2>1. Read(t, o, r2) + x = b + (n + x)
    BY <1>1 DEF a, b
  <2> QED BY <2>1, <1>1, <1>2
<1> QED BY <1>2, <1>3, <1>4 DEF WireOK, v, a

\* Nothing is checked in a message that neither opens a circuit nor has labels.
LEMMA Unchecked ==
    ASSUME InitSizes, NEW p, NEW t \in Thread, NEW sel, NEW other, NEW o \in Nat,
           o = Len(Opened(sel, t)), NEW x \in Int, NEW m,
           \/ x <= 2 * Size(t) + 2
           \/ 2 * Size(t) + 2 + o < x /\ x < 2 * Size(t) + o + 6 + Turns(t)
    PROVE  Expected(p, t, sel, other, x, m)
<1>1. Size(t) \in Nat /\ Turns(t) \in Nat
  BY ThreadFacts, Turning
<1>2. \A n \in 1..o : x # 2 * Size(t) + 2 + n
  BY <1>1
<1>3. \A b \in Bucket : OnTurn(t, b) => x # 2 * Size(t) + o + 6 + Turns(t) + Turn(t, b)
  BY <1>1 DEF OnTurn
<1> QED BY <1>2, <1>3 DEF Expected

-----------------------------------------------------------------------------
(* A step of one thread keeps the invariant when it keeps what the invariant  *)
(* says of that thread, its channel and its own circuits and buckets.         *)

LEMMA Ends2 ==
    ASSUME NEW p \in Party
    PROVE  /\ Other(p) \in Party /\ Other(Other(p)) = p /\ Other(p) # p
           /\ InitEnd(p) \in Ends
           /\ \A t \in Thread : RecvEnd(p, t) \in Ends
           /\ \A t, u \in Thread, q, z \in Party :
                /\ RecvEnd(q, t) # InitEnd(z)
                /\ RecvEnd(q, t) = RecvEnd(z, u) => q = z /\ t = u
  BY DEF Party, Other, InitEnd, RecvEnd, Ends

SendKeeps(p, t) ==
    /\ Shape'
    /\ UNCHANGED <<main, seed, theirs, pipe, recv, their, aborted>>
    /\ \A q \in Party, u \in Thread : q # p \/ u # t => send'[q][u] = send[q][u]
    /\ \A q \in Party : q # p => mine'[q] = mine[q] /\ bucket'[q] = bucket[q]
    /\ \A q \in Party, u \in Thread : q # Other(p) \/ u # t =>
            net'[RecvEnd(q, u)] = net[RecvEnd(q, u)]
    /\ WorkerOK(p, t, send'[p][t], SendPhase(send'[p][t].pc))
    /\ PipeOK(p, t, pipe[p][t], send'[p][t], recv[Other(p)][t])
    /\ WireOK(Other(p), t, net'[RecvEnd(Other(p), t)], send'[p][t], recv[Other(p)][t],
              seed[Other(p)], seed[p])
    /\ \A c \in Circuit : MineOK(p, c, mine'[p][c], send'[p][Owner(c)], theirs[p])
    /\ \A b \in Bucket : BucketOK(p, b, bucket'[p][b], send'[p][b % NumInitThreads],
                                  recv[p][b % NumInitThreads], theirs[p], seed[p])
    /\ send[p][t].pc \notin {"unborn", "done"} /\ send'[p][t].pc # "unborn"
    /\ SendPhase(send'[p][t].pc) \notin Early \/ send'[p][t].pc \in {"opened", "proof"}
            => main[p] \in {"join", "online"}

\* The obligations of SendKeeps are all a step of a send thread has to meet.
LEMMA SendStepKeeps ==
    ASSUME InitSizes, Inv, NEW p \in Party, NEW t \in Thread, SendKeeps(p, t)
    PROVE  Inv'
<1>1. Shape' /\ Shape
  BY DEF Inv, SendKeeps
<1>2. UNCHANGED <<main, seed, theirs, pipe, recv, their, aborted>>
  BY DEF SendKeeps
<1>3. Threads'
  <2> SUFFICES ASSUME NEW q \in Party, NEW u \in Thread
               PROVE  /\ WorkerOK(q, u, send'[q][u], SendPhase(send'[q][u].pc))
                      /\ WorkerOK(Other(q), u, recv[q][u], RecvPhase(recv[q][u].pc))
                      /\ PipeOK(q, u, pipe[q][u], send'[q][u], recv[Other(q)][u])
                      /\ WireOK(q, u, net'[RecvEnd(q, u)], send'[Other(q)][u], recv[q][u],
                                seed[q], seed[Other(q)])
    BY <1>2 DEF Threads
  <2>1. /\ WorkerOK(q, u, send[q][u], SendPhase(send[q][u].pc))
        /\ WorkerOK(Other(q), u, recv[q][u], RecvPhase(recv[q][u].pc))
        /\ PipeOK(q, u, pipe[q][u], send[q][u], recv[Other(q)][u])
        /\ WireOK(q, u, net[RecvEnd(q, u)], send[Other(q)][u], recv[q][u],
                  seed[q], seed[Other(q)])
    BY DEF Inv, Threads
  <2>2. Other(q) \in Party /\ Other(Other(q)) = q /\ Other(q) # q
    BY Ends2
  <2>3. CASE u # t
    BY <2>1, <2>2, <2>3 DEF SendKeeps
  <2>4. CASE u = t /\ q = p
    BY <2>1, <2>2, <2>4 DEF SendKeeps
  <2>5. CASE u = t /\ q # p
    <3>1. q = Other(p) /\ Other(q) = p
      BY <2>5 DEF Party, Other
    <3> QED BY <2>1, <2>2, <2>5, <3>1 DEF SendKeeps
  <2> QED BY <2>3, <2>4, <2>5
<1>4. Contents'
  <2> SUFFICES ASSUME NEW q \in Party
               PROVE  /\ \A c \in Circuit :
                            /\ MineOK(q, c, mine'[q][c], send'[q][Owner(c)], theirs[q])
                            /\ TheirOK(q, c, their[q][c], recv[q][Owner(c)], seed[q])
                      /\ \A b \in Bucket :
                            BucketOK(q, b, bucket'[q][b], send'[q][b % NumInitThreads],
                                     recv[q][b % NumInitThreads], theirs[q], seed[q])
    BY <1>2 DEF Contents
  <2>1. CASE q = p
    BY <2>1 DEF Inv, Contents, SendKeeps
  <2>2. CASE q # p
    <3>1. \A c \in Circuit : Owner(c) \in Thread
      BY Owners
    <3>2. \A b \in Bucket : b % NumInitThreads \in Thread
      BY BucketOwner
    <3>3. \A u \in Thread : send'[q][u] = send[q][u]
      BY <2>2 DEF SendKeeps
    <3>4. mine'[q] = mine[q] /\ bucket'[q] = bucket[q]
      BY <2>2 DEF SendKeeps
    <3> QED BY <3>1, <3>2, <3>3, <3>4 DEF Inv, Contents
  <2> QED BY <2>1, <2>2
<1>5. DeltasLate'
  <2> SUFFICES ASSUME NEW q \in Party, NEW b \in Bucket, bucket'[q][b].deltas,
                      NEW n \in 1..BucketSize
               PROVE  LET c == Content(seed[q], b)[n] IN c < recv[q][Owner(c)].next
    BY <1>2 DEF DeltasLate
  <2>1. bucket[q][b].deltas
    <3>1. CASE q = p
      BY <3>1 DEF SendKeeps, BucketOK, Inv, Contents
    <3>2. CASE q # p
      BY <3>2 DEF SendKeeps
    <3> QED BY <3>1, <3>2
  <2> QED BY <2>1 DEF Inv, DeltasLate
<1>6. Mains'
  <2> SUFFICES ASSUME NEW q \in Party
               PROVE  /\ MainOK(q, main[q], send'[q], recv[q], theirs[q], seed[Other(q)])
                      /\ main[q] = "online" => \A z \in Party, u \in Thread : pipe[z][u].ended
    BY <1>2 DEF Mains
  <2>1. /\ MainOK(q, main[q], send[q], recv[q], theirs[q], seed[Other(q)])
        /\ main[q] = "online" => \A z \in Party, u \in Thread : pipe[z][u].ended
    BY DEF Inv, Mains
  <2>2. CASE q = p
    <3>1. /\ send[p][t].pc \notin {"unborn", "done"} /\ send'[p][t].pc # "unborn"
          /\ SendPhase(send'[p][t].pc) \notin Early \/ send'[p][t].pc \in {"opened", "proof"}
                => main[p] \in {"join", "online"}
          /\ \A u \in Thread : u # t => send'[p][u] = send[p][u]
      BY DEF SendKeeps
    <3>2. main[p] \notin {"announce", "params", "online"}
      BY <2>1, <2>2, <3>1 DEF MainOK
    <3> QED BY <2>1, <2>2, <3>1, <3>2 DEF MainOK
  <2>3. CASE q # p
    <3>1. \A u \in Thread : send'[q][u] = send[q][u]
      BY <2>3 DEF SendKeeps
    <3> QED BY <2>1, <3>1 DEF MainOK
  <2> QED BY <2>2, <2>3
<1>7. Sound'
  BY <1>2 DEF Inv, Sound
<1> QED BY <1>1, <1>3, <1>4, <1>5, <1>6, <1>7 DEF Inv

RecvKeeps(p, t) ==
    /\ Shape'
    /\ UNCHANGED <<main, seed, theirs, pipe, send, mine, aborted>>
    /\ \A q \in Party, u \in Thread : q # p \/ u # t => recv'[q][u] = recv[q][u]
    /\ \A q \in Party : q # p => their'[q] = their[q] /\ bucket'[q] = bucket[q]
    /\ \A q \in Party, u \in Thread : q # p \/ u # t => net'[RecvEnd(q, u)] = net[RecvEnd(q, u)]
    /\ WorkerOK(Other(p), t, recv'[p][t], RecvPhase(recv'[p][t].pc))
    /\ PipeOK(Other(p), t, pipe[Other(p)][t], send[Other(p)][t], recv'[p][t])
    /\ WireOK(p, t, net'[RecvEnd(p, t)], send[Other(p)][t], recv'[p][t], seed[p], seed[Other(p)])
    /\ \A c \in Circuit : TheirOK(p, c, their'[p][c], recv'[p][Owner(c)], seed[p])
    /\ \A b \in Bucket : BucketOK(p, b, bucket'[p][b], send[p][b % NumInitThreads],
                                  recv'[p][b % NumInitThreads], theirs[p], seed[p])
    /\ \A b \in Bucket : bucket'[p][b].deltas /\ ~bucket[p][b].deltas =>
            \A n \in 1..BucketSize :
                LET c == Content(seed[p], b)[n] IN c < recv[p][Owner(c)].next
    /\ recv'[p][t].next >= recv[p][t].next
    /\ recv[p][t].next = Start(t+1) => recv'[p][t].next = Start(t+1)
    /\ recv[p][t].pc \notin {"unborn", "done"} /\ recv'[p][t].pc # "unborn"
    /\ Matched => recv'[p][t].pc # "noproof"

\* The obligations of RecvKeeps are all a step of a receive thread has to meet.
LEMMA RecvStepKeeps ==
    ASSUME InitSizes, Inv, NEW p \in Party, NEW t \in Thread, RecvKeeps(p, t)
    PROVE  Inv'
<1>1. Shape' /\ Shape
  BY DEF Inv, RecvKeeps
<1>2. UNCHANGED <<main, seed, theirs, pipe, send, mine, aborted>>
  BY DEF RecvKeeps
<1>3. Threads'
  <2> SUFFICES ASSUME NEW q \in Party, NEW u \in Thread
               PROVE  /\ WorkerOK(q, u, send[q][u], SendPhase(send[q][u].pc))
                      /\ WorkerOK(Other(q), u, recv'[q][u], RecvPhase(recv'[q][u].pc))
                      /\ PipeOK(q, u, pipe[q][u], send[q][u], recv'[Other(q)][u])
                      /\ WireOK(q, u, net'[RecvEnd(q, u)], send[Other(q)][u], recv'[q][u],
                                seed[q], seed[Other(q)])
    BY <1>2 DEF Threads
  <2>1. /\ WorkerOK(q, u, send[q][u], SendPhase(send[q][u].pc))
        /\ WorkerOK(Other(q), u, recv[q][u], RecvPhase(recv[q][u].pc))
        /\ PipeOK(q, u, pipe[q][u], send[q][u], recv[Other(q)][u])
        /\ WireOK(q, u, net[RecvEnd(q, u)], send[Other(q)][u], recv[q][u],
                  seed[q], seed[Other(q)])
    BY DEF Inv, Threads
  <2>2. Other(q) \in Party /\ Other(Other(q)) = q /\ Other(q) # q
    BY Ends2
  <2>3. CASE u # t
    BY <2>1, <2>2, <2>3 DEF RecvKeeps
  <2>4. CASE u = t /\ q = p
    BY <2>1, <2>2, <2>4 DEF RecvKeeps
  <2>5. CASE u = t /\ q # p
    <3>1. q = Other(p) /\ Other(q) = p
      BY <2>5 DEF Party, Other
    <3> QED BY <2>1, <2>2, <2>5, <3>1 DEF RecvKeeps
  <2> QED BY <2>3, <2>4, <2>5
<1>4. \A c \in Circuit : Owner(c) \in Thread
  BY Owners
<1>5. \A q \in Party, u \in Thread : q # p => recv'[q][u] = recv[q][u]
  BY DEF RecvKeeps
<1>6. Contents'
  <2> SUFFICES ASSUME NEW q \in Party
               PROVE  /\ \A c \in Circuit :
                            /\ MineOK(q, c, mine[q][c], send[q][Owner(c)], theirs[q])
                            /\ TheirOK(q, c, their'[q][c], recv'[q][Owner(c)], seed[q])
                      /\ \A b \in Bucket :
                            BucketOK(q, b, bucket'[q][b], send[q][b % NumInitThreads],
                                     recv'[q][b % NumInitThreads], theirs[q], seed[q])
    BY <1>2 DEF Contents
  <2>1. CASE q = p
    BY <2>1 DEF Inv, Contents, RecvKeeps
  <2>2. CASE q # p
    <3>1. \A b \in Bucket : b % NumInitThreads \in Thread
      BY BucketOwner
    <3>2. their'[q] = their[q] /\ bucket'[q] = bucket[q]
      BY <2>2 DEF RecvKeeps
    <3> QED BY <1>4, <1>5, <2>2, <3>1, <3>2 DEF Inv, Contents
  <2> QED BY <2>1, <2>2
<1>7. \A q \in Party, u \in Thread : recv[q][u].next \in Nat /\ recv'[q][u].next \in Nat
  <2>1. recv \in [Party -> [Thread -> Worker0(RecvPc)]]
    BY <1>1 DEF Shape
  <2>2. recv' \in [Party -> [Thread -> Worker0(RecvPc)]]
    BY <1>1 DEF Shape
  <2>3. \A w \in Worker0(RecvPc) : w.next \in Nat
    BY DEF Worker0
  <2> QED BY <2>1, <2>2, <2>3
<1>8. DeltasLate'
  <2> SUFFICES ASSUME NEW q \in Party, NEW b \in Bucket, bucket'[q][b].deltas,
                      NEW n \in 1..BucketSize
               PROVE  LET c == Content(seed[q], b)[n] IN c < recv'[q][Owner(c)].next
    BY <1>2 DEF DeltasLate
  <2> DEFINE c == Content(seed[q], b)[n]
  <2>1. c \in Circuit /\ c \in Nat
    <3>1. seed[q] \in Seeds
      BY <1>1 DEF Shape
    <3>2. Content(seed[q], b) \in [1..BucketSize -> Circuit]
      BY <3>1, ContentFacts
    <3>3. c \in Circuit
      BY <3>2
    <3> HIDE DEF c
    <3> QED BY <3>3 DEF Circuit
  <2>2. c < recv[q][Owner(c)].next
    <3>1. CASE q = p
      <4>1. CASE bucket[q][b].deltas
        BY <4>1 DEF Inv, DeltasLate
      <4>2. CASE ~bucket[q][b].deltas
        BY <3>1, <4>2 DEF RecvKeeps
      <4> QED BY <4>1, <4>2
    <3>2. CASE q # p
      <4>1. bucket[q][b].deltas
        BY <3>2 DEF RecvKeeps
      <4> QED BY <4>1 DEF Inv, DeltasLate
    <3> QED BY <3>1, <3>2
  <2> HIDE DEF c
  <2>3. recv'[q][Owner(c)].next >= recv[q][Owner(c)].next
    <3>1. Owner(c) \in Thread
      BY <2>1, <1>4
    <3>2. CASE q = p /\ Owner(c) = t
      BY <3>2 DEF RecvKeeps
    <3>3. CASE ~(q = p /\ Owner(c) = t)
      <4>1. recv'[q][Owner(c)] = recv[q][Owner(c)]
        BY <3>1, <3>3 DEF RecvKeeps
      <4> QED BY <4>1, <3>1, <1>7
    <3> QED BY <3>2, <3>3
  <2>4. recv[q][Owner(c)].next \in Nat /\ recv'[q][Owner(c)].next \in Nat
    BY <2>1, <1>4, <1>7
  <2>5. c < recv'[q][Owner(c)].next
    BY <2>1, <2>2, <2>3, <2>4
  <2> QED BY <2>5 DEF c
<1>9. Mains'
  <2> SUFFICES ASSUME NEW q \in Party
               PROVE  /\ MainOK(q, main[q], send[q], recv'[q], theirs[q], seed[Other(q)])
                      /\ main[q] = "online" => \A z \in Party, u \in Thread : pipe[z][u].ended
    BY <1>2 DEF Mains
  <2>1. /\ MainOK(q, main[q], send[q], recv[q], theirs[q], seed[Other(q)])
        /\ main[q] = "online" => \A z \in Party, u \in Thread : pipe[z][u].ended
    BY DEF Inv, Mains
  <2>2. CASE q = p
    <3>1. /\ recv[p][t].pc \notin {"unborn", "done"} /\ recv'[p][t].pc # "unborn"
          /\ recv[p][t].next = Start(t+1) => recv'[p][t].next = Start(t+1)
          /\ \A u \in Thread : u # t => recv'[p][u] = recv[p][u]
      BY DEF RecvKeeps
    <3>2. main[p] \notin {"announce", "params", "online"}
      BY <2>1, <2>2, <3>1 DEF MainOK
    <3> QED BY <2>1, <2>2, <3>1, <3>2 DEF MainOK
  <2>3. CASE q # p
    BY <1>5, <2>1, <2>3 DEF MainOK
  <2> QED BY <2>2, <2>3
<1>10. Sound'
  <2> SUFFICES ASSUME Matched
               PROVE  /\ \A q \in Party : ~aborted[q]
                      /\ \A q \in Party, u \in Thread : recv'[q][u].pc # "noproof"
    BY <1>2 DEF Sound, Matched, ParamsMatch
  <2>1. /\ \A q \in Party : ~aborted[q]
        /\ \A q \in Party, u \in Thread : recv[q][u].pc # "noproof"
    BY DEF Inv, Sound
  <2> QED BY <2>1 DEF RecvKeeps
<1> QED BY <1>1, <1>3, <1>6, <1>8, <1>9, <1>10 DEF Inv

\* Only programs whose parameters differ abort.
LEMMA AbortKeeps ==
    ASSUME Inv, NEW p \in Party, Abort(p), ~Matched
    PROVE  Inv'
<1>1. UNCHANGED <<main, pipe, send, recv, seed, theirs, mine, their, bucket, net>>
  BY DEF Abort, threads
<1>2. Shape'
  <2>1. aborted' \in [Party -> BOOLEAN]
    BY DEF Inv, Shape, Abort
  <2> QED BY <1>1, <2>1 DEF Inv, Shape
<1>3. Threads' /\ Contents' /\ DeltasLate' /\ Mains'
  <2>1. Threads'
    BY <1>1 DEF Inv, Threads
  <2>2. Contents'
    BY <1>1 DEF Inv, Contents
  <2>3. DeltasLate'
    BY <1>1 DEF Inv, DeltasLate
  <2>4. Mains'
    BY <1>1 DEF Inv, Mains
  <2> QED BY <2>1, <2>2, <2>3, <2>4
<1>4. Sound'
  BY DEF Sound, Matched, ParamsMatch
<1> QED BY <1>2, <1>3, <1>4 DEF Inv

\* What the invariant says of one thread of each kind, spelled out.
LEMMA AtThread ==
    ASSUME InitSizes, Inv, NEW p \in Party, NEW t \in Thread
    PROVE  /\ Other(p) \in Party /\ Other(Other(p)) = p /\ Other(p) # p
           /\ seed[p] \in Seeds /\ seed[Other(p)] \in Seeds /\ theirs[p] \in Seeds \cup {<<>>}
           /\ send[p][t] \in Worker0(SendPc) /\ recv[p][t] \in Worker0(RecvPc)
           /\ recv[Other(p)][t] \in Worker0(RecvPc) /\ send[Other(p)][t] \in Worker0(SendPc)
           /\ net[RecvEnd(p, t)] \in Seq(Message) /\ net[RecvEnd(Other(p), t)] \in Seq(Message)
           /\ WorkerOK(p, t, send[p][t], SendPhase(send[p][t].pc))
           /\ WorkerOK(Other(p), t, recv[p][t], RecvPhase(recv[p][t].pc))
           /\ WorkerOK(p, t, recv[Other(p)][t], RecvPhase(recv[Other(p)][t].pc))
           /\ WorkerOK(Other(p), t, send[Other(p)][t], SendPhase(send[Other(p)][t].pc))
           /\ PipeOK(p, t, pipe[p][t], send[p][t], recv[Other(p)][t])
           /\ PipeOK(Other(p), t, pipe[Other(p)][t], send[Other(p)][t], recv[p][t])
           /\ WireOK(p, t, net[RecvEnd(p, t)], send[Other(p)][t], recv[p][t],
                     seed[p], seed[Other(p)])
           /\ WireOK(Other(p), t, net[RecvEnd(Other(p), t)], send[p][t], recv[Other(p)][t],
                     seed[Other(p)], seed[p])
           /\ MainOK(p, main[p], send[p], recv[p], theirs[p], seed[Other(p)])
<1>1. Other(p) \in Party /\ Other(Other(p)) = p /\ Other(p) # p
  BY Ends2
<1>2. RecvEnd(p, t) \in Ends /\ RecvEnd(Other(p), t) \in Ends
  BY <1>1, Ends2
<1>3. /\ seed[p] \in Seeds /\ seed[Other(p)] \in Seeds /\ theirs[p] \in Seeds \cup {<<>>}
      /\ send[p][t] \in Worker0(SendPc) /\ recv[p][t] \in Worker0(RecvPc)
      /\ recv[Other(p)][t] \in Worker0(RecvPc) /\ send[Other(p)][t] \in Worker0(SendPc)
  BY <1>1 DEF Inv, Shape
<1>4. net[RecvEnd(p, t)] \in Seq(Message) /\ net[RecvEnd(Other(p), t)] \in Seq(Message)
  BY <1>2 DEF Inv, Shape
<1>5. /\ WorkerOK(p, t, send[p][t], SendPhase(send[p][t].pc))
      /\ WorkerOK(Other(p), t, recv[p][t], RecvPhase(recv[p][t].pc))
      /\ PipeOK(p, t, pipe[p][t], send[p][t], recv[Other(p)][t])
      /\ WireOK(p, t, net[RecvEnd(p, t)], send[Other(p)][t], recv[p][t], seed[p], seed[Other(p)])
  BY DEF Inv, Threads
<1>6. /\ WorkerOK(Other(p), t, send[Other(p)][t], SendPhase(send[Other(p)][t].pc))
      /\ WorkerOK(p, t, recv[Other(p)][t], RecvPhase(recv[Other(p)][t].pc))
      /\ PipeOK(Other(p), t, pipe[Other(p)][t], send[Other(p)][t], recv[p][t])
      /\ WireOK(Other(p), t, net[RecvEnd(Other(p), t)], send[p][t], recv[Other(p)][t],
                seed[Other(p)], seed[p])
  BY <1>1 DEF Inv, Threads
<1>7. MainOK(p, main[p], send[p], recv[p], theirs[p], seed[Other(p)])
  BY DEF Inv, Mains
<1> QED BY <1>1, <1>3, <1>4, <1>5, <1>6, <1>7

\* What is on a channel is what was sent and is not read yet.
LEMMA WireCounts ==
    ASSUME InitSizes, Inv, NEW p \in Party, NEW t \in Thread
    PROVE  LET o == Len(Opened(seed[p], t)) IN
           /\ o \in Nat
           /\ Sent(t, o, send[Other(p)][t]) \in Int /\ Read(t, o, recv[p][t]) \in Int
           /\ Len(net[RecvEnd(p, t)]) = Sent(t, o, send[Other(p)][t]) - Read(t, o, recv[p][t])
           /\ Len(net[RecvEnd(p, t)]) \in Nat
<1> DEFINE o == Len(Opened(seed[p], t))
<1>1. o \in Nat
  BY AtThread, OpenedFacts
<1>2. Sent(t, o, send[Other(p)][t]) \in Int /\ Read(t, o, recv[p][t]) \in Int
  BY <1>1, AtThread, CountTypes
<1>3. WireOK(p, t, net[RecvEnd(p, t)], send[Other(p)][t], recv[p][t], seed[p], seed[Other(p)])
  BY AtThread
<1>4. Len(net[RecvEnd(p, t)]) = Sent(t, o, send[Other(p)][t]) - Read(t, o, recv[p][t])
  BY <1>3 DEF WireOK
<1>5. Len(net[RecvEnd(p, t)]) \in Nat
  BY AtThread
<1> QED BY <1>1, <1>2, <1>4, <1>5

\* A step of send[p][t] to s2 that sends msgs.
LEMMA SendMoves ==
    ASSUME InitSizes, Inv, NEW p \in Party, NEW t \in Thread,
           NEW s2 \in Worker0(SendPc), NEW msgs \in Seq(Message),
           SetSend(p, t, s2),
           \/ Put(RecvEnd(Other(p), t), msgs)
           \/ net' = net /\ msgs = <<>>,
           UNCHANGED <<main, seed, theirs, pipe, recv, their, aborted>>,
           mine' \in [Party -> [Circuit -> [ot : Int, cleared : BOOLEAN]]],
           bucket' \in [Party -> [Bucket -> [mine : Picks, their : Picks, deltas : BOOLEAN,
                                             psiSend : Int, psiRecv : Int, labels : BOOLEAN]]],
           \A q \in Party : q # p => mine'[q] = mine[q] /\ bucket'[q] = bucket[q],
           \A c \in Circuit : c \notin Share(t) => mine'[p][c] = mine[p][c],
           \A c \in Share(t) : MineOK(p, c, mine'[p][c], s2, theirs[p]),
           \A b \in Bucket : ~OnTurn(t, b) => bucket'[p][b] = bucket[p][b],
           \A b \in Bucket : OnTurn(t, b) =>
                BucketOK(p, b, bucket'[p][b], s2, recv[p][t], theirs[p], seed[p]),
           WorkerOK(p, t, s2, SendPhase(s2.pc)),
           pipe[p][t].recv >= (s2.next - Start(t)) * Encoding[p],
           LET o == Len(Opened(seed[Other(p)], t)) IN
                /\ Sent(t, o, s2) = Sent(t, o, send[p][t]) + Len(msgs)
                /\ \A n \in 1..Len(msgs) : Expected(Other(p), t, seed[Other(p)], seed[p],
                                                    Sent(t, o, send[p][t]) + n, msgs[n]),
           send[p][t].pc \notin {"unborn", "done"}, s2.pc # "unborn",
           SendPhase(s2.pc) \notin Early \/ s2.pc \in {"opened", "proof"}
                => main[p] \in {"join", "online"}
    PROVE  Inv'
<1>1. /\ send' \in [Party -> [Thread -> Worker0(SendPc)]] /\ send'[p][t] = s2
      /\ \A q \in Party, u \in Thread : q # p \/ u # t => send'[q][u] = send[q][u]
  <2>1. send \in [Party -> [Thread -> Worker0(SendPc)]]
    BY DEF Inv, Shape
  <2> QED BY ONLY <2>1, SetSend(p, t, s2), p \in Party, t \in Thread, s2 \in Worker0(SendPc)
          DEF SetSend
<1>2. Other(p) \in Party /\ Other(Other(p)) = p
  BY Ends2
<1> DEFINE ch == RecvEnd(Other(p), t)
<1>3. /\ ch \in Ends
      /\ \A q \in Party, u \in Thread : q # Other(p) \/ u # t =>
            RecvEnd(q, u) \in Ends /\ RecvEnd(q, u) # ch
  BY <1>2, Ends2
<1>4. net \in [Ends -> Seq(Message)]
  BY DEF Inv, Shape
<1> DEFINE o == Len(Opened(seed[Other(p)], t))
<1>5. o \in Nat /\ Sent(t, o, send[p][t]) \in Int /\ Read(t, o, recv[Other(p)][t]) \in Int
  BY <1>2, WireCounts
<1>6. WireOK(Other(p), t, net[ch], send[p][t], recv[Other(p)][t], seed[Other(p)], seed[p])
  BY AtThread
<1> DEFINE wire == WireOK(Other(p), t, net'[ch], s2, recv[Other(p)][t], seed[Other(p)], seed[p])
<1> DEFINE Wired ==
        /\ net' \in [Ends -> Seq(Message)] /\ wire
        /\ \A q \in Party, u \in Thread : q # Other(p) \/ u # t =>
              net'[RecvEnd(q, u)] = net[RecvEnd(q, u)]
<1>7. ASSUME Put(ch, msgs) PROVE Wired
  <2>1. /\ net' \in [Ends -> Seq(Message)] /\ net'[ch] = net[ch] \o msgs
        /\ \A e \in Ends : e # ch => net'[e] = net[e]
    <3> HIDE DEF ch
    <3>1. ch \in Ends
      BY <1>3
    <3>2. net[ch] \o msgs \in Seq(Message)
      <4>1. net[ch] \in Seq(Message)
        BY <1>4, <3>1
      <4> QED BY <4>1
    <3> QED BY <1>4, <1>7, <3>1, <3>2 DEF Put
  <2>2. WireOK(Other(p), t, net[ch] \o msgs, s2, recv[Other(p)][t], seed[Other(p)], seed[p])
    <3> HIDE DEF ch, o
    <3>1. o = Len(Opened(seed[Other(p)], t))
      BY DEF o
    <3>2. /\ Sent(t, o, s2) = Sent(t, o, send[p][t]) + Len(msgs)
          /\ \A n \in 1..Len(msgs) : Expected(Other(p), t, seed[Other(p)], seed[p],
                                              Sent(t, o, send[p][t]) + n, msgs[n])
      BY <3>1
    <3> QED BY <1>5, <1>6, <3>1, <3>2, WirePut
  <2> QED BY <2>1, <2>2, <1>3
<1>8. ASSUME net' = net, msgs = <<>> PROVE Wired
  <2>1. wire
    <3>1. Sent(t, o, s2) = Sent(t, o, send[p][t])
      <4>1. Len(msgs) = 0
        BY <1>8
      <4>2. Sent(t, o, s2) = Sent(t, o, send[p][t]) + Len(msgs)
        OBVIOUS
      <4> HIDE DEF o
      <4> QED BY <4>1, <4>2, <1>5
    <3> QED BY <3>1, <1>6, <1>8 DEF WireOK
  <2> QED BY <2>1, <1>4, <1>8
<1>9. Wired
  <2> HIDE DEF Wired
  <2> QED BY <1>7, <1>8
<1>10. Shape'
  BY <1>1, <1>9 DEF Inv, Shape
<1>11. \A c \in Circuit : MineOK(p, c, mine'[p][c], send'[p][Owner(c)], theirs[p])
  <2> SUFFICES ASSUME NEW c \in Circuit
               PROVE  MineOK(p, c, mine'[p][c], send'[p][Owner(c)], theirs[p])
    OBVIOUS
  <2>1. Owner(c) \in Thread /\ (c \in Share(t) <=> Owner(c) = t)
    BY Owners
  <2>2. CASE Owner(c) = t
    BY <2>1, <2>2, <1>1
  <2>3. CASE Owner(c) # t
    <3>1. mine'[p][c] = mine[p][c] /\ send'[p][Owner(c)] = send[p][Owner(c)]
      BY <2>1, <2>3, <1>1
    <3>2. MineOK(p, c, mine[p][c], send[p][Owner(c)], theirs[p])
      BY DEF Inv, Contents
    <3> QED BY <3>1, <3>2
  <2> QED BY <2>2, <2>3
<1>12. \A b \in Bucket : BucketOK(p, b, bucket'[p][b], send'[p][b % NumInitThreads],
                                  recv[p][b % NumInitThreads], theirs[p], seed[p])
  <2> SUFFICES ASSUME NEW b \in Bucket
               PROVE  BucketOK(p, b, bucket'[p][b], send'[p][b % NumInitThreads],
                               recv[p][b % NumInitThreads], theirs[p], seed[p])
    OBVIOUS
  <2> DEFINE u == b % NumInitThreads
  <2>1. u \in Thread /\ (OnTurn(t, b) <=> u = t)
    BY BucketOwner
  <2>2. BucketOK(p, b, bucket[p][b], send[p][u], recv[p][u], theirs[p], seed[p])
    BY DEF Inv, Contents
  <2> HIDE DEF u
  <2>3. BucketOK(p, b, bucket'[p][b], send'[p][u], recv[p][u], theirs[p], seed[p])
    <3>1. CASE u = t
      BY <2>1, <3>1, <1>1
    <3>2. CASE u # t
      <4>1. bucket'[p][b] = bucket[p][b] /\ send'[p][u] = send[p][u]
        BY <2>1, <3>2, <1>1
      <4> QED BY <4>1, <2>2
    <3> QED BY <3>1, <3>2
  <2> QED BY <2>3 DEF u
<1>13. PipeOK(p, t, pipe[p][t], s2, recv[Other(p)][t])
  BY AtThread DEF PipeOK
<1>14. SendKeeps(p, t)
  BY <1>1, <1>9, <1>10, <1>11, <1>12, <1>13 DEF SendKeeps
<1> QED BY <1>14, SendStepKeeps

\* A step of recv[p][t] to r2 that reads n messages.
LEMMA RecvMoves ==
    ASSUME InitSizes, Inv, NEW p \in Party, NEW t \in Thread,
           NEW r2 \in Worker0(RecvPc), NEW n \in Nat, n <= Len(net[RecvEnd(p, t)]),
           SetRecv(p, t, r2),
           \/ Drop(RecvEnd(p, t), n)
           \/ net' = net /\ n = 0,
           UNCHANGED <<main, seed, theirs, pipe, send, mine, aborted>>,
           their' \in [Party -> [Circuit -> [received : BOOLEAN, ot : Int, checked : BOOLEAN]]],
           bucket' \in [Party -> [Bucket -> [mine : Picks, their : Picks, deltas : BOOLEAN,
                                             psiSend : Int, psiRecv : Int, labels : BOOLEAN]]],
           \A q \in Party : q # p => their'[q] = their[q] /\ bucket'[q] = bucket[q],
           \A c \in Circuit : c \notin Share(t) => their'[p][c] = their[p][c],
           \A c \in Share(t) : TheirOK(p, c, their'[p][c], r2, seed[p]),
           \A b \in Bucket : ~OnTurn(t, b) => bucket'[p][b] = bucket[p][b],
           \A b \in Bucket : OnTurn(t, b) =>
                BucketOK(p, b, bucket'[p][b], send[p][t], r2, theirs[p], seed[p]),
           \A b \in Bucket : bucket'[p][b].deltas /\ ~bucket[p][b].deltas =>
                \A m \in 1..BucketSize :
                    LET c == Content(seed[p], b)[m] IN c < recv[p][Owner(c)].next,
           WorkerOK(Other(p), t, r2, RecvPhase(r2.pc)),
           Encoding[0] = Encoding[1] =>
                pipe[Other(p)][t].send >= (r2.next - Start(t)) * Encoding[Other(p)],
           LET o == Len(Opened(seed[p], t)) IN Read(t, o, r2) = Read(t, o, recv[p][t]) + n,
           r2.next >= recv[p][t].next,
           recv[p][t].next = Start(t+1) => r2.next = Start(t+1),
           recv[p][t].pc \notin {"unborn", "done"}, r2.pc # "unborn",
           Matched => r2.pc # "noproof"
    PROVE  Inv'
<1>1. /\ recv' \in [Party -> [Thread -> Worker0(RecvPc)]] /\ recv'[p][t] = r2
      /\ \A q \in Party, u \in Thread : q # p \/ u # t => recv'[q][u] = recv[q][u]
  <2>1. recv \in [Party -> [Thread -> Worker0(RecvPc)]]
    BY DEF Inv, Shape
  <2> QED BY ONLY <2>1, SetRecv(p, t, r2), p \in Party, t \in Thread, r2 \in Worker0(RecvPc)
          DEF SetRecv
<1> DEFINE ch == RecvEnd(p, t)
<1>2. /\ ch \in Ends
      /\ \A q \in Party, u \in Thread : q # p \/ u # t =>
            RecvEnd(q, u) \in Ends /\ RecvEnd(q, u) # ch
  BY Ends2
<1>3. net \in [Ends -> Seq(Message)]
  BY DEF Inv, Shape
<1> DEFINE o == Len(Opened(seed[p], t))
<1>4. /\ o \in Nat /\ Sent(t, o, send[Other(p)][t]) \in Int /\ Read(t, o, recv[p][t]) \in Int
      /\ Read(t, o, r2) = Read(t, o, recv[p][t]) + n
  BY WireCounts
<1>5. WireOK(p, t, net[ch], send[Other(p)][t], recv[p][t], seed[p], seed[Other(p)])
  BY AtThread
<1> DEFINE wire == WireOK(p, t, net'[ch], send[Other(p)][t], r2, seed[p], seed[Other(p)])
           Wired ==
        /\ net' \in [Ends -> Seq(Message)] /\ wire
        /\ \A q \in Party, u \in Thread : q # p \/ u # t => net'[RecvEnd(q, u)] = net[RecvEnd(q, u)]
<1>6. ASSUME Drop(ch, n) PROVE Wired
  <2> DEFINE w == SubSeq(net[ch], n+1, Len(net[ch]))
  <2>1. WireOK(p, t, w, send[Other(p)][t], r2, seed[p], seed[Other(p)])
    <3> HIDE DEF ch, o
    <3>1. o = Len(Opened(seed[p], t)) /\ n <= Len(net[ch])
      BY DEF o, ch
    <3> QED BY <1>4, <1>5, <3>1, WireDrop
  <2>2. w \in Seq(Message)
    <3> HIDE DEF w
    <3> QED BY <2>1 DEF WireOK
  <2>3. /\ net' \in [Ends -> Seq(Message)] /\ net'[ch] = w
        /\ \A e \in Ends : e # ch => net'[e] = net[e]
    <3> HIDE DEF ch
    <3> QED BY <1>2, <1>3, <1>6, <2>2 DEF Drop
  <2> HIDE DEF w
  <2> QED BY <2>1, <2>3, <1>2
<1>7. ASSUME net' = net, n = 0 PROVE Wired
  <2>1. wire
    <3>1. Read(t, o, r2) = Read(t, o, recv[p][t])
      <4> HIDE DEF o
      <4> QED BY <1>4, <1>7
    <3> QED BY <3>1, <1>5, <1>7 DEF WireOK
  <2> QED BY <2>1, <1>3, <1>7
<1>8. Wired
  <2> HIDE DEF Wired
  <2> QED BY <1>6, <1>7
<1>9. Shape'
  BY <1>1, <1>8 DEF Inv, Shape
<1>10. \A c \in Circuit : TheirOK(p, c, their'[p][c], recv'[p][Owner(c)], seed[p])
  <2> SUFFICES ASSUME NEW c \in Circuit
               PROVE  TheirOK(p, c, their'[p][c], recv'[p][Owner(c)], seed[p])
    OBVIOUS
  <2>1. Owner(c) \in Thread /\ (c \in Share(t) <=> Owner(c) = t)
    BY Owners
  <2>2. CASE Owner(c) = t
    BY <2>1, <2>2, <1>1
  <2>3. CASE Owner(c) # t
    <3>1. their'[p][c] = their[p][c] /\ recv'[p][Owner(c)] = recv[p][Owner(c)]
      BY <2>1, <2>3, <1>1
    <3>2. TheirOK(p, c, their[p][c], recv[p][Owner(c)], seed[p])
      BY DEF Inv, Contents
    <3> QED BY <3>1, <3>2
  <2> QED BY <2>2, <2>3
<1>11. \A b \in Bucket : BucketOK(p, b, bucket'[p][b], send[p][b % NumInitThreads],
                                  recv'[p][b % NumInitThreads], theirs[p], seed[p])
  <2> SUFFICES ASSUME NEW b \in Bucket
               PROVE  BucketOK(p, b, bucket'[p][b], send[p][b % NumInitThreads],
                               recv'[p][b % NumInitThreads], theirs[p], seed[p])
    OBVIOUS
  <2> DEFINE u == b % NumInitThreads
  <2>1. u \in Thread /\ (OnTurn(t, b) <=> u = t)
    BY BucketOwner
  <2>2. BucketOK(p, b, bucket[p][b], send[p][u], recv[p][u], theirs[p], seed[p])
    BY DEF Inv, Contents
  <2> HIDE DEF u
  <2>3. BucketOK(p, b, bucket'[p][b], send[p][u], recv'[p][u], theirs[p], seed[p])
    <3>1. CASE u = t
      BY <2>1, <3>1, <1>1
    <3>2. CASE u # t
      <4>1. bucket'[p][b] = bucket[p][b] /\ recv'[p][u] = recv[p][u]
        BY <2>1, <3>2, <1>1
      <4> QED BY <4>1, <2>2
    <3> QED BY <3>1, <3>2
  <2> QED BY <2>3 DEF u
<1>12. PipeOK(Other(p), t, pipe[Other(p)][t], send[Other(p)][t], r2)
  BY AtThread DEF PipeOK
<1>13. RecvKeeps(p, t)
  BY <1>1, <1>8, <1>9, <1>10, <1>11, <1>12 DEF RecvKeeps
<1> QED BY <1>13, RecvStepKeeps

\* Steps that take no OTs and leave no mark.
LEMMA SendMarks ==
    ASSUME InitSizes, Inv, NEW p \in Party, NEW t \in Thread, NEW s2,
           s2.bckt = send[p][t].bckt,
           LET phase == SendPhase(send[p][t].pc)  phase2 == SendPhase(s2.pc) IN
           \/ phase2 = phase
           \/ phase = "start" /\ phase2 = "initOT"
           \/ phase = "initOT" /\ phase2 = "open"
           \/ phase = "open" /\ phase2 = "bucket"
           \/ phase = "bucketed" /\ phase2 = "kprobe"
    PROVE  \A b \in Bucket : OnTurn(t, b) =>
                BucketOK(p, b, bucket[p][b], s2, recv[p][t], theirs[p], seed[p])
<1> SUFFICES ASSUME NEW b \in Bucket, OnTurn(t, b)
             PROVE  BucketOK(p, b, bucket[p][b], s2, recv[p][t], theirs[p], seed[p])
  OBVIOUS
<1>1. b % NumInitThreads = t
  BY BucketOwner
<1>2. BucketOK(p, b, bucket[p][b], send[p][t], recv[p][t], theirs[p], seed[p])
  BY <1>1 DEF Inv, Contents
<1> DEFINE s == send[p][t]
           phase == SendPhase(s.pc)
           phase2 == SendPhase(s2.pc)
<1>3. WorkerOK(p, t, s, phase)
  BY AtThread
<1> HIDE DEF s, phase, phase2
<1>4. /\ s2.bckt = s.bckt
      /\ \/ phase2 = phase
         \/ phase = "start" /\ phase2 = "initOT"
         \/ phase = "initOT" /\ phase2 = "open"
         \/ phase = "open" /\ phase2 = "bucket"
         \/ phase = "bucketed" /\ phase2 = "kprobe"
  BY DEF s, phase, phase2
<1>5. /\ Filled(s2, phase2, b) <=> Filled(s, phase, b)
      /\ Delivered(s2, phase2, b) <=> Delivered(s, phase, b)
      /\ Labelled(s2, phase2, b) <=> Labelled(s, phase, b)
  BY <1>3, <1>4, MarksWait
<1> QED BY <1>2, <1>5 DEF BucketOK, s, phase, phase2

\* A receive thread's move that marks no bucket.
LEMMA RecvMarks ==
    ASSUME InitSizes, Inv, NEW p \in Party, NEW t \in Thread, NEW r2,
           r2.bckt = recv[p][t].bckt,
           LET phase == RecvPhase(recv[p][t].pc)  phase2 == RecvPhase(r2.pc) IN
           \/ phase2 = phase
           \/ phase = "start" /\ phase2 = "initOT"
           \/ phase = "initOT" /\ phase2 = "open"
           \/ phase = "open" /\ phase2 = "bucket"
           \/ phase = "bucketed" /\ phase2 = "kprobe"
    PROVE  \A b \in Bucket : OnTurn(t, b) =>
                BucketOK(p, b, bucket[p][b], send[p][t], r2, theirs[p], seed[p])
<1> SUFFICES ASSUME NEW b \in Bucket, OnTurn(t, b)
             PROVE  BucketOK(p, b, bucket[p][b], send[p][t], r2, theirs[p], seed[p])
  OBVIOUS
<1>1. b % NumInitThreads = t
  BY BucketOwner
<1>2. BucketOK(p, b, bucket[p][b], send[p][t], recv[p][t], theirs[p], seed[p])
  BY <1>1 DEF Inv, Contents
<1> DEFINE r == recv[p][t]
           phase == RecvPhase(r.pc)
           phase2 == RecvPhase(r2.pc)
<1>3. Other(p) \in Party /\ WorkerOK(Other(p), t, r, phase)
  BY AtThread
<1> HIDE DEF r, phase, phase2
<1>4. /\ r2.bckt = r.bckt
      /\ \/ phase2 = phase
         \/ phase = "start" /\ phase2 = "initOT"
         \/ phase = "initOT" /\ phase2 = "open"
         \/ phase = "open" /\ phase2 = "bucket"
         \/ phase = "bucketed" /\ phase2 = "kprobe"
  BY DEF r, phase, phase2
<1>5. /\ Filled(r2, phase2, b) <=> Filled(r, phase, b)
      /\ Delivered(r2, phase2, b) <=> Delivered(r, phase, b)
      /\ Labelled(r2, phase2, b) <=> Labelled(r, phase, b)
  BY <1>3, <1>4, MarksWait
<1> QED BY <1>2, <1>5 DEF BucketOK, r, phase, phase2

\* The own circuits stay right while the send thread's counter stands.
LEMMA SameMine ==
    ASSUME InitSizes, Inv, NEW p \in Party, NEW t \in Thread, NEW s2, s2.next = send[p][t].next
    PROVE  \A c \in Share(t) : MineOK(p, c, mine[p][c], s2, theirs[p])
<1> SUFFICES ASSUME NEW c \in Share(t) PROVE MineOK(p, c, mine[p][c], s2, theirs[p])
  OBVIOUS
<1>1. c \in Circuit /\ Owner(c) = t
  BY Owners
<1>2. MineOK(p, c, mine[p][c], send[p][t], theirs[p])
  BY <1>1 DEF Inv, Contents
<1> QED BY <1>2 DEF MineOK

\* The peer's circuits stay right while the receive thread's counter stands.
LEMMA SameTheir ==
    ASSUME InitSizes, Inv, NEW p \in Party, NEW t \in Thread, NEW r2, r2.next = recv[p][t].next,
           recv[p][t].pc \notin {"unborn", "circuits"} /\ r2.pc \notin {"unborn", "circuits"},
           RecvPhase(r2.pc) \notin Early => RecvPhase(recv[p][t].pc) \notin Early
    PROVE  \A c \in Share(t) : TheirOK(p, c, their[p][c], r2, seed[p])
<1> SUFFICES ASSUME NEW c \in Share(t) PROVE TheirOK(p, c, their[p][c], r2, seed[p])
  OBVIOUS
<1>1. c \in Circuit /\ Owner(c) = t
  BY Owners
<1>2. TheirOK(p, c, their[p][c], recv[p][t], seed[p])
  BY <1>1 DEF Inv, Contents
<1> QED BY <1>2 DEF TheirOK

\* The types of the three arrays.
LEMMA DataShape ==
    ASSUME Inv
    PROVE  /\ mine \in [Party -> [Circuit -> [ot : Int, cleared : BOOLEAN]]]
           /\ their \in [Party -> [Circuit -> [received : BOOLEAN, ot : Int, checked : BOOLEAN]]]
           /\ bucket \in [Party -> [Bucket -> [mine : Picks, their : Picks, deltas : BOOLEAN,
                                               psiSend : Int, psiRecv : Int, labels : BOOLEAN]]]
  BY DEF Inv, Shape

\* A send thread's step that changes nothing but its position.
LEMMA SendGoesOn ==
    ASSUME InitSizes, Inv, NEW p \in Party, NEW t \in Thread,
           NEW pc \in SendPc, NEW msgs \in Seq(Message),
           SetSend(p, t, [send[p][t] EXCEPT !.pc = pc]),
           \/ Put(RecvEnd(Other(p), t), msgs)
           \/ net' = net /\ msgs = <<>>,
           UNCHANGED <<main, seed, theirs, pipe, recv, mine, their, bucket, aborted>>,
           LET phase == SendPhase(send[p][t].pc)  phase2 == SendPhase(pc) IN
           \/ phase2 = phase
           \/ phase = "start" /\ phase2 = "initOT"
           \/ phase = "open" /\ phase2 = "bucket"
           \/ phase = "bucketed" /\ phase2 = "kprobe",
           \A o \in Nat : o = Len(Opened(seed[Other(p)], t)) =>
                /\ Sent(t, o, [send[p][t] EXCEPT !.pc = pc]) = Sent(t, o, send[p][t]) + Len(msgs)
                /\ \A n \in 1..Len(msgs) : Expected(Other(p), t, seed[Other(p)], seed[p],
                                                    Sent(t, o, send[p][t]) + n, msgs[n]),
           send[p][t].pc \notin {"unborn", "done"}, pc # "unborn",
           SendPhase(pc) \notin Early \/ pc \in {"opened", "proof"}
                => main[p] \in {"join", "online"}
    PROVE  Inv'
<1> DEFINE s == send[p][t]
           s2 == [s EXCEPT !.pc = pc]
<1>1. s \in Worker0(SendPc) /\ WorkerOK(p, t, s, SendPhase(s.pc))
      /\ PipeOK(p, t, pipe[p][t], s, recv[Other(p)][t])
  BY AtThread
<1>2. s2 \in Worker0(SendPc) /\ s2.pc = pc /\ SameWork(s, s2)
  BY <1>1 DEF Worker0, SameWork
<1> HIDE DEF s2
<1>3. WorkerOK(p, t, s2, SendPhase(s2.pc))
  BY <1>1, <1>2, WorkerWaits
<1>4. \A b \in Bucket : OnTurn(t, b) =>
        BucketOK(p, b, bucket[p][b], s2, recv[p][t], theirs[p], seed[p])
  BY <1>2, SendMarks DEF SameWork
<1>5. \A c \in Share(t) : MineOK(p, c, mine[p][c], s2, theirs[p])
  BY <1>2, SameMine DEF SameWork
<1>6. pipe[p][t].recv >= (s2.next - Start(t)) * Encoding[p]
  BY <1>1, <1>2 DEF PipeOK, SameWork
<1>7. LET o == Len(Opened(seed[Other(p)], t)) IN
                /\ Sent(t, o, s2) = Sent(t, o, send[p][t]) + Len(msgs)
                /\ \A n \in 1..Len(msgs) : Expected(Other(p), t, seed[Other(p)], seed[p],
                                                    Sent(t, o, send[p][t]) + n, msgs[n])
  <2>1. Len(Opened(seed[Other(p)], t)) \in Nat
    BY AtThread, WireCounts
  <2> QED BY <2>1 DEF s2
<1>8. SetSend(p, t, s2)
  BY DEF s2
<1>9. mine' = mine /\ bucket' = bucket
  OBVIOUS
<1>10. s2.pc # "unborn"
       /\ (SendPhase(s2.pc) \notin Early \/ s2.pc \in {"opened", "proof"}
                => main[p] \in {"join", "online"})
  BY <1>2
<1>11. /\ mine' \in [Party -> [Circuit -> [ot : Int, cleared : BOOLEAN]]]
       /\ bucket' \in [Party -> [Bucket -> [mine : Picks, their : Picks, deltas : BOOLEAN,
                                            psiSend : Int, psiRecv : Int, labels : BOOLEAN]]]
  BY <1>9, DataShape
<1>12. UNCHANGED <<main, seed, theirs, pipe, recv, their, aborted>>
  OBVIOUS
<1> HIDE DEF s
<1> QED BY <1>2, <1>3, <1>4, <1>5, <1>6, <1>7, <1>8, <1>9, <1>10, <1>11, <1>12, SendMoves

\* A receive thread's step that takes messages and fills in circuits.
LEMMA RecvGoesOn ==
    ASSUME InitSizes, Inv, NEW p \in Party, NEW t \in Thread,
           NEW pc \in RecvPc, NEW n \in Nat, n <= Len(net[RecvEnd(p, t)]),
           SetRecv(p, t, [recv[p][t] EXCEPT !.pc = pc]),
           Drop(RecvEnd(p, t), n),
           UNCHANGED <<main, seed, theirs, pipe, send, mine, aborted>>,
           bucket' = bucket,
           their' \in [Party -> [Circuit -> [received : BOOLEAN, ot : Int, checked : BOOLEAN]]],
           \A q \in Party : q # p => their'[q] = their[q],
           \A c \in Circuit : c \notin Share(t) => their'[p][c] = their[p][c],
           \A c \in Share(t) : TheirOK(p, c, their'[p][c], [recv[p][t] EXCEPT !.pc = pc], seed[p]),
           LET phase == RecvPhase(recv[p][t].pc)  phase2 == RecvPhase(pc) IN
           \/ phase2 = phase
           \/ phase = "start" /\ phase2 = "initOT"
           \/ phase = "open" /\ phase2 = "bucket"
           \/ phase = "bucketed" /\ phase2 = "kprobe",
           \A o \in Nat : o = Len(Opened(seed[p], t)) =>
                Read(t, o, [recv[p][t] EXCEPT !.pc = pc]) = Read(t, o, recv[p][t]) + n,
           recv[p][t].pc \notin {"unborn", "done"}, pc # "unborn",
           Matched => pc # "noproof"
    PROVE  Inv'
<1> DEFINE r == recv[p][t]
           r2 == [r EXCEPT !.pc = pc]
<1>1. r \in Worker0(RecvPc) /\ WorkerOK(Other(p), t, r, RecvPhase(r.pc))
      /\ PipeOK(Other(p), t, pipe[Other(p)][t], send[Other(p)][t], r) /\ Other(p) \in Party
  BY AtThread
<1>2. r2 \in Worker0(RecvPc) /\ r2.pc = pc /\ SameWork(r, r2)
  BY <1>1 DEF Worker0, SameWork
<1> HIDE DEF r2
<1>3. WorkerOK(Other(p), t, r2, RecvPhase(r2.pc))
  BY <1>1, <1>2, WorkerWaits
<1>4. \A b \in Bucket : OnTurn(t, b) =>
        BucketOK(p, b, bucket[p][b], send[p][t], r2, theirs[p], seed[p])
  BY <1>2, RecvMarks DEF SameWork
<1>5. \A c \in Share(t) : TheirOK(p, c, their'[p][c], r2, seed[p])
  BY DEF r2
<1>6. Encoding[0] = Encoding[1] =>
        pipe[Other(p)][t].send >= (r2.next - Start(t)) * Encoding[Other(p)]
  BY <1>1, <1>2 DEF PipeOK, SameWork
<1>7. LET o == Len(Opened(seed[p], t)) IN Read(t, o, r2) = Read(t, o, recv[p][t]) + n
  <2>1. Len(Opened(seed[p], t)) \in Nat
    BY WireCounts
  <2> QED BY <2>1 DEF r2
<1>8. SetRecv(p, t, r2)
  BY DEF r2
<1>9. bucket' \in [Party -> [Bucket -> [mine : Picks, their : Picks, deltas : BOOLEAN,
                                        psiSend : Int, psiRecv : Int, labels : BOOLEAN]]]
  BY DataShape
<1>10. r2.pc # "unborn" /\ (Matched => r2.pc # "noproof") /\ r2.next = recv[p][t].next
       /\ recv[p][t].next \in Nat
  BY <1>1, <1>2 DEF SameWork, Worker0
<1>11. r2.next >= recv[p][t].next /\ (recv[p][t].next = Start(t+1) => r2.next = Start(t+1))
  BY <1>10
<1> HIDE DEF r
<1> QED BY <1>2, <1>3, <1>4, <1>5, <1>6, <1>7, <1>8, <1>9, <1>10, <1>11, RecvMoves

-----------------------------------------------------------------------------
(* The steps of a send thread. *)

LEMMA OneMessage ==
    ASSUME NEW kind \in Kinds, NEW cirs \in Seq(Int), NEW ots \in Seq(Int)
    PROVE  /\ Msg(kind, cirs, ots) \in Message
           /\ <<Msg(kind, cirs, ots)>> \in Seq(Message)
           /\ Len(<<Msg(kind, cirs, ots)>>) = 1
           /\ <<Msg(kind, cirs, ots)>>[1] = Msg(kind, cirs, ots)
<1> DEFINE m == Msg(kind, cirs, ots)
<1>1. m \in Message
  BY DEF Msg, Message
<1> HIDE DEF m
<1>2. <<m>> \in Seq(Message) /\ Len(<<m>>) = 1 /\ <<m>>[1] = m
  BY <1>1
<1> QED BY <1>1, <1>2 DEF m

\* The message that carries nothing.
LEMMA Dummies == /\ Dummy \in Message /\ <<Dummy>> \in Seq(Message) /\ Len(<<Dummy>>) = 1
                 /\ <<Dummy>>[1] = Dummy
<1>1. <<>> \in Seq(Int) /\ "dummy" \in Kinds
  BY DEF Kinds
<1> QED BY <1>1, OneMessage DEF Dummy

\* Appending keeps the first messages.
LEMMA Concatenated ==
    ASSUME NEW M, NEW a \in Seq(M), NEW b \in Seq(M)
    PROVE  /\ a \o b \in Seq(M) /\ Len(a \o b) = Len(a) + Len(b)
           /\ \A n \in 1..Len(a) : (a \o b)[n] = a[n]
<1>1. a \o b \in Seq(M) /\ Len(a \o b) = Len(a) + Len(b)
  OBVIOUS
<1>2. \A n \in 1..Len(a) : (a \o b)[n] = a[n]
  OBVIOUS
<1> QED BY <1>1, <1>2

\* A circuit's record when it is cleared, or not.
LEMMA Clearing ==
    ASSUME NEW m \in [ot : Int, cleared : BOOLEAN], NEW h \in BOOLEAN
    PROVE  LET v == [m EXCEPT !.cleared = @ \/ h] IN
           /\ v \in [ot : Int, cleared : BOOLEAN] /\ v.ot = m.ot
           /\ v.cleared <=> m.cleared \/ h
           /\ ~h => v = m
<1> DEFINE v == [m EXCEPT !.cleared = @ \/ h]
<1>1. v \in [ot : Int, cleared : BOOLEAN] /\ v.ot = m.ot
  OBVIOUS
<1>2. v.cleared <=> m.cleared \/ h
  OBVIOUS
<1>3. ~h => v = m
  OBVIOUS
<1> QED BY <1>1, <1>2, <1>3

\* The number of circuits in a thread's share.
LEMMA ShareSize ==
    ASSUME InitSizes, NEW t \in Thread
    PROVE  Cardinality(Share(t)) = Size(t)
<1>1. Start(t) \in Int /\ Start(t+1) - 1 \in Int /\ Start(t+1) = Start(t) + Size(t)
      /\ Size(t) \in Nat \ {0}
  BY ThreadFacts
<1> QED BY <1>1, FS_Interval DEF Share

\* The garbled circuits of the range are sent.
LEMMA SendCircuitsKeeps ==
    ASSUME InitSizes, Inv, NEW p \in Party, NEW t \in Thread, SendCircuits(p, t)
    PROVE  Inv'
<1> DEFINE k == Size(t)
           one == [n \in 1..k |-> Msg("circuit", <<Start(t) + n - 1>>, <<>>)]
           msgs == one \o <<Dummy>>
           s == send[p][t]
<1>1. k \in Nat /\ Start(t) \in Nat
  BY ThreadFacts
<1>2. one \in Seq(Message) /\ Len(one) = k
  <2>1. \A n \in 1..k : Msg("circuit", <<Start(t) + n - 1>>, <<>>) \in Message
    <3> SUFFICES ASSUME NEW n \in 1..k
                 PROVE  Msg("circuit", <<Start(t) + n - 1>>, <<>>) \in Message
      OBVIOUS
    <3>1. "circuit" \in Kinds /\ <<Start(t) + n - 1>> \in Seq(Int) /\ <<>> \in Seq(Int)
      BY <1>1 DEF Kinds
    <3> QED BY <3>1, OneMessage
  <2>2. one \in [1..k -> Message]
    BY <2>1
  <2> HIDE DEF one
  <2> QED BY <2>2, <1>1
<1> HIDE DEF one
<1>3. msgs \in Seq(Message) /\ Len(msgs) = k + 1
  BY <1>2, Dummies
<1>4. Put(RecvEnd(Other(p), t), msgs)
  BY ShareSize DEF SendCircuits, one
<1>5. /\ s.pc = "garble" /\ SetSend(p, t, [s EXCEPT !.pc = "garbled"])
      /\ UNCHANGED <<main, seed, theirs, pipe, recv, mine, their, bucket, aborted>>
  BY DEF SendCircuits, SendAt
<1>6. s \in Worker0(SendPc)
  BY AtThread
<1> HIDE DEF msgs
<1>7. ASSUME NEW o \in Nat, o = Len(Opened(seed[Other(p)], t))
      PROVE  /\ Sent(t, o, [s EXCEPT !.pc = "garbled"]) = Sent(t, o, s) + Len(msgs)
             /\ \A n \in 1..Len(msgs) : Expected(Other(p), t, seed[Other(p)], seed[p],
                                                 Sent(t, o, s) + n, msgs[n])
  <2>1. [s EXCEPT !.pc = "garbled"].pc = "garbled"
    BY <1>6 DEF Worker0
  <2>2. Sent(t, o, s) = 0 /\ Sent(t, o, [s EXCEPT !.pc = "garbled"]) = k + 1
    BY <1>5, <2>1 DEF Sent
  <2>3. ASSUME NEW n \in 1..Len(msgs)
        PROVE  Expected(Other(p), t, seed[Other(p)], seed[p], 0 + n, msgs[n])
    <3>1. 0 + n \in Int /\ 0 + n <= 2 * Size(t) + 2
      BY <1>1, <1>3
    <3> QED BY <3>1, <1>7, Unchecked
  <2> QED BY <2>2, <2>3, <1>1, <1>3
<1>8. SendPhase("garbled") = "start" /\ SendPhase(s.pc) = "start"
  BY <1>5 DEF SendPhase
<1> HIDE DEF s
<1> QED BY <1>3, <1>4, <1>5, <1>7, <1>8, SendGoesOn DEF s, SendPc, Early

\* A synchronous send returns.
LEMMA SendSyncKeeps ==
    ASSUME InitSizes, Inv, NEW p \in Party, NEW t \in Thread, SendSync(p, t)
    PROVE  Inv'
<1> DEFINE s == send[p][t]
           pc == AfterSync[s.pc]
           s2 == [s EXCEPT !.pc = pc]
<1>1. /\ s \in Worker0(SendPc) /\ WorkerOK(p, t, s, SendPhase(s.pc))
      /\ MainOK(p, main[p], send[p], recv[p], theirs[p], seed[Other(p)])
  BY AtThread
<1>2. /\ s.pc \in DOMAIN AfterSync /\ SetSend(p, t, [s EXCEPT !.pc = pc])
      /\ UNCHANGED <<main, seed, theirs, pipe, recv, mine, their, bucket, aborted>>
      /\ net' = net
  <2>1. s.pc \in DOMAIN AfterSync
    BY DEF SendSync
  <2>2. SetSend(p, t, [s EXCEPT !.pc = AfterSync[@]])
    BY DEF SendSync
  <2>3. [s EXCEPT !.pc = AfterSync[@]] = [s EXCEPT !.pc = pc]
    OBVIOUS
  <2>4. /\ UNCHANGED <<main, seed, theirs, pipe, recv, mine, their, bucket, aborted>>
        /\ net' = net
    BY DEF SendSync
  <2> QED BY <2>1, <2>2, <2>3, <2>4
<1>3. \/ s.pc = "garbled" /\ pc = "initOT"
      \/ s.pc = "committed" /\ pc = "open"
      \/ s.pc = "opened" /\ pc = "proof"
      \/ s.pc = "bucketed" /\ pc = "kprobe"
  BY <1>2 DEF AfterSync
<1> HIDE DEF pc
<1>4. s2.pc = pc /\ s2.next = s.next /\ s2.bckt = s.bckt
  BY <1>1 DEF Worker0
<1>5. LET phase == SendPhase(s.pc)  phase2 == SendPhase(pc) IN
           \/ phase2 = phase
           \/ phase = "start" /\ phase2 = "initOT"
           \/ phase = "open" /\ phase2 = "bucket"
           \/ phase = "bucketed" /\ phase2 = "kprobe"
  BY <1>3 DEF SendPhase
<1>6. SendPhase(pc) \notin Early \/ pc \in {"opened", "proof"} => main[p] \in {"join", "online"}
  BY <1>1, <1>3 DEF SendPhase, Early, MainOK
<1>7. <<>> \in Seq(Message) /\ Len(<<>>) = 0
  OBVIOUS
<1>8. ASSUME NEW o \in Nat
      PROVE  Sent(t, o, s2) = Sent(t, o, s)
  <2>1. /\ s.pc = "garbled" => s.next = Start(t)
        /\ s.pc = "bucketed" => s.bckt = t
    BY <1>1 DEF WorkerOK, SendPhase
  <2>2. Turn(t, t) = 0 /\ Turns(t) \in Nat /\ Size(t) \in Nat /\ Start(t) \in Nat
    BY ThreadFacts, Turning
  <2> HIDE DEF s, s2
  <2> QED BY <2>1, <2>2, <1>3, <1>4 DEF Sent
<1>9. \A o \in Nat : o = Len(Opened(seed[Other(p)], t)) =>
                /\ Sent(t, o, s2) = Sent(t, o, s) + Len(<<>>)
                /\ \A n \in 1..Len(<<>>) : Expected(Other(p), t, seed[Other(p)], seed[p],
                                                    Sent(t, o, s) + n, <<>>[n])
  <2>1. \A o \in Nat : Sent(t, o, s) \in Int
    BY <1>1, CountTypes
  <2> HIDE DEF s, s2
  <2> QED BY <2>1, <1>7, <1>8
<1>10. pc \in SendPc /\ s.pc \notin {"unborn", "done"} /\ pc # "unborn"
  BY <1>3 DEF SendPc
<1> QED BY <1>2, <1>5, <1>6, <1>7, <1>9, <1>10, SendGoesOn

\* The proof of the OT messages of the opened circuits is sent.
LEMMA SendProofKeeps ==
    ASSUME InitSizes, Inv, NEW p \in Party, NEW t \in Thread, SendProof(p, t)
    PROVE  Inv'
<1> DEFINE s == send[p][t]
           s2 == [s EXCEPT !.pc = "bucket"]
           msgs == <<Msg("proof", <<>>, <<>>)>>
<1>1. /\ s \in Worker0(SendPc) /\ WorkerOK(p, t, s, SendPhase(s.pc))
      /\ MainOK(p, main[p], send[p], recv[p], theirs[p], seed[Other(p)])
  BY AtThread
<1>2. /\ s.pc = "proof" /\ SetSend(p, t, s2) /\ Put(RecvEnd(Other(p), t), msgs)
      /\ UNCHANGED <<main, seed, theirs, pipe, recv, mine, their, bucket, aborted>>
  BY DEF SendProof, SendAt
<1>3. msgs \in Seq(Message) /\ Len(msgs) = 1
  <2>1. "proof" \in Kinds /\ <<>> \in Seq(Int)
    BY DEF Kinds
  <2> QED BY <2>1, OneMessage
<1> HIDE DEF msgs
<1>4. s2.pc = "bucket" /\ s2.next = s.next /\ s2.bckt = s.bckt
  BY <1>1 DEF Worker0
<1>5. SendPhase(s.pc) = "open" /\ SendPhase("bucket") = "bucket"
  BY <1>2 DEF SendPhase
<1>6. main[p] \in {"join", "online"}
  BY <1>1, <1>2 DEF MainOK
<1>7. ASSUME NEW o \in Nat, o = Len(Opened(seed[Other(p)], t))
      PROVE  /\ Sent(t, o, s2) = Sent(t, o, s) + Len(msgs)
             /\ \A n \in 1..Len(msgs) : Expected(Other(p), t, seed[Other(p)], seed[p],
                                                 Sent(t, o, s) + n, msgs[n])
  <2>1. s.bckt = t
    BY <1>1, <1>5 DEF WorkerOK
  <2>2. Turn(t, t) = 0 /\ Turns(t) \in Nat /\ Size(t) \in Nat
    BY ThreadFacts, Turning
  <2> HIDE DEF s, s2
  <2>3. Sent(t, o, s) = 2 * Size(t) + o + 3 /\ Sent(t, o, s2) = 2 * Size(t) + o + 4
    BY <2>1, <2>2, <1>2, <1>4 DEF Sent
  <2>4. ASSUME NEW n \in 1..Len(msgs)
        PROVE  Expected(Other(p), t, seed[Other(p)], seed[p], Sent(t, o, s) + n, msgs[n])
    <3>1. n = 1
      BY <1>3
    <3>2. Sent(t, o, s) + n = 2 * Size(t) + o + 4
      BY <2>2, <2>3, <3>1
    <3>3. /\ 2 * Size(t) + o + 4 \in Int /\ 2 * Size(t) + 2 + o < 2 * Size(t) + o + 4
          /\ 2 * Size(t) + o + 4 < 2 * Size(t) + o + 6 + Turns(t)
      BY <2>2
    <3> QED BY <3>2, <3>3, <1>7, Unchecked
  <2> QED BY <2>2, <2>3, <2>4, <1>3
<1> HIDE DEF s
<1> QED BY <1>2, <1>3, <1>5, <1>6, <1>7, SendGoesOn DEF SendPc, s

\* A circuit's input labels are committed to, in the order of its OTs.
LEMMA SendInitOTKeeps ==
    ASSUME InitSizes, Inv, NEW p \in Party, NEW t \in Thread, SendInitOT(p, t)
    PROVE  Inv'
<1> DEFINE s == send[p][t]
           c == s.next
           last == c + 1 \notin Share(t)
           head == <<Msg("commits", <<c>>, <<s.ot>>)>>
           msgs == head \o IF last THEN <<Dummy>> ELSE <<>>
           s2 == [s EXCEPT !.ot = AfterOTs(p, @), !.next = c + 1,
                           !.pc = IF last THEN "committed" ELSE "initOT"]
<1>1. s \in Worker0(SendPc) /\ WorkerOK(p, t, s, SendPhase(s.pc))
  BY AtThread
<1>2. /\ s.pc = "initOT" /\ pipe[p][t].recv >= s.ot + Encoding[p]
      /\ mine' = [mine EXCEPT ![p][c].ot = s.ot]
      /\ Put(RecvEnd(Other(p), t), msgs) /\ SetSend(p, t, s2)
      /\ UNCHANGED <<main, seed, theirs, pipe, recv, their, bucket, aborted>>
  BY DEF SendInitOT, SendAt
<1>3. Encoding[p] \in Nat /\ Size(t) \in Nat \ {0} /\ Start(t) \in Nat
      /\ Start(t+1) = Start(t) + Size(t)
  BY OTFacts, ThreadFacts
<1>4. c \in Nat /\ s.ot \in Nat
  BY <1>1 DEF Worker0
<1> DEFINE phase2 == IF c + 1 \in Share(t) THEN "initOT" ELSE "open"
<1>5. /\ s2 \in Worker0(SendPc) /\ s2.next = c + 1 /\ s2.ot = s.ot + Encoding[p]
      /\ s2.bckt = s.bckt /\ s2.iter = s.iter
      /\ s2.pc = IF last THEN "committed" ELSE "initOT"
  <2>1. AfterOTs(p, s.ot) = s.ot + Encoding[p] /\ s.ot + Encoding[p] \in Nat
    BY <1>3, <1>4 DEF AfterOTs
  <2> DEFINE pc2 == IF last THEN "committed" ELSE "initOT"
             ot2 == s.ot + Encoding[p]
             c2  == c + 1
  <2>2. s2 = [s EXCEPT !.ot = ot2, !.next = c2, !.pc = pc2]
    BY <2>1
  <2>3. pc2 \in SendPc /\ ot2 \in Nat /\ c2 \in Nat
    BY <2>1, <1>4 DEF SendPc
  <2> HIDE DEF pc2, ot2, c2, s, s2
  <2>4. s2 \in Worker0(SendPc)
    BY <2>2, <2>3, <1>1 DEF Worker0
  <2>5. s2.next = c2 /\ s2.ot = ot2 /\ s2.bckt = s.bckt /\ s2.iter = s.iter /\ s2.pc = pc2
    BY <2>2, <1>1 DEF Worker0
  <2> QED BY <2>4, <2>5 DEF pc2, ot2, c2
<1> HIDE DEF s2
<1>6. SendPhase(s.pc) = "initOT" /\ SendPhase(s2.pc) = phase2
  BY <1>2, <1>5 DEF SendPhase
<1>7. /\ WorkerOK(p, t, s2, SendPhase(s2.pc))
      /\ c \in Share(t) /\ Owner(c) = t /\ s.ot = CircuitOT(p, c)
      /\ (s2.next - Start(t)) * Encoding[p] = s.ot + Encoding[p]
  <2> HIDE DEF s
  <2> QED BY <1>1, <1>5, <1>6, WorkerTakesCircuit
<1>8. /\ c \in Circuit /\ Start(t) <= c /\ c < Start(t+1) /\ (last => c + 1 = Start(t+1))
  BY <1>7, ThreadFacts
<1>9. /\ mine' \in [Party -> [Circuit -> [ot : Int, cleared : BOOLEAN]]]
      /\ \A q \in Party : q # p => mine'[q] = mine[q]
      /\ \A d \in Circuit : d # c => mine'[p][d] = mine[p][d]
      /\ mine'[p][c].ot = s.ot /\ mine'[p][c].cleared = mine[p][c].cleared
  <2> HIDE DEF s, c
  <2>1. mine' = [mine EXCEPT ![p][c].ot = s.ot] /\ s.ot \in Int /\ c \in Circuit
    BY <1>2, <1>4, <1>8
  <2> DEFINE x == s.ot
  <2> HIDE DEF x
  <2>2. mine \in [Party -> [Circuit -> [ot : Int, cleared : BOOLEAN]]]
    BY DataShape
  <2>3. mine' = [mine EXCEPT ![p][c].ot = x] /\ x \in Int
    BY <2>1 DEF x
  <2>4. mine' \in [Party -> [Circuit -> [ot : Int, cleared : BOOLEAN]]]
    BY ONLY <2>1, <2>2, <2>3
  <2>5. /\ \A q \in Party : q # p => mine'[q] = mine[q]
        /\ \A d \in Circuit : d # c => mine'[p][d] = mine[p][d]
        /\ mine'[p][c].ot = x /\ mine'[p][c].cleared = mine[p][c].cleared
    BY ONLY <2>1, <2>2, <2>3, p \in Party
  <2> QED BY <2>4, <2>5 DEF x
<1>10. \A d \in Share(t) : MineOK(p, d, mine'[p][d], s2, theirs[p])
  <2> SUFFICES ASSUME NEW d \in Share(t) PROVE MineOK(p, d, mine'[p][d], s2, theirs[p])
    OBVIOUS
  <2>1. d \in Circuit /\ Owner(d) = t /\ d \in Nat
    BY Owners, ThreadFacts
  <2>2. MineOK(p, d, mine[p][d], s, theirs[p])
    BY <2>1 DEF Inv, Contents
  <2> HIDE DEF s, c
  <2>3. CASE d = c
    BY <2>2, <2>3, <1>4, <1>5, <1>7, <1>9 DEF MineOK
  <2>4. CASE d # c
    <3>1. d < s2.next <=> d < s.next
      BY <2>1, <2>4, <1>4, <1>5 DEF c
    <3> QED BY <2>1, <2>2, <2>4, <3>1, <1>9 DEF MineOK
  <2> QED BY <2>3, <2>4
<1>11. \A b \in Bucket : OnTurn(t, b) =>
        BucketOK(p, b, bucket[p][b], s2, recv[p][t], theirs[p], seed[p])
  BY <1>5, <1>6, SendMarks
<1>12. msgs \in Seq(Message) /\ Len(msgs) = IF last THEN 2 ELSE 1
  <2>1. head \in Seq(Message) /\ Len(head) = 1
    <3>1. "commits" \in Kinds /\ <<c>> \in Seq(Int) /\ <<s.ot>> \in Seq(Int)
      BY <1>4 DEF Kinds
    <3> QED BY <3>1, OneMessage
  <2> HIDE DEF head
  <2>2. <<Dummy>> \in Seq(Message) /\ Len(<<Dummy>>) = 1
    BY Dummies
  <2> DEFINE d == <<Dummy>>
  <2> HIDE DEF d
  <2>3. head \o d \in Seq(Message) /\ Len(head \o d) = 2
    BY <2>1, <2>2 DEF d
  <2>4. head \o <<>> = head
    BY <2>1
  <2> QED BY <2>1, <2>3, <2>4 DEF d
<1> HIDE DEF msgs
<1>13. LET o == Len(Opened(seed[Other(p)], t)) IN
                /\ Sent(t, o, s2) = Sent(t, o, s) + Len(msgs)
                /\ \A n \in 1..Len(msgs) : Expected(Other(p), t, seed[Other(p)], seed[p],
                                                    Sent(t, o, s) + n, msgs[n])
  <2> DEFINE o == Len(Opened(seed[Other(p)], t))
             k == Size(t)
  <2>1. o \in Nat
    BY AtThread, WireCounts
  <2>2. Sent(t, o, s) = k + 1 + (c - Start(t))
    BY <1>2 DEF Sent
  <2>3. Sent(t, o, s2) = IF last THEN 2 * k + 2 ELSE k + 1 + ((c + 1) - Start(t))
    BY <1>5 DEF Sent
  <2> HIDE DEF o, s, c
  <2>4. Sent(t, o, s2) = Sent(t, o, s) + Len(msgs)
    <3>1. CASE last
      <4>1. c + 1 = Start(t) + k
        BY <3>1, <1>3, <1>8
      <4>2. Len(msgs) = 2 /\ Sent(t, o, s2) = 2 * k + 2
        BY <2>3, <3>1, <1>12
      <4>3. c \in Nat /\ k \in Nat /\ Start(t) \in Nat
        BY <1>3, <1>4
      <4> QED BY ONLY <2>2, <4>1, <4>2, <4>3
    <3>2. CASE ~last
      BY <2>2, <2>3, <3>2, <1>3, <1>4, <1>12
    <3> QED BY <3>1, <3>2
  <2>5. ASSUME NEW n \in 1..Len(msgs)
        PROVE  Expected(Other(p), t, seed[Other(p)], seed[p], Sent(t, o, s) + n, msgs[n])
    <3>1. Sent(t, o, s) + n \in Int /\ Sent(t, o, s) + n <= 2 * Size(t) + 2
      BY <2>2, <1>3, <1>4, <1>8, <1>12
    <3>2. o = Len(Opened(seed[Other(p)], t))
      BY DEF o
    <3> QED BY <2>1, <3>1, <3>2, Unchecked
  <2> QED BY <2>4, <2>5 DEF o
<1>14. pipe[p][t].recv >= (s2.next - Start(t)) * Encoding[p]
  BY <1>2, <1>7
<1>15. /\ bucket' \in [Party -> [Bucket -> [mine : Picks, their : Picks, deltas : BOOLEAN,
                                            psiSend : Int, psiRecv : Int, labels : BOOLEAN]]]
       /\ bucket' = bucket
  BY <1>2, DataShape
<1>16. \A d \in Circuit : d \notin Share(t) => mine'[p][d] = mine[p][d]
  BY <1>7, <1>9
<1>17. /\ s.pc \notin {"unborn", "done"} /\ s2.pc # "unborn"
       /\ ~(SendPhase(s2.pc) \notin Early \/ s2.pc \in {"opened", "proof"})
  BY <1>2, <1>5, <1>6 DEF Early
<1> HIDE DEF s, c
<1> QED BY <1>2, <1>5, <1>7, <1>9, <1>10, <1>11, <1>12, <1>13, <1>14, <1>15, <1>16, <1>17,
           SendMoves DEF s

\* The circuits of the range that the peer selected are opened.
LEMMA SendOpenKeeps ==
    ASSUME InitSizes, Inv, NEW p \in Party, NEW t \in Thread, SendOpen(p, t)
    PROVE  Inv'
<1> DEFINE s == send[p][t]
           sel == theirs[p]
           opened == Opened(sel, t)
           o == Len(opened)
           part == [n \in 1..o |-> Msg("open", <<opened[n]>>, <<mine[p][opened[n]].ot>>)]
           msgs == part \o <<Dummy>>
           s2 == [s EXCEPT !.pc = "opened"]
           now(c) == [mine[p][c] EXCEPT !.cleared = @ \/ \E n \in 1..o : opened[n] = c]
<1>1. /\ s \in Worker0(SendPc) /\ WorkerOK(p, t, s, SendPhase(s.pc))
      /\ MainOK(p, main[p], send[p], recv[p], theirs[p], seed[Other(p)])
      /\ PipeOK(p, t, pipe[p][t], s, recv[Other(p)][t])
      /\ seed[Other(p)] \in Seeds /\ Other(p) \in Party /\ Other(Other(p)) = p
  BY AtThread
<1>2. /\ s.pc = "open" /\ theirs[p] # <<>> /\ Put(RecvEnd(Other(p), t), msgs)
      /\ mine' = [mine EXCEPT ![p] = [c \in Circuit |-> now(c)]]
      /\ SetSend(p, t, s2)
      /\ UNCHANGED <<main, seed, theirs, pipe, recv, their, bucket, aborted>>
  BY DEF SendOpen, SendAt, ToOpen
<1>3. main[p] \in {"join", "online"} /\ sel = seed[Other(p)] /\ sel \in Seeds
  BY <1>1, <1>2 DEF MainOK
<1>4. SendPhase(s.pc) = "open" /\ SendPhase("opened") = "open"
  BY <1>2 DEF SendPhase
<1>5. s.next = Start(t+1) /\ s.next \in Nat
  BY <1>1, <1>4 DEF WorkerOK
<1>6. s2 \in Worker0(SendPc) /\ s2.pc = "opened" /\ SameWork(s, s2)
  BY <1>1 DEF Worker0, SendPc, SameWork
<1> HIDE DEF s2
<1>7. WorkerOK(p, t, s2, SendPhase(s2.pc))
  BY <1>1, <1>4, <1>6, WorkerWaits
<1>8. /\ o \in Nat /\ opened \in Seq(Circuit)
      /\ \A n \in 1..o : /\ opened[n] \in Share(t) /\ opened[n] \in Circuit /\ opened[n] \in Int
                         /\ \E a \in 0..NumOpened-1 : opened[n] = sel[1][a]
  <2>1. /\ opened \in Seq(Circuit)
        /\ \A n \in 1..o : /\ opened[n] \in Share(t)
                           /\ \E a \in 0..NumOpened-1 : opened[n] = sel[1][a]
    BY <1>3, OpenedFacts
  <2>2. \A c \in Share(t) : c \in Circuit /\ c \in Int
    BY ThreadFacts
  <2> QED BY <2>1, <2>2
<1> HIDE DEF opened, o
<1>9. \A c \in Share(t) : /\ c \in Circuit /\ Owner(c) = t /\ MineOK(p, c, mine[p][c], s, sel)
                          /\ mine[p][c].ot = CircuitOT(p, c)
  <2> SUFFICES ASSUME NEW c \in Share(t)
               PROVE  /\ c \in Circuit /\ Owner(c) = t /\ MineOK(p, c, mine[p][c], s, sel)
                      /\ mine[p][c].ot = CircuitOT(p, c)
    OBVIOUS
  <2>1. c \in Circuit /\ Owner(c) = t /\ c < Start(t+1)
    BY Owners, ThreadFacts
  <2>2. MineOK(p, c, mine[p][c], s, sel)
    BY <2>1 DEF Inv, Contents
  <2> QED BY <2>1, <2>2, <1>5 DEF MineOK
<1>10. mine \in [Party -> [Circuit -> [ot : Int, cleared : BOOLEAN]]]
  BY DataShape
<1>11. /\ \A n \in 1..o : part[n] = Msg("open", <<opened[n]>>, <<CircuitOT(p, opened[n])>>)
       /\ part \in Seq(Message) /\ Len(part) = o
  <2>1. \A n \in 1..o : mine[p][opened[n]].ot = CircuitOT(p, opened[n]) /\ opened[n] \in Int
                        /\ CircuitOT(p, opened[n]) \in Int
    BY <1>8, <1>9, <1>10
  <2>2. \A n \in 1..o : Msg("open", <<opened[n]>>, <<mine[p][opened[n]].ot>>) \in Message
    <3> SUFFICES ASSUME NEW n \in 1..o
                 PROVE  Msg("open", <<opened[n]>>, <<mine[p][opened[n]].ot>>) \in Message
      OBVIOUS
    <3>1. /\ "open" \in Kinds /\ <<opened[n]>> \in Seq(Int)
          /\ <<mine[p][opened[n]].ot>> \in Seq(Int)
      BY <2>1 DEF Kinds
    <3> QED BY <3>1, OneMessage
  <2>3. part \in [1..o -> Message]
    BY <2>2
  <2>4. \A n \in 1..o : part[n] = Msg("open", <<opened[n]>>, <<CircuitOT(p, opened[n])>>)
    BY <2>1
  <2> HIDE DEF part
  <2> QED BY <2>3, <2>4, <1>8
<1> HIDE DEF part
<1>12. /\ msgs \in Seq(Message) /\ Len(msgs) = o + 1
       /\ \A n \in 1..o : msgs[n] = Msg("open", <<opened[n]>>, <<CircuitOT(p, opened[n])>>)
  <2>1. <<Dummy>> \in Seq(Message) /\ Len(<<Dummy>>) = 1
    BY Dummies
  <2> DEFINE d == <<Dummy>>
  <2> HIDE DEF d
  <2>2. d \in Seq(Message) /\ Len(d) = 1
    BY <2>1 DEF d
  <2>3. /\ part \o d \in Seq(Message) /\ Len(part \o d) = o + 1
        /\ \A n \in 1..o : (part \o d)[n] = part[n]
    <3>1. part \in Seq(Message) /\ Len(part) = o
      BY <1>11
    <3> HIDE DEF o
    <3>2. part \o d \in Seq(Message) /\ Len(part \o d) = Len(part) + Len(d)
      BY ONLY <2>2, <3>1, Concatenated
    <3>3. \A n \in 1..Len(part) : (part \o d)[n] = part[n]
      BY ONLY <2>2, <3>1, Concatenated
    <3> QED BY ONLY <2>2, <3>1, <3>2, <3>3
  <2> QED BY <2>3, <1>11 DEF d
<1> HIDE DEF msgs
<1>13. /\ Sent(t, o, s2) = Sent(t, o, s) + Len(msgs)
       /\ \A n \in 1..Len(msgs) : Expected(Other(p), t, seed[Other(p)], seed[p],
                                           Sent(t, o, s) + n, msgs[n])
  <2>1. Size(t) \in Nat /\ Turns(t) \in Nat /\ o \in Nat /\ Len(msgs) = o + 1
    BY <1>8, <1>12, ThreadFacts, Turning
  <2>2. Sent(t, o, s) = 2 * Size(t) + 2 /\ Sent(t, o, s2) = 2 * Size(t) + o + 3
    BY <1>2, <1>6 DEF Sent
  <2>3. opened = Opened(seed[Other(p)], t) /\ o = Len(Opened(seed[Other(p)], t))
    BY <1>3 DEF opened, o
  <2>4. ASSUME NEW n \in 1..Len(msgs)
        PROVE  Expected(Other(p), t, seed[Other(p)], seed[p], 2 * Size(t) + 2 + n, msgs[n])
    <3>1. CASE n \in 1..o
      <4>1. \A m \in 1..o : 2 * Size(t) + 2 + n = 2 * Size(t) + 2 + m => m = n
        BY <2>1, <3>1
      <4>2. \A b \in Bucket : OnTurn(t, b) =>
                    2 * Size(t) + 2 + n # 2 * Size(t) + o + 6 + Turns(t) + Turn(t, b)
        BY <2>1, <3>1 DEF OnTurn
      <4>3. msgs[n].cirs = <<opened[n]>> /\ msgs[n].ots = <<CircuitOT(p, opened[n])>>
        <5>1. \A m \in 1..o : msgs[m] = Msg("open", <<opened[m]>>, <<CircuitOT(p, opened[m])>>)
          BY <1>12
        <5> HIDE DEF o
        <5>2. msgs[n] = Msg("open", <<opened[n]>>, <<CircuitOT(p, opened[n])>>)
          BY ONLY <3>1, <5>1
        <5> QED BY ONLY <5>2 DEF Msg
      <4> QED BY <4>1, <4>2, <4>3, <2>3, <1>1 DEF Expected
    <3>2. CASE n \notin 1..o
      <4>1. n = o + 1
        BY <3>2, <2>1
      <4>2. /\ 2 * Size(t) + 2 + n \in Int /\ 2 * Size(t) + 2 + o < 2 * Size(t) + 2 + n
            /\ 2 * Size(t) + 2 + n < 2 * Size(t) + o + 6 + Turns(t)
        BY <4>1, <2>1
      <4> QED BY <4>2, <2>1, <2>3, Unchecked
    <3> QED BY <3>1, <3>2
  <2>5. Sent(t, o, s2) = Sent(t, o, s) + Len(msgs)
    BY <2>1, <2>2
  <2> QED BY <2>2, <2>4, <2>5
<1>14. /\ mine'[p] = [c \in Circuit |-> now(c)]
       /\ \A q \in Party : q # p => mine'[q] = mine[q]
       /\ mine' \in [Party -> [Circuit -> [ot : Int, cleared : BOOLEAN]]]
       /\ \A c \in Circuit : mine'[p][c].ot = mine[p][c].ot
       /\ \A c \in Circuit :
            mine'[p][c].cleared <=> mine[p][c].cleared \/ \E n \in 1..o : opened[n] = c
       /\ \A c \in Circuit : (\A n \in 1..o : opened[n] # c) => mine'[p][c] = mine[p][c]
  <2> DEFINE hit(c) == \E n \in 1..o : opened[n] = c
  <2>1. ASSUME NEW c \in Circuit
        PROVE  /\ now(c) \in [ot : Int, cleared : BOOLEAN] /\ now(c).ot = mine[p][c].ot
               /\ now(c).cleared <=> mine[p][c].cleared \/ hit(c)
               /\ ~hit(c) => now(c) = mine[p][c]
    <3>1. hit(c) \in BOOLEAN /\ mine[p][c] \in [ot : Int, cleared : BOOLEAN]
      BY <1>10
    <3>2. now(c) = [mine[p][c] EXCEPT !.cleared = @ \/ hit(c)]
      OBVIOUS
    <3> HIDE DEF now, hit
    <3> QED BY <3>1, <3>2, Clearing
  <2>2. \A c \in Circuit : (\A n \in 1..o : opened[n] # c) => ~hit(c)
    OBVIOUS
  <2> HIDE DEF now
  <2>4. [c \in Circuit |-> now(c)] \in [Circuit -> [ot : Int, cleared : BOOLEAN]]
    BY <2>1
  <2>5. /\ mine'[p] = [c \in Circuit |-> now(c)]
        /\ \A q \in Party : q # p => mine'[q] = mine[q]
        /\ mine' \in [Party -> [Circuit -> [ot : Int, cleared : BOOLEAN]]]
    BY <2>4, <1>2, <1>10
  <2>6. \A c \in Circuit : mine'[p][c] = now(c)
    BY <2>5
  <2>7. \A c \in Circuit : mine'[p][c].ot = mine[p][c].ot
    BY <2>1, <2>6
  <2>8. \A c \in Circuit :
            mine'[p][c].cleared <=> mine[p][c].cleared \/ \E n \in 1..o : opened[n] = c
    BY <2>1, <2>6
  <2>9. \A c \in Circuit : (\A n \in 1..o : opened[n] # c) => mine'[p][c] = mine[p][c]
    BY <2>1, <2>2, <2>6
  <2> QED BY <2>5, <2>7, <2>8, <2>9
<1> HIDE DEF now
<1>15. \A c \in Share(t) : MineOK(p, c, mine'[p][c], s2, theirs[p])
  <2> SUFFICES ASSUME NEW c \in Share(t) PROVE MineOK(p, c, mine'[p][c], s2, sel)
    OBVIOUS
  <2>1. c \in Circuit /\ MineOK(p, c, mine[p][c], s, sel)
    BY <1>9
  <2>2. mine'[p][c].ot = IF c < s2.next THEN CircuitOT(p, c) ELSE Unset
    BY <2>1, <1>6, <1>14 DEF MineOK, SameWork
  <2>3. mine'[p][c].cleared => sel \in Seeds /\ \E a \in 0..NumOpened-1 : c = sel[1][a]
    <3>1. mine'[p][c].cleared <=> mine[p][c].cleared \/ \E n \in 1..o : opened[n] = c
      BY <2>1, <1>14
    <3>2. (\E n \in 1..o : opened[n] = c) => \E a \in 0..NumOpened-1 : c = sel[1][a]
      BY <1>8
    <3>3. mine[p][c].cleared => \E a \in 0..NumOpened-1 : c = sel[1][a]
      BY <2>1 DEF MineOK
    <3> QED BY <3>1, <3>2, <3>3, <1>3
  <2> QED BY <2>2, <2>3 DEF MineOK
<1>16. \A c \in Circuit : c \notin Share(t) => mine'[p][c] = mine[p][c]
  BY <1>8, <1>14
<1>17. \A b \in Bucket : OnTurn(t, b) =>
        BucketOK(p, b, bucket[p][b], s2, recv[p][t], theirs[p], seed[p])
  BY <1>4, <1>6, SendMarks DEF SameWork
<1>18. /\ bucket' \in [Party -> [Bucket -> [mine : Picks, their : Picks, deltas : BOOLEAN,
                                            psiSend : Int, psiRecv : Int, labels : BOOLEAN]]]
       /\ bucket' = bucket
  BY <1>2, DataShape
<1>19. pipe[p][t].recv >= (s2.next - Start(t)) * Encoding[p]
  BY <1>1, <1>6 DEF PipeOK, SameWork
<1>20. s.pc \notin {"unborn", "done"} /\ s2.pc # "unborn"
  BY <1>2, <1>6
<1>21. o = Len(Opened(seed[Other(p)], t))
  BY <1>3 DEF o, opened
<1> HIDE DEF s, sel
<1> QED BY <1>2, <1>3, <1>6, <1>7, <1>12, <1>13, <1>14, <1>15, <1>16, <1>17, <1>18, <1>19,
           <1>20, <1>21, SendMoves DEF s

\* A bucket is given its own circuits and its OTs for the PSI.
LEMMA SendBucketKeeps ==
    ASSUME InitSizes, Inv, NEW p \in Party, NEW t \in Thread, SendBucket(p, t)
    PROVE  Inv'
<1> DEFINE s == send[p][t]
           a == s.bckt
           s2 == [s EXCEPT !.ot = @ + PsiOTs, !.pc = "translate"]
           x == s.ot
           y == Picked(theirs[p], s.iter)
<1>1. /\ s \in Worker0(SendPc) /\ WorkerOK(p, t, s, SendPhase(s.pc))
      /\ MainOK(p, main[p], send[p], recv[p], theirs[p], seed[Other(p)])
      /\ PipeOK(p, t, pipe[p][t], s, recv[Other(p)][t])
      /\ seed[Other(p)] \in Seeds
  BY AtThread
<1>2. /\ s.pc = "bucket"
      /\ bucket' = [bucket EXCEPT ![p][a].psiRecv = x, ![p][a].mine = y]
      /\ SetSend(p, t, s2)
      /\ UNCHANGED <<main, seed, theirs, pipe, recv, mine, their, net, aborted>>
  BY DEF SendBucket, SendAt
<1>3. SendPhase(s.pc) = "bucket" /\ SendPhase("translate") = "fill"
  BY <1>2 DEF SendPhase
<1>4. main[p] \in {"join", "online"} /\ theirs[p] \in Seeds
  BY <1>1, <1>3 DEF MainOK, Early
<1>5. /\ s2 \in Worker0(SendPc) /\ s2.pc = "translate" /\ s2.next = s.next
      /\ s2.ot = s.ot + PsiOTs /\ s2.bckt = s.bckt /\ s2.iter = s.iter
  <2>1. PsiOTs \in Nat
    BY OTFacts
  <2>2. s.ot + PsiOTs \in Nat /\ "translate" \in SendPc
    BY <2>1, <1>1 DEF Worker0, SendPc
  <2> QED BY <2>2, <1>1 DEF Worker0
<1> HIDE DEF s2
<1>6. /\ WorkerOK(p, t, s2, "fill") /\ x = BucketOT(p, a) /\ OnTurn(t, a)
      /\ a % NumInitThreads = t /\ s.iter = a * BucketSize
  <2> HIDE DEF s
  <2> QED BY <1>1, <1>3, <1>5, WorkerTakesBucket
<1>7. y = Content(theirs[p], a) /\ a \in Bucket /\ x \in Int
  BY <1>1, <1>6 DEF Content, Worker0
<1>8. y \in Picks
  BY <1>4, <1>7, ContentFacts DEF Picks
<1> HIDE DEF s, a, x, y
<1>9. /\ bucket' \in [Party -> [Bucket -> [mine : Picks, their : Picks, deltas : BOOLEAN,
                                           psiSend : Int, psiRecv : Int, labels : BOOLEAN]]]
      /\ \A q \in Party : q # p => bucket'[q] = bucket[q]
      /\ \A b \in Bucket : b # a => bucket'[p][b] = bucket[p][b]
      /\ bucket'[p][a] = [bucket[p][a] EXCEPT !.psiRecv = x, !.mine = y]
      /\ bucket[p][a] \in [mine : Picks, their : Picks, deltas : BOOLEAN,
                           psiSend : Int, psiRecv : Int, labels : BOOLEAN]
  <2> DEFINE K == [mine : Picks, their : Picks, deltas : BOOLEAN,
                   psiSend : Int, psiRecv : Int, labels : BOOLEAN]
             k2 == [bucket[p][a] EXCEPT !.psiRecv = x, !.mine = y]
  <2>1. bucket \in [Party -> [Bucket -> K]]
    BY DataShape
  <2>2. bucket' = [bucket EXCEPT ![p][a].psiRecv = x, ![p][a].mine = y]
    BY <1>2
  <2>3. bucket' = [bucket EXCEPT ![p][a] = k2]
    BY ONLY <2>1, <2>2, <1>7, p \in Party
  <2>4. bucket[p][a] \in K
    BY ONLY <2>1, <1>7, p \in Party
  <2>5. k2 \in K
    BY ONLY <2>4, <1>7, <1>8
  <2> HIDE DEF k2, K
  <2>6. /\ bucket' \in [Party -> [Bucket -> K]]
        /\ \A q \in Party : q # p => bucket'[q] = bucket[q]
        /\ \A b \in Bucket : b # a => bucket'[p][b] = bucket[p][b]
        /\ bucket'[p][a] = k2
    BY ONLY <2>1, <2>3, <2>5, <1>7, p \in Party
  <2> QED BY <2>4, <2>6 DEF k2, K
<1>10. /\ bucket'[p][a].psiRecv = x /\ bucket'[p][a].mine = y
       /\ bucket'[p][a].psiSend = bucket[p][a].psiSend /\ bucket'[p][a].their = bucket[p][a].their
       /\ bucket'[p][a].deltas = bucket[p][a].deltas /\ bucket'[p][a].labels = bucket[p][a].labels
  <2> DEFINE k == bucket[p][a]
  <2>1. /\ bucket'[p][a] = [k EXCEPT !.psiRecv = x, !.mine = y]
        /\ k \in [mine : Picks, their : Picks, deltas : BOOLEAN,
                  psiSend : Int, psiRecv : Int, labels : BOOLEAN]
    BY <1>9
  <2> HIDE DEF k
  <2>2. /\ bucket'[p][a].psiRecv = x /\ bucket'[p][a].mine = y
        /\ bucket'[p][a].psiSend = k.psiSend /\ bucket'[p][a].their = k.their
        /\ bucket'[p][a].deltas = k.deltas /\ bucket'[p][a].labels = k.labels
    BY ONLY <2>1
  <2> QED BY <2>2 DEF k
<1>11. \A b \in Bucket : OnTurn(t, b) =>
        BucketOK(p, b, bucket'[p][b], s2, recv[p][t], theirs[p], seed[p])
  <2> SUFFICES ASSUME NEW b \in Bucket, OnTurn(t, b)
               PROVE  BucketOK(p, b, bucket'[p][b], s2, recv[p][t], theirs[p], seed[p])
    OBVIOUS
  <2>1. b % NumInitThreads = t
    BY BucketOwner
  <2>2. BucketOK(p, b, bucket[p][b], s, recv[p][t], theirs[p], seed[p])
    BY <2>1 DEF Inv, Contents, s
  <2>3. /\ Filled(s2, "fill", b) <=> Filled(s, "bucket", b) \/ b = a
        /\ Labelled(s2, "fill", b) <=> Labelled(s, "bucket", b)
    BY <1>1, <1>3, <1>5, MarkFilled DEF a
  <2>4. SendPhase(s2.pc) = "fill" /\ SendPhase(s.pc) = "bucket"
    BY <1>3, <1>5
  <2>5. CASE b = a
    BY <2>2, <2>3, <2>4, <2>5, <1>6, <1>7, <1>10 DEF BucketOK
  <2>6. CASE b # a
    <3>1. bucket'[p][b] = bucket[p][b]
      BY <2>6, <1>9
    <3> QED BY <2>2, <2>3, <2>4, <2>6, <3>1 DEF BucketOK
  <2> QED BY <2>5, <2>6
<1>12. \A c \in Share(t) : MineOK(p, c, mine[p][c], s2, theirs[p])
  BY <1>5, SameMine DEF s
<1>13. mine' = mine /\ mine' \in [Party -> [Circuit -> [ot : Int, cleared : BOOLEAN]]]
  BY <1>2, DataShape
<1>14. LET o == Len(Opened(seed[Other(p)], t)) IN
                /\ Sent(t, o, s2) = Sent(t, o, s) + Len(<<>>)
                /\ \A n \in 1..Len(<<>>) : Expected(Other(p), t, seed[Other(p)], seed[p],
                                                    Sent(t, o, s) + n, <<>>[n])
  <2> DEFINE o == Len(Opened(seed[Other(p)], t))
  <2>1. o \in Nat /\ Sent(t, o, s) \in Int
    BY AtThread, WireCounts DEF s
  <2>2. Sent(t, o, s2) = Sent(t, o, s)
    BY <1>2, <1>5 DEF Sent
  <2>3. Len(<<>>) = 0
    OBVIOUS
  <2> HIDE DEF o
  <2> QED BY <2>1, <2>2, <2>3 DEF o
<1>15. pipe[p][t].recv >= (s2.next - Start(t)) * Encoding[p]
  BY <1>1, <1>5 DEF PipeOK
<1>16. WorkerOK(p, t, s2, SendPhase(s2.pc))
  BY <1>3, <1>5, <1>6
<1>17. \A b \in Bucket : ~OnTurn(t, b) => bucket'[p][b] = bucket[p][b]
  BY <1>6, <1>9
<1>18. s.pc \notin {"unborn", "done"} /\ s2.pc # "unborn" /\ <<>> \in Seq(Message)
  BY <1>2, <1>5
<1> QED BY <1>2, <1>4, <1>5, <1>9, <1>11, <1>12, <1>13, <1>14, <1>15, <1>16, <1>17, <1>18,
           SendMoves DEF s

\* Going round a loop over the buckets of a thread.
LEMMA Stepped ==
    ASSUME InitSizes, NEW t \in Thread, NEW pcs, NEW w \in Worker0(pcs),
           NEW again \in pcs, NEW after \in pcs
    PROVE  LET v == Step(w, t, again, after)  more == w.bckt + NumInitThreads < NumExe IN
           /\ v \in Worker0(pcs) /\ v.next = w.next /\ v.ot = w.ot /\ v.iter = w.iter
           /\ v.bckt = IF more THEN w.bckt + NumInitThreads ELSE t
           /\ v.pc = IF more THEN again ELSE after
<1> DEFINE more == w.bckt + NumInitThreads < NumExe
           b2 == IF more THEN w.bckt + NumInitThreads ELSE t
           pc2 == IF more THEN again ELSE after
           v == [w EXCEPT !.bckt = b2, !.pc = pc2]
<1>1. Step(w, t, again, after) = v
  BY DEF Step
<1>2. b2 \in Bucket /\ pc2 \in pcs
  <2>1. w.bckt \in Bucket /\ t \in Bucket /\ NumInitThreads \in Nat /\ NumExe \in Nat
    BY Turning, Sizes DEF Worker0
  <2> QED BY <2>1 DEF Bucket
<1> HIDE DEF b2, pc2
<1>3. v \in Worker0(pcs) /\ v.next = w.next /\ v.ot = w.ot /\ v.iter = w.iter
      /\ v.bckt = b2 /\ v.pc = pc2
  BY <1>2 DEF Worker0
<1> QED BY <1>1, <1>3 DEF b2, pc2

\* The circuits of a bucket that is filled, on both sides.
LEMMA FilledBucket ==
    ASSUME InitSizes, Inv, NEW p \in Party, NEW t \in Thread, NEW b \in Bucket, OnTurn(t, b)
    PROVE  /\ BucketOK(p, b, bucket[p][b], send[p][t], recv[p][t], theirs[p], seed[p])
           /\ Filled(send[p][t], SendPhase(send[p][t].pc), b) =>
                /\ main[p] \in {"join", "online"} /\ theirs[p] = seed[Other(p)]
                /\ bucket[p][b].mine = Content(seed[Other(p)], b)
                /\ bucket[p][b].mine \in [1..BucketSize -> Circuit]
                /\ bucket[p][b].mine \in Seq(Int)
           /\ bucket[p][b].deltas =>
                /\ bucket[p][b].their = Content(seed[p], b)
                /\ bucket[p][b].their \in [1..BucketSize -> Circuit]
<1>1. b % NumInitThreads = t
  BY BucketOwner
<1>2. BucketOK(p, b, bucket[p][b], send[p][t], recv[p][t], theirs[p], seed[p])
  BY <1>1 DEF Inv, Contents
<1>3. MainOK(p, main[p], send[p], recv[p], theirs[p], seed[Other(p)])
      /\ seed[p] \in Seeds /\ seed[Other(p)] \in Seeds
  BY AtThread
<1>4. /\ Content(seed[p], b) \in [1..BucketSize -> Circuit]
      /\ Content(seed[Other(p)], b) \in [1..BucketSize -> Circuit]
  BY <1>3, ContentFacts
<1>5. ASSUME Filled(send[p][t], SendPhase(send[p][t].pc), b)
      PROVE  /\ main[p] \in {"join", "online"} /\ theirs[p] = seed[Other(p)]
             /\ bucket[p][b].mine = Content(seed[Other(p)], b)
  <2>1. SendPhase(send[p][t].pc) \notin Early
    BY <1>5 DEF Filled, Early, Late
  <2>2. main[p] \in {"join", "online"} /\ theirs[p] = seed[Other(p)]
    BY <2>1, <1>3 DEF MainOK
  <2> QED BY <2>2, <1>2, <1>5 DEF BucketOK
<1>6. ASSUME NEW f \in [1..BucketSize -> Circuit] PROVE f \in Seq(Int)
  <2>1. BucketSize \in Nat /\ \A n \in 1..BucketSize : f[n] \in Int
    <3>1. BucketSize \in Nat /\ NumCircuits \in Nat
      BY Sizes
    <3>2. \A n \in 1..BucketSize : f[n] \in Circuit
      OBVIOUS
    <3> QED BY <3>1, <3>2 DEF Circuit
  <2>2. f \in [1..BucketSize -> Int]
    BY <2>1
  <2> QED BY <2>1, <2>2
<1>7. bucket[p][b].deltas => bucket[p][b].their = Content(seed[p], b)
  BY <1>2 DEF BucketOK
<1> QED BY <1>2, <1>4, <1>5, <1>6, <1>7

\* A bucket's output translations and input deltas are sent.
LEMMA SendTranslationKeeps ==
    ASSUME InitSizes, Inv, NEW p \in Party, NEW t \in Thread, SendTranslation(p, t)
    PROVE  Inv'
<1> DEFINE s == send[p][t]
           a == s.bckt
           cirs == bucket[p][a].mine
           next == Step(s, t, "bucket", "bucketed")
           more == a + NumInitThreads < NumExe
           head == <<Msg("deltas", cirs, <<>>)>>
           msgs == head \o IF next.pc = "bucketed" THEN <<Dummy>> ELSE <<>>
           s2 == [next EXCEPT !.iter = @ + BucketSize + Skip(a)]
<1>1. /\ s \in Worker0(SendPc) /\ WorkerOK(p, t, s, SendPhase(s.pc))
      /\ PipeOK(p, t, pipe[p][t], s, recv[Other(p)][t])
  BY AtThread
<1>2. /\ s.pc = "translate" /\ Put(RecvEnd(Other(p), t), msgs) /\ SetSend(p, t, s2)
      /\ UNCHANGED <<main, seed, theirs, pipe, recv, mine, their, bucket, aborted>>
  BY DEF SendTranslation, SendAt
<1>3. SendPhase(s.pc) = "fill"
  BY <1>2 DEF SendPhase
<1>4. a \in Bucket /\ OnTurn(t, a) /\ Turn(t, a) \in Nat
  BY <1>1, <1>3 DEF WorkerOK, OnTurn
<1>5. Filled(s, SendPhase(s.pc), a)
  BY <1>3, <1>4 DEF Filled, Bucket
<1>6. main[p] \in {"join", "online"} /\ cirs \in Seq(Int)
  BY <1>4, <1>5, FilledBucket
<1>7. /\ next \in Worker0(SendPc) /\ next.next = s.next /\ next.ot = s.ot /\ next.iter = s.iter
      /\ next.bckt = (IF more THEN a + NumInitThreads ELSE t)
      /\ next.pc = (IF more THEN "bucket" ELSE "bucketed")
  <2>1. "bucket" \in SendPc /\ "bucketed" \in SendPc
    BY DEF SendPc
  <2> HIDE DEF s
  <2> QED BY <2>1, <1>1, Stepped
<1> HIDE DEF next
<1>8. next.iter + BucketSize + Skip(a) \in Nat
  <2>1. /\ BucketSize \in Nat /\ NumInitThreads \in Nat \ {0} /\ s.iter \in Nat
    BY <1>1, Sizes DEF Worker0
  <2>2. (NumInitThreads - 1) * BucketSize \in Nat
    BY <2>1
  <2>3. Skip(a) \in Nat
    BY <2>2 DEF Skip
  <2> QED BY <2>1, <2>3, <1>7
<1>9. /\ s2 \in Worker0(SendPc) /\ s2.next = s.next /\ s2.ot = s.ot
      /\ s2.iter = s.iter + BucketSize + Skip(a)
      /\ s2.bckt = (IF more THEN a + NumInitThreads ELSE t)
      /\ s2.pc = (IF more THEN "bucket" ELSE "bucketed")
  <2> DEFINE i == next.iter + BucketSize + Skip(a)
  <2>1. s2 = [next EXCEPT !.iter = i] /\ i = s.iter + BucketSize + Skip(a)
    BY <1>7
  <2>2. i \in Nat
    BY <1>8
  <2> HIDE DEF i, s, more, s2
  <2>3. s2 \in Worker0(SendPc) /\ s2.iter = i
    BY <2>1, <2>2, <1>7 DEF Worker0
  <2>4. s2.next = next.next /\ s2.ot = next.ot /\ s2.bckt = next.bckt /\ s2.pc = next.pc
    BY <2>1, <2>2, <1>7 DEF Worker0
  <2> QED BY <2>1, <2>3, <2>4, <1>7
<1> HIDE DEF s2
<1> DEFINE phase2 == IF more THEN "bucket" ELSE "bucketed"
<1>10. SendPhase(s2.pc) = phase2
  BY <1>9 DEF SendPhase
<1>11. WorkerOK(p, t, s2, SendPhase(s2.pc))
  <2> HIDE DEF s
  <2>1. WorkerOK(p, t, s, "fill")
    BY <1>1, <1>3
  <2>2. WorkerOK(p, t, s2, phase2)
    BY <2>1, <1>9, WorkerFills
  <2> QED BY <2>2, <1>10
<1>12. msgs \in Seq(Message) /\ Len(msgs) = IF more THEN 1 ELSE 2
  <2>1. head \in Seq(Message) /\ Len(head) = 1
    <3>1. "deltas" \in Kinds /\ <<>> \in Seq(Int)
      BY DEF Kinds
    <3> HIDE DEF cirs
    <3> QED BY <3>1, <1>6, OneMessage
  <2> HIDE DEF head
  <2> DEFINE d == <<Dummy>>
  <2>2. d \in Seq(Message) /\ Len(d) = 1
    BY Dummies
  <2> HIDE DEF d
  <2>3. head \o d \in Seq(Message) /\ Len(head \o d) = 2
    <3>1. head \o d \in Seq(Message)
      BY ONLY <2>1, <2>2
    <3>2. Len(head \o d) = Len(head) + Len(d)
      BY ONLY <2>1, <2>2
    <3> QED BY <2>1, <2>2, <3>1, <3>2
  <2>4. head \o <<>> = head
    BY <2>1
  <2>5. next.pc = "bucketed" <=> ~more
    BY <1>7
  <2> QED BY <2>1, <2>3, <2>4, <2>5 DEF d
<1> HIDE DEF msgs
<1>13. LET o == Len(Opened(seed[Other(p)], t)) IN
                /\ Sent(t, o, s2) = Sent(t, o, s) + Len(msgs)
                /\ \A n \in 1..Len(msgs) : Expected(Other(p), t, seed[Other(p)], seed[p],
                                                    Sent(t, o, s) + n, msgs[n])
  <2> DEFINE o == Len(Opened(seed[Other(p)], t))
             k == Size(t)
             T == Turns(t)
             j == Turn(t, a)
  <2>1. o \in Nat /\ k \in Nat /\ T \in Nat /\ j \in Nat
    BY <1>4, AtThread, WireCounts, ThreadFacts, Turning
  <2>2. /\ j < T /\ (more => Turn(t, a + NumInitThreads) = j + 1) /\ (~more => j + 1 = T)
    <3>1. NumInitThreads \in Nat /\ NumExe \in Nat /\ a \in Nat
      BY <1>4, Sizes DEF Bucket
    <3>2. ~more => a + NumInitThreads >= NumExe
      BY <3>1
    <3> HIDE DEF s, a
    <3> QED BY <1>4, <3>2, Turning
  <2>3. Sent(t, o, s) = 2 * k + o + 4 + j
    BY <1>2 DEF Sent
  <2>4. Sent(t, o, s2) = IF more THEN 2 * k + o + 4 + Turn(t, a + NumInitThreads)
                         ELSE 2 * k + o + 5 + T
    BY <1>9 DEF Sent
  <2>5. o = Len(Opened(seed[Other(p)], t)) /\ k = Size(t) /\ T = Turns(t)
    OBVIOUS
  <2> HIDE DEF o, k, T, j, s, more
  <2>6. Sent(t, o, s2) = Sent(t, o, s) + Len(msgs)
    <3>1. CASE more
      BY <2>1, <2>2, <2>3, <2>4, <3>1, <1>12
    <3>2. CASE ~more
      BY <2>1, <2>2, <2>3, <2>4, <3>2, <1>12
    <3> QED BY <3>1, <3>2
  <2>7. ASSUME NEW n \in 1..Len(msgs)
        PROVE  Expected(Other(p), t, seed[Other(p)], seed[p], Sent(t, o, s) + n, msgs[n])
    <3>1. n \in Nat /\ 1 <= n /\ n <= 2
      BY <1>12
    <3>2. /\ Sent(t, o, s) + n \in Int /\ 2 * k + 2 + o < Sent(t, o, s) + n
          /\ Sent(t, o, s) + n < 2 * k + o + 6 + T
      BY <2>1, <2>2, <2>3, <3>1
    <3> QED BY <2>1, <2>5, <3>2, Unchecked
  <2> QED BY <2>6, <2>7 DEF o
<1>14. \A b \in Bucket : OnTurn(t, b) =>
        BucketOK(p, b, bucket[p][b], s2, recv[p][t], theirs[p], seed[p])
  <2> SUFFICES ASSUME NEW b \in Bucket, OnTurn(t, b)
               PROVE  BucketOK(p, b, bucket[p][b], s2, recv[p][t], theirs[p], seed[p])
    OBVIOUS
  <2>1. BucketOK(p, b, bucket[p][b], s, recv[p][t], theirs[p], seed[p])
    BY FilledBucket
  <2> HIDE DEF s
  <2>2. WorkerOK(p, t, s, "fill")
    BY <1>1, <1>3
  <2>3. /\ Filled(s2, phase2, b) <=> Filled(s, "fill", b)
        /\ Labelled(s2, phase2, b) <=> Labelled(s, "fill", b)
    BY <2>2, <1>9, MarkDelivered
  <2> QED BY <2>1, <2>3, <1>3, <1>10 DEF BucketOK
<1>15. \A c \in Share(t) : MineOK(p, c, mine[p][c], s2, theirs[p])
  BY <1>9, SameMine DEF s
<1>16. /\ mine' = mine /\ mine' \in [Party -> [Circuit -> [ot : Int, cleared : BOOLEAN]]]
       /\ bucket' = bucket
       /\ bucket' \in [Party -> [Bucket -> [mine : Picks, their : Picks, deltas : BOOLEAN,
                                            psiSend : Int, psiRecv : Int, labels : BOOLEAN]]]
  BY <1>2, DataShape
<1>17. pipe[p][t].recv >= (s2.next - Start(t)) * Encoding[p]
  BY <1>1, <1>9 DEF PipeOK
<1>18. s.pc \notin {"unborn", "done"} /\ s2.pc # "unborn"
  BY <1>2, <1>9
<1> HIDE DEF s
<1> QED BY <1>2, <1>6, <1>9, <1>11, <1>12, <1>13, <1>14, <1>15, <1>16, <1>17, <1>18,
           SendMoves DEF s

\* Read under Matched, the OTs of a circuit that has them are there.
LEMMA OTsThere ==
    ASSUME InitSizes, Inv, NEW p \in Party, NEW c \in Circuit, c < recv[p][Owner(c)].next
    PROVE  /\ their[p][c].ot = CircuitOT(Other(p), c)
           /\ Encoding[0] = Encoding[1] =>
                /\ pipe[Other(p)][Owner(c)].send >= CircuitOT(Other(p), c) + Encoding[Other(p)]
                /\ OTSendMsgs(p, c) = CircuitOT(Other(p), c)
<1> DEFINE u == Owner(c)
           n == recv[p][u].next - Start(u)
           m == c - Start(u)
           K == Encoding[Other(p)]
<1>1. u \in Thread /\ c \in Share(u)
  BY Owners
<1>2. TheirOK(p, c, their[p][c], recv[p][u], seed[p])
  BY DEF Inv, Contents
<1>3. their[p][c].ot = CircuitOT(Other(p), c)
  BY <1>2 DEF TheirOK
<1>4. /\ PipeOK(Other(p), u, pipe[Other(p)][u], send[Other(p)][u], recv[p][u])
      /\ Other(p) \in Party /\ recv[p][u].next \in Nat
  BY <1>1, AtThread DEF Worker0
<1>5. c \in Nat /\ Start(u) \in Nat /\ Start(u) <= c
  BY <1>1, ThreadFacts
<1>6. m \in Nat /\ n \in Nat /\ m + 1 <= n
  BY <1>4, <1>5
<1>7. (m + 1) * K <= n * K /\ (m + 1) * K = m * K + K /\ m * K \in Nat /\ n * K \in Nat /\ K \in Nat
  <2> HIDE DEF n, m
  <2>1. m + 1 \in Nat
    BY <1>6
  <2> QED BY <2>1, <1>1, <1>4, <1>6, OTFacts
<1>8. CircuitOT(Other(p), c) = m * K
  BY DEF CircuitOT
<1>9. ASSUME Encoding[0] = Encoding[1]
      PROVE  pipe[Other(p)][u].send >= CircuitOT(Other(p), c) + K
  <2>1. pipe[Other(p)][u].send >= n * K /\ pipe[Other(p)][u].send \in Int
    <3>1. pipe[Other(p)][u].send \in 0..NumOTs(Other(p)) /\ pipe[Other(p)][u].send >= n * K
      BY <1>4, <1>9 DEF PipeOK
    <3>2. NumOTs(Other(p)) \in Nat
      BY <1>4, Sizes
    <3> QED BY <3>1, <3>2
  <2> HIDE DEF n, m, K
  <2> QED BY <2>1, <1>7, <1>8
<1> QED BY <1>3, <1>9 DEF OTSendMsgs

\* A bucket's k-probe input labels are sent.
LEMMA SendKProbeKeeps ==
    ASSUME InitSizes, Inv, NEW p \in Party, NEW t \in Thread, SendKProbe(p, t)
    PROVE  Inv'
<1> DEFINE s == send[p][t]
           a == s.bckt
           k == bucket[p][a]
           read == [n \in 1..BucketSize |-> OTSendMsgs(p, k.their[n])]
           more == a + NumInitThreads < NumExe
           msgs == <<Msg("labels", k.mine, read)>>
           s2 == Step(s, t, "kprobe", "done")
<1>1. /\ s \in Worker0(SendPc) /\ WorkerOK(p, t, s, SendPhase(s.pc))
      /\ PipeOK(p, t, pipe[p][t], s, recv[Other(p)][t])
      /\ seed[p] \in Seeds /\ Other(p) \in Party
  BY AtThread
<1>2. /\ s.pc = "kprobe" /\ k.deltas /\ Put(RecvEnd(Other(p), t), msgs) /\ SetSend(p, t, s2)
      /\ UNCHANGED <<main, seed, theirs, pipe, recv, mine, their, bucket, aborted>>
  BY DEF SendKProbe, SendAt
<1>3. SendPhase(s.pc) = "kprobe"
  BY <1>2 DEF SendPhase
<1>4. a \in Bucket /\ OnTurn(t, a) /\ Turn(t, a) \in Nat
  BY <1>1, <1>3 DEF WorkerOK, OnTurn
<1>5. Filled(s, SendPhase(s.pc), a)
  BY <1>3 DEF Filled, Late
<1>6. /\ main[p] \in {"join", "online"}
      /\ k.mine = Content(seed[Other(p)], a) /\ k.mine \in Seq(Int)
      /\ k.their = Content(seed[p], a) /\ k.their \in [1..BucketSize -> Circuit]
  <2>1. Filled(send[p][t], SendPhase(send[p][t].pc), a)
    BY <1>5
  <2>2. bucket[p][a].deltas
    BY <1>2
  <2> HIDE DEF a
  <2> QED BY <2>1, <2>2, <1>4, FilledBucket
<1>7. ASSUME NEW n \in 1..BucketSize
      PROVE  /\ OTSendMsgs(p, k.their[n]) \in Int
             /\ Matched => OTSendMsgs(p, k.their[n]) = CircuitOT(Other(p), Content(seed[p], a)[n])
  <2> DEFINE c == Content(seed[p], a)[n]
  <2>1. c \in Circuit /\ k.their[n] = c
    BY <1>6
  <2>2. c < recv[p][Owner(c)].next
    BY <1>2, <1>4 DEF Inv, DeltasLate
  <2> HIDE DEF c
  <2>3. Encoding[0] = Encoding[1] => OTSendMsgs(p, c) = CircuitOT(Other(p), c)
    BY <2>1, <2>2, OTsThere
  <2>4. OTSendMsgs(p, c) \in Int
    <3>1. their[p][c].ot \in Int
      BY <2>1, DataShape
    <3> QED BY <3>1 DEF OTSendMsgs, Unset
  <2>5. Matched => OTSendMsgs(p, c) = CircuitOT(Other(p), c)
    BY <2>3 DEF Matched
  <2> QED BY <2>1, <2>4, <2>5 DEF c
<1>8. /\ read \in Seq(Int)
      /\ Matched => read = [n \in 1..BucketSize |-> CircuitOT(Other(p), Content(seed[p], a)[n])]
  <2>1. read \in [1..BucketSize -> Int]
    BY <1>7
  <2>2. BucketSize \in Nat
    BY Sizes
  <2>3. Matched => read = [n \in 1..BucketSize |-> CircuitOT(Other(p), Content(seed[p], a)[n])]
    BY <1>7
  <2> HIDE DEF read
  <2> QED BY <2>1, <2>2, <2>3
<1> HIDE DEF read
<1>9. /\ msgs \in Seq(Message) /\ Len(msgs) = 1
      /\ msgs[1].cirs = k.mine /\ msgs[1].ots = read
  <2>1. "labels" \in Kinds
    BY DEF Kinds
  <2>2. k.mine \in Seq(Int)
    BY <1>6
  <2> HIDE DEF k
  <2>3. /\ msgs \in Seq(Message) /\ Len(msgs) = 1 /\ msgs[1] = Msg("labels", k.mine, read)
    BY <2>1, <2>2, <1>8, OneMessage
  <2> HIDE DEF msgs
  <2> QED BY <2>3 DEF Msg
<1> HIDE DEF msgs
<1>10. /\ s2 \in Worker0(SendPc) /\ s2.next = s.next /\ s2.ot = s.ot /\ s2.iter = s.iter
       /\ s2.bckt = (IF more THEN a + NumInitThreads ELSE t)
       /\ s2.pc = (IF more THEN "kprobe" ELSE "done")
  <2>1. "kprobe" \in SendPc /\ "done" \in SendPc
    BY DEF SendPc
  <2> HIDE DEF s
  <2> QED BY <2>1, <1>1, Stepped
<1> HIDE DEF s2
<1> DEFINE phase2 == IF more THEN "kprobe" ELSE "done"
<1>11. SendPhase(s2.pc) = phase2
  BY <1>10 DEF SendPhase
<1>12. WorkerOK(p, t, s2, SendPhase(s2.pc))
  <2> HIDE DEF s
  <2>1. WorkerOK(p, t, s, "kprobe")
    BY <1>1, <1>3
  <2>2. WorkerOK(p, t, s2, phase2)
    BY <2>1, <1>10, WorkerProbes
  <2> QED BY <2>2, <1>11
<1>13. LET o == Len(Opened(seed[Other(p)], t)) IN
                /\ Sent(t, o, s2) = Sent(t, o, s) + Len(msgs)
                /\ \A n \in 1..Len(msgs) : Expected(Other(p), t, seed[Other(p)], seed[p],
                                                    Sent(t, o, s) + n, msgs[n])
  <2> DEFINE o == Len(Opened(seed[Other(p)], t))
             z == Size(t)
             T == Turns(t)
             j == Turn(t, a)
  <2>1. o \in Nat /\ z \in Nat /\ T \in Nat /\ j \in Nat
    BY <1>4, AtThread, WireCounts, ThreadFacts, Turning
  <2>2. (more => Turn(t, a + NumInitThreads) = j + 1) /\ (~more => j + 1 = T)
    <3>1. NumInitThreads \in Nat /\ NumExe \in Nat /\ a \in Nat
      BY <1>4, Sizes DEF Bucket
    <3>2. ~more => a + NumInitThreads >= NumExe
      BY <3>1
    <3> HIDE DEF s, a
    <3> QED BY <1>4, <3>2, Turning
  <2>3. Sent(t, o, s) = 2 * z + o + 5 + T + j
    BY <1>2 DEF Sent
  <2>4. Sent(t, o, s2) = IF more THEN 2 * z + o + 5 + T + Turn(t, a + NumInitThreads)
                         ELSE 2 * z + o + 5 + 2 * T
    BY <1>10 DEF Sent
  <2>5. Expected(Other(p), t, seed[Other(p)], seed[p], 2 * z + o + 6 + T + j, msgs[1])
    <3> HIDE DEF s, a
    <3>1. \A n \in 1..o : 2 * z + o + 6 + T + j # 2 * z + 2 + n
      BY <2>1
    <3>2. ASSUME NEW b \in Bucket, OnTurn(t, b), 2 * z + o + 6 + T + j = 2 * z + o + 6 + T + Turn(t, b)
          PROVE  b = a
      <4>1. Turn(t, b) = Turn(t, a)
        BY <2>1, <3>2 DEF OnTurn
      <4> QED BY <3>2, <4>1, <1>4 DEF OnTurn
    <3>3. /\ msgs[1].cirs = Content(seed[Other(p)], a)
          /\ Matched => msgs[1].ots = [n \in 1..BucketSize |->
                                        CircuitOT(Other(p), Content(seed[p], a)[n])]
      BY <1>6, <1>8, <1>9
    <3> HIDE DEF j
    <3> QED BY <3>1, <3>2, <3>3 DEF Expected
  <2> HIDE DEF o, z, T, j, s, a, more
  <2>6. Sent(t, o, s2) = Sent(t, o, s) + Len(msgs)
    <3>0. Len(msgs) = 1
      BY <1>9
    <3>1. CASE more
      BY ONLY <2>1, <2>2, <2>3, <2>4, <3>1, <3>0
    <3>2. CASE ~more
      BY ONLY <2>1, <2>2, <2>3, <2>4, <3>2, <3>0
    <3> QED BY <3>1, <3>2
  <2>7. ASSUME NEW n \in 1..Len(msgs)
        PROVE  Expected(Other(p), t, seed[Other(p)], seed[p], Sent(t, o, s) + n, msgs[n])
    <3>1. n = 1
      BY <1>9
    <3>2. Sent(t, o, s) + n = 2 * z + o + 6 + T + j
      BY <2>1, <2>3, <3>1
    <3> QED BY <2>5, <3>1, <3>2
  <2> QED BY <2>6, <2>7 DEF o
<1>14. \A b \in Bucket : OnTurn(t, b) =>
        BucketOK(p, b, bucket[p][b], s2, recv[p][t], theirs[p], seed[p])
  <2> SUFFICES ASSUME NEW b \in Bucket, OnTurn(t, b)
               PROVE  BucketOK(p, b, bucket[p][b], s2, recv[p][t], theirs[p], seed[p])
    OBVIOUS
  <2>1. BucketOK(p, b, bucket[p][b], s, recv[p][t], theirs[p], seed[p])
    BY FilledBucket
  <2> HIDE DEF s
  <2>2. WorkerOK(p, t, s, "kprobe")
    BY <1>1, <1>3
  <2>3. /\ Filled(s2, phase2, b) <=> Filled(s, "kprobe", b)
        /\ Labelled(s2, phase2, b) <=> Labelled(s, "kprobe", b) \/ b = a
    BY <2>2, <1>10, MarkLabelled
  <2>4. b = a => bucket[p][b].deltas
    BY <1>2
  <2> QED BY <2>1, <2>3, <2>4, <1>3, <1>11 DEF BucketOK
<1>15. \A c \in Share(t) : MineOK(p, c, mine[p][c], s2, theirs[p])
  BY <1>10, SameMine DEF s
<1>16. /\ mine' = mine /\ mine' \in [Party -> [Circuit -> [ot : Int, cleared : BOOLEAN]]]
       /\ bucket' = bucket
       /\ bucket' \in [Party -> [Bucket -> [mine : Picks, their : Picks, deltas : BOOLEAN,
                                            psiSend : Int, psiRecv : Int, labels : BOOLEAN]]]
  BY <1>2, DataShape
<1>17. pipe[p][t].recv >= (s2.next - Start(t)) * Encoding[p]
  BY <1>1, <1>10 DEF PipeOK
<1>18. s.pc \notin {"unborn", "done"} /\ s2.pc # "unborn"
  BY <1>2, <1>10
<1> HIDE DEF s, k
<1> QED BY <1>2, <1>6, <1>9, <1>10, <1>12, <1>13, <1>14, <1>15, <1>16, <1>17, <1>18,
           SendMoves DEF s

-----------------------------------------------------------------------------
(* The steps of a recv thread. *)

TheirRecord == [received : BOOLEAN, ot : Int, checked : BOOLEAN]

\* A circuit after the receive loop has passed it.
LEMMA Receiving ==
    ASSUME NEW m \in TheirRecord, NEW h \in BOOLEAN
    PROVE  LET v == [m EXCEPT !.received = @ \/ h] IN
           /\ v \in TheirRecord /\ v.ot = m.ot /\ v.checked = m.checked
           /\ v.received <=> m.received \/ h
           /\ ~h => v = m
<1> DEFINE v == [m EXCEPT !.received = @ \/ h]
<1>1. v \in TheirRecord /\ v.ot = m.ot /\ v.checked = m.checked
  BY DEF TheirRecord
<1>2. v.received <=> m.received \/ h
  BY DEF TheirRecord
<1>3. ~h => v = m
  BY DEF TheirRecord
<1> QED BY <1>1, <1>2, <1>3

\* A circuit after the check of the opened ones has passed it.
LEMMA Checking ==
    ASSUME NEW m \in TheirRecord, NEW h \in BOOLEAN
    PROVE  LET v == [m EXCEPT !.checked = @ \/ h] IN
           /\ v \in TheirRecord /\ v.ot = m.ot /\ v.received = m.received
           /\ v.checked <=> m.checked \/ h
           /\ ~h => v = m
<1> DEFINE v == [m EXCEPT !.checked = @ \/ h]
<1>1. v \in TheirRecord /\ v.ot = m.ot /\ v.received = m.received
  BY DEF TheirRecord
<1>2. v.checked <=> m.checked \/ h
  BY DEF TheirRecord
<1>3. ~h => v = m
  BY DEF TheirRecord
<1> QED BY <1>1, <1>2, <1>3

\* Replacing the peer's circuits of one party.
LEMMA TheirUpdate ==
    ASSUME Inv, NEW p \in Party, NEW f \in [Circuit -> TheirRecord],
           their' = [their EXCEPT ![p] = f]
    PROVE  /\ their' \in [Party -> [Circuit -> TheirRecord]]
           /\ their'[p] = f
           /\ \A q \in Party : q # p => their'[q] = their[q]
<1>1. their \in [Party -> [Circuit -> TheirRecord]]
  BY DataShape DEF TheirRecord
<1> QED BY <1>1

\* The garbled circuits of the range are received.
LEMMA RecvCircuitsKeeps ==
    ASSUME InitSizes, Inv, NEW p \in Party, NEW t \in Thread, RecvCircuits(p, t)
    PROVE  Inv'
<1> DEFINE r == recv[p][t]
           n == Size(t) + 1
           now(c) == [their[p][c] EXCEPT !.received = @ \/ c \in Share(t)]
           f == [c \in Circuit |-> now(c)]
           r2 == [r EXCEPT !.pc = "initOT"]
<1>1. r \in Worker0(RecvPc) /\ WorkerOK(Other(p), t, r, RecvPhase(r.pc))
  BY AtThread
<1>2. /\ r.pc = "circuits" /\ n <= Len(net[RecvEnd(p, t)]) /\ Drop(RecvEnd(p, t), n)
      /\ SetRecv(p, t, r2)
      /\ UNCHANGED <<main, seed, theirs, pipe, send, mine, aborted>> /\ bucket' = bucket
  <2>1. n \in Nat /\ Len(net[RecvEnd(p, t)]) \in Nat
    BY ThreadFacts, WireCounts
  <2>2. Arrived(RecvEnd(p, t), n) /\ Drop(RecvEnd(p, t), n)
    BY ShareSize DEF RecvCircuits
  <2>3. n <= Len(net[RecvEnd(p, t)])
    BY <2>1, <2>2 DEF Arrived
  <2> QED BY <2>2, <2>3 DEF RecvCircuits, RecvAt
<1>3. their' = [their EXCEPT ![p] = f]
  BY DEF RecvCircuits
<1>4. \A c \in Circuit : their[p][c] \in TheirRecord
  BY DataShape DEF TheirRecord
<1>5. ASSUME NEW c \in Circuit
      PROVE  /\ now(c) \in TheirRecord /\ now(c).ot = their[p][c].ot
             /\ now(c).received <=> their[p][c].received \/ c \in Share(t)
             /\ c \notin Share(t) => now(c) = their[p][c]
  <2> DEFINE h == c \in Share(t)
             m == their[p][c]
  <2>1. h \in BOOLEAN /\ m \in TheirRecord /\ now(c) = [m EXCEPT !.received = @ \/ h]
    BY <1>4
  <2> HIDE DEF h, m, now
  <2> DEFINE v == [m EXCEPT !.received = @ \/ h]
  <2>2. /\ v \in TheirRecord /\ v.ot = m.ot
        /\ v.received <=> m.received \/ h
        /\ ~h => v = m
    BY <2>1, Receiving
  <2>3. now(c) = v
    BY <2>1
  <2> HIDE DEF v
  <2> QED BY <2>2, <2>3 DEF h, m
<1> HIDE DEF now
<1>6. f \in [Circuit -> TheirRecord] /\ \A c \in Circuit : f[c] = now(c)
  BY <1>5
<1> HIDE DEF f
<1>7. /\ their' \in [Party -> [Circuit -> TheirRecord]]
      /\ \A q \in Party : q # p => their'[q] = their[q]
      /\ \A c \in Circuit : their'[p][c] = now(c)
  BY <1>3, <1>6, TheirUpdate
<1>8. r2.pc = "initOT" /\ r2.next = r.next
  BY <1>1 DEF Worker0
<1>9. \A c \in Circuit : c \notin Share(t) => their'[p][c] = their[p][c]
  BY <1>5, <1>7
<1>10. RecvPhase(r.pc) = "start" /\ RecvPhase("initOT") = "initOT"
  BY <1>2 DEF RecvPhase
<1>11. \A c \in Share(t) : TheirOK(p, c, their'[p][c], r2, seed[p])
  <2> SUFFICES ASSUME NEW c \in Share(t) PROVE TheirOK(p, c, their'[p][c], r2, seed[p])
    OBVIOUS
  <2>1. c \in Circuit /\ Owner(c) = t
    BY Owners
  <2>2. TheirOK(p, c, their[p][c], r, seed[p])
    BY <2>1 DEF Inv, Contents
  <2>3. their'[p][c].ot = their[p][c].ot /\ their'[p][c].received
    BY <2>1, <1>5, <1>7
  <2> HIDE DEF r, r2
  <2> QED BY <2>2, <2>3, <1>8, <1>10 DEF TheirOK, Early
<1>12. \A o \in Nat : o = Len(Opened(seed[p], t)) => Read(t, o, r2) = Read(t, o, r) + n
  <2>1. r.next = Start(t)
    BY <1>1, <1>10 DEF WorkerOK
  <2>2. Size(t) \in Nat /\ Start(t) \in Nat
    BY ThreadFacts
  <2> HIDE DEF r, r2
  <2> QED BY <2>1, <2>2, <1>2, <1>8 DEF Read
<1>13. n \in Nat /\ "initOT" \in RecvPc /\ r.pc \notin {"unborn", "done"}
  BY <1>2, ThreadFacts DEF RecvPc
<1> HIDE DEF n
<1> QED BY <1>2, <1>7, <1>9, <1>10, <1>11, <1>12, <1>13, RecvGoesOn DEF TheirRecord

\* The dummy after the circuits' commitments is taken.
LEMMA RecvDummyKeeps ==
    ASSUME InitSizes, Inv, NEW p \in Party, NEW t \in Thread, RecvDummy(p, t)
    PROVE  Inv'
<1> DEFINE r == recv[p][t]
           pc == AfterDummy[r.pc]
           r2 == [r EXCEPT !.pc = pc]
<1>1. r \in Worker0(RecvPc) /\ WorkerOK(Other(p), t, r, RecvPhase(r.pc))
  BY AtThread
<1>2. /\ r.pc \in DOMAIN AfterDummy /\ SetRecv(p, t, r2)
      /\ 1 <= Len(net[RecvEnd(p, t)]) /\ Drop(RecvEnd(p, t), 1)
      /\ UNCHANGED <<main, seed, theirs, pipe, send, mine, their, bucket, aborted>>
  <2>1. r.pc \in DOMAIN AfterDummy /\ Arrived(RecvEnd(p, t), 1) /\ Drop(RecvEnd(p, t), 1)
    BY DEF RecvDummy
  <2>2. SetRecv(p, t, [r EXCEPT !.pc = AfterDummy[@]])
    BY DEF RecvDummy
  <2>3. UNCHANGED <<main, seed, theirs, pipe, send, mine, their, bucket, aborted>>
    BY DEF RecvDummy
  <2>4. Len(net[RecvEnd(p, t)]) \in Nat
    BY WireCounts
  <2> QED BY <2>1, <2>2, <2>3, <2>4 DEF Arrived
<1>3. \/ r.pc = "committed" /\ pc = "open"
      \/ r.pc = "bucketed" /\ pc = "kprobe"
  BY <1>2 DEF AfterDummy
<1> HIDE DEF pc
<1>4. r2.pc = pc /\ r2.next = r.next /\ r2.bckt = r.bckt
  BY <1>1 DEF Worker0
<1>5. LET phase == RecvPhase(r.pc)  phase2 == RecvPhase(pc) IN
           \/ phase2 = phase
           \/ phase = "start" /\ phase2 = "initOT"
           \/ phase = "open" /\ phase2 = "bucket"
           \/ phase = "bucketed" /\ phase2 = "kprobe"
  BY <1>3 DEF RecvPhase
<1>6. ASSUME NEW o \in Nat PROVE Read(t, o, r2) = Read(t, o, r) + 1
  <2>1. r.pc = "bucketed" => r.bckt = t
    BY <1>1 DEF WorkerOK, RecvPhase
  <2>2. Turn(t, t) = 0 /\ Turns(t) \in Nat /\ Size(t) \in Nat
    BY ThreadFacts, Turning
  <2> HIDE DEF r, r2
  <2> QED BY <2>1, <2>2, <1>3, <1>4 DEF Read
<1>7. \A c \in Share(t) : TheirOK(p, c, their'[p][c], r2, seed[p])
  <2>1. /\ r.pc \notin {"unborn", "circuits"} /\ r2.pc \notin {"unborn", "circuits"}
        /\ RecvPhase(r2.pc) \notin Early => RecvPhase(r.pc) \notin Early
    BY <1>3, <1>4 DEF RecvPhase, Early
  <2>2. \A c \in Share(t) : TheirOK(p, c, their[p][c], r2, seed[p])
    BY <2>1, <1>4, SameTheir
  <2> QED BY <2>2, <1>2
<1>8. pc \in RecvPc /\ r.pc \notin {"unborn", "done"} /\ pc # "unborn" /\ pc # "noproof"
  BY <1>3 DEF RecvPc
<1>9. /\ their' = their
      /\ their' \in [Party -> [Circuit -> [received : BOOLEAN, ot : Int, checked : BOOLEAN]]]
  BY <1>2, DataShape
<1> QED BY <1>2, <1>5, <1>6, <1>7, <1>8, <1>9, RecvGoesOn

\* open finds the seeds and sums that the circuits were made with; what it opens has
\* its OTs, if both sides take the same number of them.
LEMMA OpenedMessages ==
    ASSUME InitSizes, Inv, NEW p \in Party, NEW t \in Thread, recv[p][t].pc = "open",
           NEW o, o = Len(Opened(seed[p], t)), o <= Len(net[RecvEnd(p, t)]),
           NEW m \in 1..o
    PROVE  /\ net[RecvEnd(p, t)][m].cirs = <<Opened(seed[p], t)[m]>>
           /\ Matched => net[RecvEnd(p, t)][m].ots = <<OTSendMsgs(p, Opened(seed[p], t)[m])>>
<1> DEFINE r == recv[p][t]
           w == net[RecvEnd(p, t)]
           c == Opened(seed[p], t)[m]
<1>1. /\ WireOK(p, t, w, send[Other(p)][t], r, seed[p], seed[Other(p)])
      /\ WorkerOK(Other(p), t, r, RecvPhase(r.pc)) /\ seed[p] \in Seeds
  BY AtThread
<1>2. o \in Nat /\ Len(w) \in Nat
  BY WireCounts
<1>3. m \in 1..Len(w)
  BY <1>2
<1>4. Read(t, o, r) = 2 * Size(t) + 2
  BY DEF Read
<1>5. Expected(p, t, seed[p], seed[Other(p)], 2 * Size(t) + 2 + m, w[m])
  <2> HIDE DEF w, r
  <2>1. Expected(p, t, seed[p], seed[Other(p)], Read(t, o, r) + m, w[m])
    BY <1>1, <1>3 DEF WireOK
  <2> QED BY <2>1, <1>4
<1>6. w[m].cirs = <<c>> /\ w[m].ots = <<CircuitOT(Other(p), c)>>
  <2> HIDE DEF w, c
  <2>1. \A n \in 1..o : 2 * Size(t) + 2 + m = 2 * Size(t) + 2 + n =>
            /\ w[m].cirs = <<Opened(seed[p], t)[n]>>
            /\ w[m].ots = <<CircuitOT(Other(p), Opened(seed[p], t)[n])>>
    BY <1>5 DEF Expected
  <2> QED BY <2>1 DEF c
<1>7. c \in Share(t)
  BY <1>1, OpenedFacts
<1>8. c \in Circuit /\ Owner(c) = t /\ c < Start(t+1)
  <2> HIDE DEF c
  <2> QED BY <1>7, Owners, ThreadFacts
<1>9. r.next = Start(t+1)
  BY <1>1 DEF WorkerOK, RecvPhase
<1>10. Matched => OTSendMsgs(p, c) = CircuitOT(Other(p), c)
  <2> HIDE DEF c
  <2>1. c < recv[p][Owner(c)].next
    BY <1>8, <1>9
  <2> QED BY <2>1, <1>8, OTsThere DEF Matched
<1> HIDE DEF w, c
<1> QED BY <1>6, <1>10 DEF w, c

\* The opened circuits are compared with what was received.
LEMMA RecvOpenKeeps ==
    ASSUME InitSizes, Inv, NEW p \in Party, NEW t \in Thread, RecvOpen(p, t)
    PROVE  Inv'
<1> DEFINE r == recv[p][t]
           w == net[RecvEnd(p, t)]
           opened == Opened(seed[p], t)
           o == Len(opened)
           n == o + 1
           Regarbled == /\ o > 0 => BlockBuff(p) >= Encoding[p]
                        /\ \A m \in 1..o : w[m].cirs = <<opened[m]>>
           Sums == \A m \in 1..o : w[m].ots = <<OTSendMsgs(p, opened[m])>>
           pc == IF Sums THEN "proof" ELSE "noproof"
           r2 == [r EXCEPT !.pc = pc]
<1>1. r \in Worker0(RecvPc) /\ WorkerOK(Other(p), t, r, RecvPhase(r.pc))
  BY AtThread
<1>2. /\ r.pc = "open" /\ Arrived(RecvEnd(p, t), n)
      /\ \/ /\ Regarbled /\ Drop(RecvEnd(p, t), n) /\ SetRecv(p, t, r2)
            /\ UNCHANGED <<main, seed, theirs, pipe, send, mine, their, bucket, aborted>>
         \/ ~Regarbled /\ Abort(p)
  BY DEF RecvOpen, RecvAt
<1>3. o \in Nat /\ n <= Len(w) /\ Len(w) \in Nat
  BY <1>2, WireCounts DEF Arrived
<1>4. \A m \in 1..o : /\ w[m].cirs = <<opened[m]>>
                      /\ Matched => w[m].ots = <<OTSendMsgs(p, opened[m])>>
  <2> HIDE DEF o
  <2>1. o = Len(Opened(seed[p], t)) /\ o <= Len(w)
    BY <1>3 DEF o
  <2> QED BY <2>1, <1>2, OpenedMessages
<1>5. Matched => Sums
  BY <1>4
<1>6. Matched => Regarbled
  <2> SUFFICES ASSUME Matched PROVE BlockBuff(p) >= Encoding[p]
    BY <1>4
  <2>1. Encoding[Other(p)] = Encoding[p] /\ Encoding[p] \in Nat /\ NonXorGates \in Nat
    <3>1. Encoding[Other(p)] = Encoding[p]
      BY DEF Matched, Party, Other
    <3> QED BY <3>1, OTFacts DEF InitSizes
  <2> QED BY <2>1 DEF BlockBuff
<1>7. ASSUME ~Regarbled, Abort(p) PROVE Inv'
  BY <1>6, <1>7, AbortKeeps
<1>8. ASSUME Drop(RecvEnd(p, t), n), SetRecv(p, t, r2),
             UNCHANGED <<main, seed, theirs, pipe, send, mine, their, bucket, aborted>>
      PROVE  Inv'
  <2>1. pc \in RecvPc /\ pc \in {"proof", "noproof"} /\ (Matched => pc # "noproof")
    BY <1>5 DEF RecvPc
  <2> HIDE DEF Sums, pc
  <2>2. r2.pc = pc /\ r2.next = r.next /\ r2.bckt = r.bckt
    BY <1>1 DEF Worker0
  <2>3. RecvPhase(r.pc) = "open" /\ RecvPhase(pc) = "open"
    BY <2>1, <1>2 DEF RecvPhase
  <2>4. \A c \in Share(t) : TheirOK(p, c, their'[p][c], r2, seed[p])
    <3>1. /\ r.pc \notin {"unborn", "circuits"} /\ r2.pc \notin {"unborn", "circuits"}
          /\ RecvPhase(r2.pc) \notin Early => RecvPhase(r.pc) \notin Early
      BY <2>1, <2>2, <2>3, <1>2 DEF Early
    <3>2. \A c \in Share(t) : TheirOK(p, c, their[p][c], r2, seed[p])
      BY <2>2, <3>1, SameTheir
    <3> QED BY <3>2, <1>8
  <2>5. \A k \in Nat : k = Len(Opened(seed[p], t)) => Read(t, k, r2) = Read(t, k, r) + n
    <3>1. Size(t) \in Nat
      BY ThreadFacts
    <3>2. Read(t, o, r) = 2 * Size(t) + 2 /\ Read(t, o, r2) = 2 * Size(t) + o + 3
      BY <1>2, <2>1, <2>2 DEF Read
    <3> HIDE DEF r, r2
    <3>3. Read(t, o, r2) = Read(t, o, r) + n
      <4> HIDE DEF o
      <4> QED BY <3>1, <3>2, <1>3
    <3> QED BY <3>3
  <2>6. /\ their' = their /\ bucket' = bucket
        /\ their' \in [Party -> [Circuit -> [received : BOOLEAN, ot : Int, checked : BOOLEAN]]]
    BY <1>8, DataShape
  <2>7. n \in Nat /\ n <= Len(net[RecvEnd(p, t)]) /\ r.pc \notin {"unborn", "done"} /\ pc # "unborn"
    BY <1>2, <1>3, <2>1
  <2>8. UNCHANGED <<main, seed, theirs, pipe, send, mine, aborted>>
    BY <1>8
  <2>9. /\ \A q \in Party : q # p => their'[q] = their[q]
        /\ \A c \in Circuit : c \notin Share(t) => their'[p][c] = their[p][c]
    BY <2>6
  <2>10. Drop(RecvEnd(p, t), n) /\ SetRecv(p, t, [recv[p][t] EXCEPT !.pc = pc])
    BY <1>8
  <2>11. LET phase == RecvPhase(r.pc)  phase2 == RecvPhase(pc) IN
           \/ phase2 = phase
           \/ phase = "start" /\ phase2 = "initOT"
           \/ phase = "open" /\ phase2 = "bucket"
           \/ phase = "bucketed" /\ phase2 = "kprobe"
    BY <2>3
  <2> HIDE DEF n, w, opened, o, Regarbled
  <2> QED BY <2>1, <2>11, <2>4, <2>5, <2>6, <2>7, <2>8, <2>9, <2>10, RecvGoesOn
<1> QED BY <1>2, <1>7, <1>8

\* The proof of the OT messages is compared.
LEMMA RecvProofKeeps ==
    ASSUME InitSizes, Inv, NEW p \in Party, NEW t \in Thread, RecvProof(p, t)
    PROVE  Inv'
<1> DEFINE r == recv[p][t]
           opened == Opened(seed[p], t)
           hit(c) == \E n \in 1..Len(opened) : opened[n] = c
           now(c) == [their[p][c] EXCEPT !.checked = @ \/ hit(c)]
           f == [c \in Circuit |-> now(c)]
           r2 == [r EXCEPT !.pc = "bucket"]
<1>1. /\ r \in Worker0(RecvPc) /\ WorkerOK(Other(p), t, r, RecvPhase(r.pc)) /\ seed[p] \in Seeds
      /\ Len(net[RecvEnd(p, t)]) \in Nat
  BY AtThread, WireCounts
<1>2. /\ 1 <= Len(net[RecvEnd(p, t)])
      /\ \/ /\ r.pc = "proof" /\ Drop(RecvEnd(p, t), 1) /\ their' = [their EXCEPT ![p] = f]
            /\ SetRecv(p, t, r2)
            /\ UNCHANGED <<main, seed, theirs, pipe, send, mine, bucket, aborted>>
         \/ r.pc = "noproof" /\ Abort(p)
  BY <1>1 DEF RecvProof, RecvAt, Arrived
<1>3. ASSUME r.pc = "noproof", Abort(p) PROVE Inv'
  <2>1. ~Matched
    BY <1>3 DEF Inv, Sound
  <2> QED BY <1>3, <2>1, AbortKeeps
<1>4. ASSUME r.pc = "proof", Drop(RecvEnd(p, t), 1), their' = [their EXCEPT ![p] = f],
             SetRecv(p, t, r2),
             UNCHANGED <<main, seed, theirs, pipe, send, mine, bucket, aborted>>
      PROVE  Inv'
  <2>1. \A c \in Circuit : their[p][c] \in TheirRecord
    BY DataShape DEF TheirRecord
  <2>2. /\ \A n \in 1..Len(opened) : opened[n] \in Share(t)
        /\ \A a \in 0..NumOpened-1 : seed[p][1][a] \in Share(t) => hit(seed[p][1][a])
    BY <1>1, OpenedFacts
  <2>3. ASSUME NEW c \in Circuit
        PROVE  /\ now(c) \in TheirRecord /\ now(c).ot = their[p][c].ot
               /\ now(c).received = their[p][c].received
               /\ hit(c) => now(c).checked
               /\ c \notin Share(t) => now(c) = their[p][c]
    <3> DEFINE h == hit(c)
               m == their[p][c]
    <3>1. h \in BOOLEAN /\ m \in TheirRecord /\ now(c) = [m EXCEPT !.checked = @ \/ h]
      BY <2>1
    <3>2. c \notin Share(t) => ~h
      BY <2>2
    <3> HIDE DEF hit
    <3>3. hit(c) => h
      OBVIOUS
    <3> HIDE DEF h, m, now
    <3> DEFINE v == [m EXCEPT !.checked = @ \/ h]
    <3>4. /\ v \in TheirRecord /\ v.ot = m.ot /\ v.received = m.received
          /\ v.checked <=> m.checked \/ h
          /\ ~h => v = m
      BY <3>1, Checking
    <3>5. now(c) = v
      BY <3>1
    <3> HIDE DEF v
    <3> QED BY <3>2, <3>3, <3>4, <3>5 DEF m
  <2> HIDE DEF now
  <2>4. f \in [Circuit -> TheirRecord] /\ \A c \in Circuit : f[c] = now(c)
    BY <2>3
  <2>5. their' = [their EXCEPT ![p] = f]
    BY <1>4
  <2> HIDE DEF f
  <2>6. /\ their' \in [Party -> [Circuit -> TheirRecord]]
        /\ \A q \in Party : q # p => their'[q] = their[q]
        /\ \A c \in Circuit : their'[p][c] = now(c)
    BY <2>4, <2>5, TheirUpdate
  <2>7. r2.pc = "bucket" /\ r2.next = r.next /\ r2.bckt = r.bckt
    BY <1>1 DEF Worker0
  <2>8. \A c \in Circuit : c \notin Share(t) => their'[p][c] = their[p][c]
    BY <2>3, <2>6
  <2>9. RecvPhase(r.pc) = "open" /\ RecvPhase("bucket") = "bucket"
    BY <1>4 DEF RecvPhase
  <2>10. \A c \in Share(t) : TheirOK(p, c, their'[p][c], r2, seed[p])
    <3> SUFFICES ASSUME NEW c \in Share(t) PROVE TheirOK(p, c, their'[p][c], r2, seed[p])
      OBVIOUS
    <3>1. c \in Circuit /\ Owner(c) = t
      BY Owners
    <3>2. TheirOK(p, c, their[p][c], r, seed[p])
      BY <3>1 DEF Inv, Contents
    <3>3. /\ their'[p][c].ot = their[p][c].ot /\ their'[p][c].received = their[p][c].received
          /\ hit(c) => their'[p][c].checked
      BY <3>1, <2>3, <2>6
    <3>4. \A a \in 0..NumOpened-1 : seed[p][1][a] = c => hit(c)
      BY <2>2
    <3>5. r.pc \notin {"unborn", "circuits"} /\ r2.pc \notin {"unborn", "circuits"}
      BY <1>4, <2>7
    <3> HIDE DEF r, r2, hit
    <3> QED BY <3>2, <3>3, <3>4, <3>5, <2>7 DEF TheirOK
  <2>11. \A o \in Nat : o = Len(Opened(seed[p], t)) => Read(t, o, r2) = Read(t, o, r) + 1
    <3>1. r.bckt = t /\ Turn(t, t) = 0 /\ Size(t) \in Nat
      BY <1>1, <2>9, Turning, ThreadFacts DEF WorkerOK
    <3> HIDE DEF r, r2
    <3> QED BY <3>1, <1>4, <2>7 DEF Read
  <2>12. "bucket" \in RecvPc /\ r.pc \notin {"unborn", "done"}
    BY <1>4 DEF RecvPc
  <2>13. LET phase == RecvPhase(r.pc)  phase2 == RecvPhase("bucket") IN
           \/ phase2 = phase
           \/ phase = "start" /\ phase2 = "initOT"
           \/ phase = "open" /\ phase2 = "bucket"
           \/ phase = "bucketed" /\ phase2 = "kprobe"
    BY <2>9
  <2>14. Drop(RecvEnd(p, t), 1) /\ SetRecv(p, t, [recv[p][t] EXCEPT !.pc = "bucket"])
         /\ 1 <= Len(net[RecvEnd(p, t)]) /\ bucket' = bucket
    BY <1>2, <1>4
  <2>15. UNCHANGED <<main, seed, theirs, pipe, send, mine, aborted>>
    BY <1>4
  <2> QED BY <2>6, <2>8, <2>10, <2>11, <2>12, <2>13, <2>14, <2>15, RecvGoesOn DEF TheirRecord
<1> QED BY <1>2, <1>3, <1>4

\* A circuit's input commitments are received and its OTs set aside.
LEMMA RecvInitOTKeeps ==
    ASSUME InitSizes, Inv, NEW p \in Party, NEW t \in Thread, RecvInitOT(p, t)
    PROVE  Inv'
<1> DEFINE r == recv[p][t]
           c == r.next
           last == c + 1 \notin Share(t)
           K == Encoding[Other(p)]
           r2 == [r EXCEPT !.ot = @ + Taken(p), !.next = c + 1,
                           !.pc = IF c + 1 \in Share(t) THEN "initOT" ELSE "committed"]
           phase2 == IF c + 1 \in Share(t) THEN "initOT" ELSE "open"
<1>1. /\ r \in Worker0(RecvPc) /\ WorkerOK(Other(p), t, r, RecvPhase(r.pc)) /\ Other(p) \in Party
      /\ Len(net[RecvEnd(p, t)]) \in Nat
  BY AtThread, WireCounts
<1>2. /\ r.pc = "initOT" /\ pipe[Other(p)][t].send >= r.ot + Encoding[p]
      /\ 1 <= Len(net[RecvEnd(p, t)]) /\ Drop(RecvEnd(p, t), 1)
      /\ their' = [their EXCEPT ![p][c].ot = r.ot] /\ SetRecv(p, t, r2)
      /\ UNCHANGED <<main, seed, theirs, pipe, send, mine, bucket, aborted>>
  BY <1>1 DEF RecvInitOT, RecvAt, Arrived, Awaited
<1>3. K \in Nat /\ Size(t) \in Nat \ {0} /\ Start(t) \in Nat /\ Start(t+1) = Start(t) + Size(t)
  BY <1>1, OTFacts, ThreadFacts
<1>4. c \in Nat /\ r.ot \in Nat
  BY <1>1 DEF Worker0
<1>5. /\ r2 \in Worker0(RecvPc) /\ r2.next = c + 1 /\ r2.ot = r.ot + K
      /\ r2.bckt = r.bckt /\ r2.iter = r.iter
      /\ r2.pc = IF last THEN "committed" ELSE "initOT"
  <2> DEFINE pc2 == IF last THEN "committed" ELSE "initOT"
             ot2 == r.ot + K
             c2  == c + 1
  <2>1. r2 = [r EXCEPT !.ot = ot2, !.next = c2, !.pc = pc2]
    BY DEF Taken
  <2>2. pc2 \in RecvPc /\ ot2 \in Nat /\ c2 \in Nat
    BY <1>3, <1>4 DEF RecvPc
  <2> HIDE DEF pc2, ot2, c2, r, r2
  <2>3. r2 \in Worker0(RecvPc)
    BY <2>1, <2>2, <1>1 DEF Worker0
  <2>4. r2.next = c2 /\ r2.ot = ot2 /\ r2.bckt = r.bckt /\ r2.iter = r.iter /\ r2.pc = pc2
    BY <2>1, <1>1 DEF Worker0
  <2> QED BY <2>3, <2>4 DEF pc2, ot2, c2
<1> HIDE DEF r2
<1>6. RecvPhase(r.pc) = "initOT" /\ RecvPhase(r2.pc) = phase2
  BY <1>2, <1>5 DEF RecvPhase
<1>7. /\ WorkerOK(Other(p), t, r2, RecvPhase(r2.pc))
      /\ c \in Share(t) /\ Owner(c) = t /\ r.ot = CircuitOT(Other(p), c)
      /\ (r2.next - Start(t)) * K = r.ot + K
  <2> HIDE DEF r
  <2> QED BY <1>1, <1>5, <1>6, WorkerTakesCircuit
<1>8. /\ c \in Circuit /\ Start(t) <= c /\ c < Start(t+1) /\ (last => c + 1 = Start(t+1))
  BY <1>7, ThreadFacts
<1>9. /\ their' \in [Party -> [Circuit -> TheirRecord]]
      /\ \A q \in Party : q # p => their'[q] = their[q]
      /\ \A d \in Circuit : d # c => their'[p][d] = their[p][d]
      /\ their'[p][c].ot = r.ot /\ their'[p][c].received = their[p][c].received
  <2> HIDE DEF r, c
  <2> DEFINE x == r.ot
             m == [their[p][c] EXCEPT !.ot = x]
  <2>1. their' = [their EXCEPT ![p][c].ot = x] /\ x \in Int /\ c \in Circuit
    BY <1>2, <1>4, <1>8
  <2>2. their \in [Party -> [Circuit -> TheirRecord]]
    BY DataShape DEF TheirRecord
  <2> HIDE DEF x
  <2>3. their' = [their EXCEPT ![p][c] = m]
    BY ONLY <2>1, <2>2, p \in Party
  <2>4. their[p][c] \in TheirRecord
    BY ONLY <2>1, <2>2, p \in Party
  <2>5. m \in TheirRecord /\ m.ot = x /\ m.received = their[p][c].received
    BY ONLY <2>1, <2>4 DEF TheirRecord
  <2> HIDE DEF m
  <2>6. their' \in [Party -> [Circuit -> TheirRecord]]
    BY ONLY <2>1, <2>2, <2>3, <2>5, p \in Party
  <2>7. /\ \A q \in Party : q # p => their'[q] = their[q]
        /\ \A d \in Circuit : d # c => their'[p][d] = their[p][d]
        /\ their'[p][c] = m
    BY ONLY <2>1, <2>2, <2>3, p \in Party
  <2> QED BY <2>5, <2>6, <2>7 DEF x
<1>10. \A d \in Share(t) : TheirOK(p, d, their'[p][d], r2, seed[p])
  <2> SUFFICES ASSUME NEW d \in Share(t) PROVE TheirOK(p, d, their'[p][d], r2, seed[p])
    OBVIOUS
  <2>1. d \in Circuit /\ Owner(d) = t /\ d \in Nat
    BY Owners, ThreadFacts
  <2>2. TheirOK(p, d, their[p][d], r, seed[p])
    BY <2>1 DEF Inv, Contents
  <2>3. /\ r.pc \notin {"unborn", "circuits"} /\ r2.pc \notin {"unborn", "circuits"}
        /\ RecvPhase(r2.pc) \in Early
    BY <1>2, <1>5, <1>6 DEF Early
  <2> HIDE DEF r, c
  <2>4. CASE d = c
    BY <2>2, <2>3, <2>4, <1>4, <1>5, <1>7, <1>9 DEF TheirOK
  <2>5. CASE d # c
    <3>1. d < r2.next <=> d < r.next
      BY <2>1, <2>5, <1>4, <1>5 DEF c
    <3> QED BY <2>1, <2>2, <2>3, <2>5, <3>1, <1>9 DEF TheirOK
  <2> QED BY <2>4, <2>5
<1>11. \A b \in Bucket : OnTurn(t, b) =>
        BucketOK(p, b, bucket[p][b], send[p][t], r2, theirs[p], seed[p])
  BY <1>5, <1>6, RecvMarks
<1>12. LET o == Len(Opened(seed[p], t)) IN Read(t, o, r2) = Read(t, o, r) + 1
  <2> DEFINE o == Len(Opened(seed[p], t))
             k == Size(t)
  <2>1. Read(t, o, r) = k + 1 + (c - Start(t))
    BY <1>2 DEF Read
  <2>2. Read(t, o, r2) = IF last THEN 2 * k + 1 ELSE k + 1 + ((c + 1) - Start(t))
    BY <1>5 DEF Read
  <2> HIDE DEF o, r, c
  <2>3. Read(t, o, r2) = Read(t, o, r) + 1
    <3>1. CASE last
      <4>1. c + 1 = Start(t) + k
        BY <3>1, <1>3, <1>8
      <4> QED BY <2>1, <2>2, <3>1, <4>1, <1>3, <1>4
    <3>2. CASE ~last
      BY <2>1, <2>2, <3>2, <1>3, <1>4
    <3> QED BY <3>1, <3>2
  <2> QED BY <2>3 DEF o
<1>13. Encoding[0] = Encoding[1] => pipe[Other(p)][t].send >= (r2.next - Start(t)) * K
  <2> SUFFICES ASSUME Encoding[0] = Encoding[1] PROVE pipe[Other(p)][t].send >= r.ot + K
    BY <1>7
  <2>1. Encoding[p] = K
    BY DEF Party, Other
  <2> QED BY <2>1, <1>2
<1>14. /\ bucket' \in [Party -> [Bucket -> [mine : Picks, their : Picks, deltas : BOOLEAN,
                                            psiSend : Int, psiRecv : Int, labels : BOOLEAN]]]
       /\ bucket' = bucket
  BY <1>2, DataShape
<1>15. \A d \in Circuit : d \notin Share(t) => their'[p][d] = their[p][d]
  BY <1>7, <1>9
<1>16. /\ r.pc \notin {"unborn", "done"} /\ r2.pc # "unborn" /\ r2.pc # "noproof"
       /\ r2.next >= r.next /\ (r.next = Start(t+1) => r2.next = Start(t+1))
  BY <1>2, <1>3, <1>4, <1>5, <1>8
<1>17. their' \in [Party -> [Circuit -> [received : BOOLEAN, ot : Int, checked : BOOLEAN]]]
  BY <1>9 DEF TheirRecord
<1>18. /\ \A b \in Bucket : ~OnTurn(t, b) => bucket'[p][b] = bucket[p][b]
       /\ \A q \in Party : q # p => bucket'[q] = bucket[q]
       /\ \A b \in Bucket : OnTurn(t, b) =>
            BucketOK(p, b, bucket'[p][b], send[p][t], r2, theirs[p], seed[p])
       /\ \A b \in Bucket : ~(bucket'[p][b].deltas /\ ~bucket[p][b].deltas)
  BY <1>11, <1>14
<1>19. UNCHANGED <<main, seed, theirs, pipe, send, mine, aborted>>
  BY <1>2
<1> DEFINE n == 1
<1>20. /\ n \in Nat /\ n <= Len(net[RecvEnd(p, t)]) /\ Drop(RecvEnd(p, t), n)
       /\ LET o == Len(Opened(seed[p], t)) IN Read(t, o, r2) = Read(t, o, r) + n
       /\ SetRecv(p, t, r2)
  BY <1>2, <1>12
<1>21. Matched => r2.pc # "noproof"
  BY <1>16
<1> HIDE DEF r, c, n
<1> QED BY <1>20, <1>21, <1>5, <1>7, <1>9, <1>10, <1>13, <1>14, <1>15, <1>16, <1>17, <1>18,
           <1>19, RecvMoves DEF r

BucketRecord == [mine : Picks, their : Picks, deltas : BOOLEAN,
                 psiSend : Int, psiRecv : Int, labels : BOOLEAN]

\* One bucket gets a new record.
LEMMA BucketUpdate ==
    ASSUME Inv, NEW p \in Party, NEW a \in Bucket, NEW k \in BucketRecord,
           bucket' = [bucket EXCEPT ![p][a] = k]
    PROVE  /\ bucket' \in [Party -> [Bucket -> BucketRecord]]
           /\ bucket'[p][a] = k
           /\ \A q \in Party : q # p => bucket'[q] = bucket[q]
           /\ \A b \in Bucket : b # a => bucket'[p][b] = bucket[p][b]
<1>1. bucket \in [Party -> [Bucket -> BucketRecord]]
  BY DataShape DEF BucketRecord
<1>2. bucket' \in [Party -> [Bucket -> BucketRecord]]
  BY ONLY <1>1, p \in Party, a \in Bucket, k \in BucketRecord,
          bucket' = [bucket EXCEPT ![p][a] = k]
<1>3. /\ bucket'[p][a] = k
      /\ \A q \in Party : q # p => bucket'[q] = bucket[q]
      /\ \A b \in Bucket : b # a => bucket'[p][b] = bucket[p][b]
  BY ONLY <1>1, p \in Party, a \in Bucket, bucket' = [bucket EXCEPT ![p][a] = k]
<1> QED BY <1>2, <1>3

\* The OTs for a bucket's PSI are set aside.
LEMMA RecvBucketKeeps ==
    ASSUME InitSizes, Inv, NEW p \in Party, NEW t \in Thread, RecvBucket(p, t)
    PROVE  Inv'
<1> DEFINE r == recv[p][t]
           a == r.bckt
           x == r.ot
           r2 == [r EXCEPT !.ot = @ + PsiOTs, !.pc = "deltas"]
           k == bucket[p][a]
           k2 == [k EXCEPT !.psiSend = x]
<1>1. /\ r \in Worker0(RecvPc) /\ WorkerOK(Other(p), t, r, RecvPhase(r.pc)) /\ Other(p) \in Party
      /\ PipeOK(Other(p), t, pipe[Other(p)][t], send[Other(p)][t], r)
      /\ Len(net[RecvEnd(p, t)]) \in Nat
  BY AtThread, WireCounts
<1>2. /\ r.pc = "bucket" /\ bucket' = [bucket EXCEPT ![p][a].psiSend = x] /\ SetRecv(p, t, r2)
      /\ UNCHANGED <<main, seed, theirs, pipe, send, mine, their, net, aborted>>
  BY DEF RecvBucket, RecvAt
<1>3. RecvPhase(r.pc) = "bucket" /\ RecvPhase("deltas") = "fill"
  BY <1>2 DEF RecvPhase
<1>4. /\ r2 \in Worker0(RecvPc) /\ r2.pc = "deltas" /\ r2.next = r.next
      /\ r2.ot = r.ot + PsiOTs /\ r2.bckt = r.bckt /\ r2.iter = r.iter
  <2>1. PsiOTs \in Nat
    BY OTFacts
  <2>2. r.ot + PsiOTs \in Nat /\ "deltas" \in RecvPc
    BY <2>1, <1>1 DEF Worker0, RecvPc
  <2> QED BY <2>2, <1>1 DEF Worker0
<1> HIDE DEF r2
<1>5. /\ WorkerOK(Other(p), t, r2, "fill") /\ x = BucketOT(Other(p), a) /\ OnTurn(t, a)
      /\ a % NumInitThreads = t
  <2> HIDE DEF r
  <2> QED BY <1>1, <1>3, <1>4, WorkerTakesBucket
<1>6. a \in Bucket /\ x \in Int
  BY <1>1 DEF Worker0
<1> HIDE DEF a, x
<1>7. k \in BucketRecord
  BY <1>6, DataShape DEF BucketRecord
<1>8. bucket' = [bucket EXCEPT ![p][a] = k2]
  <2>1. bucket \in [Party -> [Bucket -> BucketRecord]]
    BY DataShape DEF BucketRecord
  <2>2. bucket' = [bucket EXCEPT ![p][a].psiSend = x]
    BY <1>2
  <2> QED BY ONLY <2>1, <2>2, <1>6, p \in Party
<1> HIDE DEF k
<1>9. /\ k2 \in BucketRecord /\ k2.psiSend = x /\ k2.mine = k.mine /\ k2.their = k.their
      /\ k2.deltas = k.deltas /\ k2.psiRecv = k.psiRecv /\ k2.labels = k.labels
  BY ONLY <1>6, <1>7 DEF BucketRecord
<1> HIDE DEF k2
<1>10. /\ bucket' \in [Party -> [Bucket -> BucketRecord]]
       /\ bucket'[p][a] = k2
       /\ \A q \in Party : q # p => bucket'[q] = bucket[q]
       /\ \A b \in Bucket : b # a => bucket'[p][b] = bucket[p][b]
  BY <1>6, <1>8, <1>9, BucketUpdate
<1>11. \A b \in Bucket : OnTurn(t, b) =>
        BucketOK(p, b, bucket'[p][b], send[p][t], r2, theirs[p], seed[p])
  <2> SUFFICES ASSUME NEW b \in Bucket, OnTurn(t, b)
               PROVE  BucketOK(p, b, bucket'[p][b], send[p][t], r2, theirs[p], seed[p])
    OBVIOUS
  <2>1. b % NumInitThreads = t
    BY BucketOwner
  <2>2. BucketOK(p, b, bucket[p][b], send[p][t], r, theirs[p], seed[p])
    BY <2>1 DEF Inv, Contents
  <2>3. /\ Filled(r2, "fill", b) <=> Filled(r, "bucket", b) \/ b = a
        /\ Delivered(r2, "fill", b) <=> Delivered(r, "bucket", b)
        /\ Labelled(r2, "fill", b) <=> Labelled(r, "bucket", b)
    BY <1>1, <1>3, <1>4, MarkFilled DEF a
  <2>4. RecvPhase(r2.pc) = "fill" /\ RecvPhase(r.pc) = "bucket"
    BY <1>3, <1>4
  <2> HIDE DEF r
  <2>5. CASE b = a
    <3>1. /\ bucket'[p][b] = k2 /\ bucket[p][b] = k
      BY <2>5, <1>10 DEF k
    <3> QED BY <2>2, <2>3, <2>4, <2>5, <3>1, <1>5, <1>9 DEF BucketOK
  <2>6. CASE b # a
    <3>1. bucket'[p][b] = bucket[p][b]
      BY <2>6, <1>10
    <3> QED BY <2>2, <2>3, <2>4, <2>6, <3>1 DEF BucketOK
  <2> QED BY <2>5, <2>6
<1>12. \A c \in Share(t) : TheirOK(p, c, their'[p][c], r2, seed[p])
  <2>1. /\ r.pc \notin {"unborn", "circuits"} /\ r2.pc \notin {"unborn", "circuits"}
        /\ RecvPhase(r.pc) \notin Early
    BY <1>2, <1>3, <1>4 DEF Early
  <2>2. \A c \in Share(t) : TheirOK(p, c, their[p][c], r2, seed[p])
    BY <2>1, <1>4, SameTheir
  <2> QED BY <2>2, <1>2
<1>13. /\ their' = their
       /\ their' \in [Party -> [Circuit -> [received : BOOLEAN, ot : Int, checked : BOOLEAN]]]
  BY <1>2, DataShape
<1> DEFINE n == 0
<1>14. /\ n \in Nat /\ n <= Len(net[RecvEnd(p, t)]) /\ net' = net /\ n = 0
       /\ LET o == Len(Opened(seed[p], t)) IN Read(t, o, r2) = Read(t, o, r) + n
       /\ SetRecv(p, t, r2)
  <2> DEFINE o == Len(Opened(seed[p], t))
  <2>1. o \in Nat /\ Read(t, o, r) \in Int
    BY WireCounts
  <2>2. Read(t, o, r2) = Read(t, o, r)
    BY <1>2, <1>4 DEF Read
  <2> HIDE DEF o, r
  <2>3. Read(t, o, r2) = Read(t, o, r) + n
    BY <2>1, <2>2
  <2> QED BY <2>3, <1>1, <1>2 DEF o, r
<1>15. Encoding[0] = Encoding[1] =>
        pipe[Other(p)][t].send >= (r2.next - Start(t)) * Encoding[Other(p)]
  BY <1>1, <1>4 DEF PipeOK
<1>16. WorkerOK(Other(p), t, r2, RecvPhase(r2.pc))
  BY <1>3, <1>4, <1>5
<1>17. /\ \A b \in Bucket : ~OnTurn(t, b) => bucket'[p][b] = bucket[p][b]
       /\ \A b \in Bucket : ~(bucket'[p][b].deltas /\ ~bucket[p][b].deltas)
       /\ \A q \in Party : q # p => their'[q] = their[q] /\ bucket'[q] = bucket[q]
       /\ \A d \in Circuit : d \notin Share(t) => their'[p][d] = their[p][d]
  BY <1>5, <1>9, <1>10, <1>13 DEF k
<1>18. /\ r.pc \notin {"unborn", "done"} /\ r2.pc # "unborn" /\ (Matched => r2.pc # "noproof")
       /\ r2.next >= r.next /\ (r.next = Start(t+1) => r2.next = Start(t+1))
  BY <1>1, <1>2, <1>4 DEF Worker0
<1>19. UNCHANGED <<main, seed, theirs, pipe, send, mine, aborted>>
  BY <1>2
<1> HIDE DEF r, n
<1> QED BY <1>4, <1>10, <1>11, <1>12, <1>13, <1>14, <1>15, <1>16, <1>17, <1>18, <1>19,
           RecvMoves DEF r, BucketRecord

\* A bucket is given the peer's circuits, translations and deltas.
LEMMA RecvDeltasKeeps ==
    ASSUME InitSizes, Inv, NEW p \in Party, NEW t \in Thread, RecvDeltas(p, t)
    PROVE  Inv'
<1> DEFINE r == recv[p][t]
           a == r.bckt
           y == Picked(seed[p], r.iter)
           next == Step(r, t, "bucket", "bucketed")
           more == a + NumInitThreads < NumExe
           r2 == [next EXCEPT !.iter = @ + BucketSize + Skip(a)]
           k == bucket[p][a]
           k2 == [k EXCEPT !.their = y, !.deltas = TRUE]
           n == 1
<1>1. /\ r \in Worker0(RecvPc) /\ WorkerOK(Other(p), t, r, RecvPhase(r.pc)) /\ Other(p) \in Party
      /\ PipeOK(Other(p), t, pipe[Other(p)][t], send[Other(p)][t], r)
      /\ Len(net[RecvEnd(p, t)]) \in Nat /\ seed[p] \in Seeds
  BY AtThread, WireCounts
<1>2. /\ r.pc = "deltas" /\ SetRecv(p, t, r2)
      /\ 1 <= Len(net[RecvEnd(p, t)]) /\ Drop(RecvEnd(p, t), 1)
      /\ \A m \in 1..BucketSize : their[p][y[m]].ot # Unset
      /\ bucket' = [bucket EXCEPT ![p][a].their = y, ![p][a].deltas = TRUE]
      /\ UNCHANGED <<main, seed, theirs, pipe, send, mine, their, aborted>>
  BY <1>1 DEF RecvDeltas, RecvAt, Arrived
<1>3. RecvPhase(r.pc) = "fill"
  BY <1>2 DEF RecvPhase
<1>4. a \in Bucket /\ OnTurn(t, a) /\ Turn(t, a) \in Nat /\ r.iter = a * BucketSize
  BY <1>1, <1>3 DEF WorkerOK, OnTurn
<1>5. y = Content(seed[p], a) /\ y \in Picks /\ y \in [1..BucketSize -> Circuit]
  <2>1. y = Content(seed[p], a)
    BY <1>4 DEF Content
  <2> HIDE DEF y, a
  <2> QED BY <2>1, <1>1, <1>4, ContentFacts DEF Picks
<1>6. /\ next \in Worker0(RecvPc) /\ next.next = r.next /\ next.ot = r.ot /\ next.iter = r.iter
      /\ next.bckt = (IF more THEN a + NumInitThreads ELSE t)
      /\ next.pc = (IF more THEN "bucket" ELSE "bucketed")
  <2>1. "bucket" \in RecvPc /\ "bucketed" \in RecvPc
    BY DEF RecvPc
  <2> HIDE DEF r
  <2> QED BY <2>1, <1>1, Stepped
<1> HIDE DEF next
<1>7. next.iter + BucketSize + Skip(a) \in Nat
  <2>1. /\ BucketSize \in Nat /\ NumInitThreads \in Nat \ {0} /\ r.iter \in Nat
    BY <1>1, Sizes DEF Worker0
  <2>2. (NumInitThreads - 1) * BucketSize \in Nat
    BY <2>1
  <2>3. Skip(a) \in Nat
    BY <2>2 DEF Skip
  <2> QED BY <2>1, <2>3, <1>6
<1>8. /\ r2 \in Worker0(RecvPc) /\ r2.next = r.next /\ r2.ot = r.ot
      /\ r2.iter = r.iter + BucketSize + Skip(a)
      /\ r2.bckt = (IF more THEN a + NumInitThreads ELSE t)
      /\ r2.pc = (IF more THEN "bucket" ELSE "bucketed")
  <2> DEFINE i == next.iter + BucketSize + Skip(a)
  <2>1. r2 = [next EXCEPT !.iter = i] /\ i = r.iter + BucketSize + Skip(a)
    BY <1>6
  <2>2. i \in Nat
    BY <1>7
  <2> HIDE DEF i, r, more, r2
  <2>3. r2 \in Worker0(RecvPc) /\ r2.iter = i
    BY <2>1, <2>2, <1>6 DEF Worker0
  <2>4. r2.next = next.next /\ r2.ot = next.ot /\ r2.bckt = next.bckt /\ r2.pc = next.pc
    BY <2>1, <2>2, <1>6 DEF Worker0
  <2> QED BY <2>1, <2>3, <2>4, <1>6
<1> HIDE DEF r2
<1> DEFINE phase2 == IF more THEN "bucket" ELSE "bucketed"
<1>9. RecvPhase(r2.pc) = phase2
  BY <1>8 DEF RecvPhase
<1>10. WorkerOK(Other(p), t, r2, RecvPhase(r2.pc))
  <2> HIDE DEF r
  <2>1. WorkerOK(Other(p), t, r, "fill")
    BY <1>1, <1>3
  <2>2. WorkerOK(Other(p), t, r2, phase2)
    BY <2>1, <1>1, <1>8, WorkerFills
  <2> QED BY <2>2, <1>9
<1>11. k \in BucketRecord
  BY <1>4, DataShape DEF BucketRecord
<1>12. bucket' = [bucket EXCEPT ![p][a] = k2]
  <2> HIDE DEF a, y
  <2>1. bucket \in [Party -> [Bucket -> BucketRecord]]
    BY DataShape DEF BucketRecord
  <2>2. bucket' = [bucket EXCEPT ![p][a].their = y, ![p][a].deltas = TRUE]
    BY <1>2
  <2> QED BY ONLY <2>1, <2>2, <1>4, p \in Party
<1> HIDE DEF k, y
<1>13. /\ k2 \in BucketRecord /\ k2.their = y /\ k2.deltas
       /\ k2.mine = k.mine /\ k2.psiSend = k.psiSend /\ k2.psiRecv = k.psiRecv
       /\ k2.labels = k.labels
  BY ONLY <1>5, <1>11 DEF BucketRecord
<1> HIDE DEF k2
<1>14. /\ bucket' \in [Party -> [Bucket -> BucketRecord]]
       /\ bucket'[p][a] = k2
       /\ \A q \in Party : q # p => bucket'[q] = bucket[q]
       /\ \A b \in Bucket : b # a => bucket'[p][b] = bucket[p][b]
  <2>1. a \in Bucket /\ k2 \in BucketRecord
    BY <1>4, <1>13
  <2> HIDE DEF a
  <2> QED BY <2>1, <1>12, BucketUpdate
<1>15. \A b \in Bucket : OnTurn(t, b) =>
        BucketOK(p, b, bucket'[p][b], send[p][t], r2, theirs[p], seed[p])
  <2> SUFFICES ASSUME NEW b \in Bucket, OnTurn(t, b)
               PROVE  BucketOK(p, b, bucket'[p][b], send[p][t], r2, theirs[p], seed[p])
    OBVIOUS
  <2>1. BucketOK(p, b, bucket[p][b], send[p][t], r, theirs[p], seed[p])
    BY FilledBucket
  <2>2. WorkerOK(Other(p), t, r, "fill")
    BY <1>1, <1>3
  <2> HIDE DEF r
  <2>3. /\ Filled(r2, phase2, b) <=> Filled(r, "fill", b)
        /\ Delivered(r2, phase2, b) <=> Delivered(r, "fill", b) \/ b = a
        /\ Labelled(r2, phase2, b) <=> Labelled(r, "fill", b)
    BY <2>2, <1>1, <1>8, MarkDelivered
  <2> HIDE DEF phase2, a
  <2>4. CASE b = a
    <3>1. /\ bucket'[p][b] = k2 /\ bucket[p][b] = k
      BY <2>4, <1>14 DEF k
    <3> QED BY <2>1, <2>3, <2>4, <3>1, <1>3, <1>5, <1>9, <1>13 DEF BucketOK
  <2>5. CASE b # a
    <3>1. bucket'[p][b] = bucket[p][b]
      BY <2>5, <1>14
    <3> QED BY <2>1, <2>3, <2>5, <3>1, <1>3, <1>9 DEF BucketOK
  <2> QED BY <2>4, <2>5
<1>16. \A b \in Bucket : bucket'[p][b].deltas /\ ~bucket[p][b].deltas =>
        \A m \in 1..BucketSize : LET c == Content(seed[p], b)[m] IN c < recv[p][Owner(c)].next
  <2> SUFFICES ASSUME NEW b \in Bucket, bucket'[p][b].deltas, ~bucket[p][b].deltas,
                      NEW m \in 1..BucketSize
               PROVE  LET c == Content(seed[p], b)[m] IN c < recv[p][Owner(c)].next
    OBVIOUS
  <2>1. b = a
    BY <1>14
  <2> DEFINE c == Content(seed[p], b)[m]
  <2>2. c \in Circuit /\ their[p][c].ot # Unset
    BY <2>1, <1>2, <1>5
  <2> HIDE DEF c
  <2>3. TheirOK(p, c, their[p][c], recv[p][Owner(c)], seed[p])
    BY <2>2 DEF Inv, Contents
  <2>4. c < recv[p][Owner(c)].next
    BY <2>2, <2>3 DEF TheirOK
  <2> QED BY <2>4 DEF c
<1>17. \A c \in Share(t) : TheirOK(p, c, their'[p][c], r2, seed[p])
  <2>1. /\ r.pc \notin {"unborn", "circuits"} /\ r2.pc \notin {"unborn", "circuits"}
        /\ RecvPhase(r.pc) \notin Early
    BY <1>2, <1>3, <1>8 DEF Early
  <2>2. \A c \in Share(t) : TheirOK(p, c, their[p][c], r2, seed[p])
    BY <2>1, <1>8, SameTheir
  <2> QED BY <2>2, <1>2
<1>18. /\ their' = their
       /\ their' \in [Party -> [Circuit -> [received : BOOLEAN, ot : Int, checked : BOOLEAN]]]
  BY <1>2, DataShape
<1>19. /\ n \in Nat /\ n <= Len(net[RecvEnd(p, t)]) /\ Drop(RecvEnd(p, t), n)
       /\ LET o == Len(Opened(seed[p], t)) IN Read(t, o, r2) = Read(t, o, r) + n
       /\ SetRecv(p, t, r2)
  <2> DEFINE o == Len(Opened(seed[p], t))
             z == Size(t)
             T == Turns(t)
             j == Turn(t, a)
  <2>1. o \in Nat /\ z \in Nat /\ T \in Nat /\ j \in Nat
    BY <1>4, WireCounts, ThreadFacts, Turning
  <2>2. (more => Turn(t, a + NumInitThreads) = j + 1) /\ (~more => j + 1 = T)
    <3>1. NumInitThreads \in Nat /\ NumExe \in Nat /\ a \in Nat
      BY <1>4, Sizes DEF Bucket
    <3>2. ~more => a + NumInitThreads >= NumExe
      BY <3>1
    <3> HIDE DEF r, a
    <3> QED BY <1>4, <3>2, Turning
  <2>3. Read(t, o, r) = 2 * z + o + 4 + j
    BY <1>2 DEF Read
  <2>4. Read(t, o, r2) = IF more THEN 2 * z + o + 4 + Turn(t, a + NumInitThreads)
                         ELSE 2 * z + o + 4 + T
    BY <1>8 DEF Read
  <2> HIDE DEF o, z, T, j, r, a, more
  <2>5. Read(t, o, r2) = Read(t, o, r) + n
    <3>1. CASE more
      BY ONLY <2>1, <2>2, <2>3, <2>4, <3>1
    <3>2. CASE ~more
      BY ONLY <2>1, <2>2, <2>3, <2>4, <3>2
    <3> QED BY <3>1, <3>2
  <2> QED BY <2>5, <1>2 DEF o
<1>20. Encoding[0] = Encoding[1] =>
        pipe[Other(p)][t].send >= (r2.next - Start(t)) * Encoding[Other(p)]
  BY <1>1, <1>8 DEF PipeOK
<1>21. /\ \A b \in Bucket : ~OnTurn(t, b) => bucket'[p][b] = bucket[p][b]
       /\ \A q \in Party : q # p => their'[q] = their[q] /\ bucket'[q] = bucket[q]
       /\ \A d \in Circuit : d \notin Share(t) => their'[p][d] = their[p][d]
  BY <1>4, <1>14, <1>18
<1>22. /\ r.pc \notin {"unborn", "done"} /\ r2.pc # "unborn" /\ (Matched => r2.pc # "noproof")
       /\ r2.next >= r.next /\ (r.next = Start(t+1) => r2.next = Start(t+1))
  <2>1. r.next \in Nat /\ r2.next = r.next
    BY <1>1, <1>8 DEF Worker0
  <2>2. r2.pc # "unborn" /\ r2.pc # "noproof"
    BY <1>8
  <2>3. r.pc \notin {"unborn", "done"}
    BY <1>2
  <2>4. r2.next >= r.next /\ (r.next = Start(t+1) => r2.next = Start(t+1))
    BY <2>1
  <2> QED BY <2>2, <2>3, <2>4
<1>23. UNCHANGED <<main, seed, theirs, pipe, send, mine, aborted>>
  BY <1>2
<1> HIDE DEF r, n
<1> QED BY <1>8, <1>10, <1>14, <1>15, <1>16, <1>17, <1>18, <1>19, <1>20, <1>21, <1>22, <1>23,
           RecvMoves DEF r, BucketRecord

\* A recv thread has not committed to a circuit its peer's send thread has not.
LEMMA ReceiverBehind ==
    ASSUME InitSizes, Inv, NEW p \in Party, NEW t \in Thread
    PROVE  recv[Other(p)][t].next <= send[p][t].next
<1> DEFINE q == Other(p)
           s == send[p][t]
           r == recv[q][t]
           o == Len(Opened(seed[q], t))
           z == Size(t)
           S == Start(t)
<1>1. /\ q \in Party /\ Other(q) = p /\ s \in Worker0(SendPc) /\ r \in Worker0(RecvPc)
      /\ WorkerOK(p, t, s, SendPhase(s.pc)) /\ WorkerOK(p, t, r, RecvPhase(r.pc))
  BY AtThread
<1>2. o \in Nat /\ Sent(t, o, s) \in Int /\ Read(t, o, r) \in Int /\ Read(t, o, r) <= Sent(t, o, s)
  <2>1. /\ o \in Nat /\ Sent(t, o, send[Other(q)][t]) \in Int /\ Read(t, o, recv[q][t]) \in Int
        /\ Len(net[RecvEnd(q, t)]) = Sent(t, o, send[Other(q)][t]) - Read(t, o, recv[q][t])
        /\ Len(net[RecvEnd(q, t)]) \in Nat
    <3> HIDE DEF q
    <3> QED BY <1>1, WireCounts
  <2>2. send[Other(q)][t] = s
    BY <1>1
  <2> HIDE DEF o, q, s
  <2> QED BY <2>1, <2>2 DEF r
<1>3. /\ z \in Nat \ {0} /\ S \in Nat /\ Start(t+1) = S + z /\ Turns(t) \in Nat
      /\ \A c : c \in Share(t) <=> c \in Nat /\ S <= c /\ c < S + z
  BY ThreadFacts, Turning
<1>4. s.next \in Nat /\ r.next \in Nat /\ s.pc \in SendPc /\ r.pc \in RecvPc
  BY <1>1 DEF Worker0
<1> HIDE DEF q, s, r, o, z, S
<1>5. /\ S <= s.next /\ s.next <= S + z /\ S <= r.next /\ r.next <= S + z
      /\ s.pc \notin {"unborn", "garble", "garbled", "initOT"} => s.next = S + z
      /\ s.pc = "initOT" => s.next < S + z
      /\ r.pc \in {"unborn", "circuits"} => r.next = S
  <2>1. /\ s.pc \in {"unborn", "garble", "garbled"} => s.next = S
        /\ s.pc = "initOT" => s.next \in Share(t)
        /\ s.pc \notin {"unborn", "garble", "garbled", "initOT"} => s.next = Start(t+1)
    <3> DEFINE f == SendPhase(s.pc)
    <3>1. /\ s.pc \in {"unborn", "garble", "garbled"} => f = "start"
          /\ s.pc = "initOT" => f = "initOT"
          /\ s.pc \notin {"unborn", "garble", "garbled", "initOT"} => f \notin {"start", "initOT"}
      BY <1>4 DEF SendPhase, SendPc
    <3>2. WorkerOK(p, t, s, f)
      BY <1>1
    <3> HIDE DEF f
    <3> QED BY <3>1, <3>2 DEF WorkerOK, S
  <2>2. /\ r.pc \in {"unborn", "circuits"} => r.next = S
        /\ r.pc = "initOT" => r.next \in Share(t)
        /\ r.pc \notin {"unborn", "circuits", "initOT"} => r.next = Start(t+1)
    <3> DEFINE f == RecvPhase(r.pc)
    <3>1. /\ r.pc \in {"unborn", "circuits"} => f = "start"
          /\ r.pc = "initOT" => f = "initOT"
          /\ r.pc \notin {"unborn", "circuits", "initOT"} => f \notin {"start", "initOT"}
      BY <1>4 DEF RecvPhase, RecvPc
    <3>2. WorkerOK(p, t, r, f)
      BY <1>1
    <3> HIDE DEF f
    <3> QED BY <3>1, <3>2 DEF WorkerOK, S
  <2>3. S <= s.next /\ s.next <= S + z
    BY <2>1, <1>3, <1>4
  <2>4. S <= r.next /\ r.next <= S + z
    BY <2>2, <1>3, <1>4
  <2> QED BY <2>1, <2>2, <2>3, <2>4, <1>3
<1>6. r.pc \in {"unborn", "circuits"} => r.next <= s.next
  BY <1>5
<1>7. s.pc \notin {"unborn", "garble", "garbled", "initOT"} => r.next <= s.next
  BY <1>5
<1>8. ASSUME r.pc \notin {"unborn", "circuits"}, s.pc \in {"unborn", "garble", "garbled", "initOT"}
      PROVE  r.next <= s.next
  <2>1. /\ s.pc \in {"unborn", "garble"} => Sent(t, o, s) = 0
        /\ s.pc = "garbled" => Sent(t, o, s) = z + 1
        /\ s.pc = "initOT" => Sent(t, o, s) = z + 1 + (s.next - S)
    BY DEF Sent, z, S
  <2>2. r.pc = "initOT" => Read(t, o, r) = z + 1 + (r.next - S)
    BY DEF Read, z, S
  <2>3. r.pc # "initOT" => Read(t, o, r) >= 2 * z + 1
    <3>1. r.pc \in {"bucket", "deltas", "kprobe"} => Turn(t, r.bckt) \in Nat
      BY <1>1 DEF WorkerOK, RecvPhase, OnTurn
    <3> QED BY <3>1, <1>2, <1>3, <1>4, <1>8 DEF Read, RecvPc, z
  <2>4. CASE r.pc = "initOT"
    BY <2>1, <2>2, <2>4, <1>2, <1>3, <1>4, <1>5, <1>8
  <2>5. CASE r.pc # "initOT"
    BY <2>1, <2>3, <2>5, <1>2, <1>3, <1>4, <1>5, <1>8
  <2> QED BY <2>4, <2>5
<1>9. r.next <= s.next
  BY <1>6, <1>7, <1>8
<1> QED BY <1>9 DEF q, r, s

\* The labels of a bucket arrive when the peer has its deltas.
LEMMA LabelsSent ==
    ASSUME InitSizes, Inv, NEW p \in Party, NEW t \in Thread, recv[p][t].pc = "kprobe",
           1 <= Len(net[RecvEnd(p, t)])
    PROVE  bucket[Other(p)][recv[p][t].bckt].deltas
<1> DEFINE q == Other(p)
           s == send[q][t]
           r == recv[p][t]
           a == r.bckt
           o == Len(Opened(seed[p], t))
           z == Size(t)
           T == Turns(t)
           j == Turn(t, a)
<1>1. /\ q \in Party /\ s \in Worker0(SendPc) /\ r \in Worker0(RecvPc)
      /\ WorkerOK(q, t, s, SendPhase(s.pc)) /\ WorkerOK(q, t, r, RecvPhase(r.pc))
  BY AtThread
<1>2. /\ o \in Nat /\ Sent(t, o, s) \in Int /\ Read(t, o, r) \in Int
      /\ Read(t, o, r) < Sent(t, o, s)
  <2>1. /\ o \in Nat /\ Sent(t, o, s) \in Int /\ Read(t, o, r) \in Int
        /\ Len(net[RecvEnd(p, t)]) = Sent(t, o, s) - Read(t, o, r)
        /\ Len(net[RecvEnd(p, t)]) \in Nat
    BY WireCounts
  <2> HIDE DEF o, q, s, r
  <2> QED BY <2>1
<1>3. a \in Bucket /\ OnTurn(t, a) /\ j \in Nat
  BY <1>1 DEF WorkerOK, RecvPhase, OnTurn
<1>4. z \in Nat \ {0} /\ T \in Nat /\ Start(t) \in Nat /\ Start(t+1) = Start(t) + z
  BY ThreadFacts, Turning
<1>5. Read(t, o, r) = 2 * z + o + 5 + T + j
  BY DEF Read
<1>6. s.pc \in SendPc /\ s.next \in Nat /\ s.bckt \in Bucket
  BY <1>1 DEF Worker0
<1>7. /\ s.pc \in {"bucket", "translate", "kprobe"} => OnTurn(t, s.bckt)
      /\ s.pc = "initOT" => s.next < Start(t) + z
  <2>1. s.pc = "initOT" => s.next \in Share(t)
    BY <1>1 DEF WorkerOK, SendPhase
  <2> HIDE DEF s, z
  <2> QED BY <2>1, <1>1, <1>4, ThreadFacts DEF WorkerOK, SendPhase
<1> HIDE DEF s, r, a, o, z, T, j, q
<1>8. s.pc \in {"bucket", "translate"} => Turn(t, s.bckt) \in Nat /\ Turn(t, s.bckt) < T
  BY <1>6, <1>7, Turning DEF OnTurn, T
<1>9. s.pc \in {"kprobe", "done"}
  <2> SUFFICES ASSUME s.pc \notin {"kprobe", "done"} PROVE Sent(t, o, s) <= 2 * z + o + 5 + T
    BY <1>2, <1>3, <1>4, <1>5
  <2>1. CASE s.pc \in {"unborn", "garble", "garbled", "initOT"}
    <3>1. Sent(t, o, s) \in {0, z + 1, z + 1 + (s.next - Start(t))}
      BY <2>1 DEF Sent, z
    <3>2. s.pc # "initOT" => Sent(t, o, s) \in {0, z + 1}
      BY <2>1 DEF Sent, z
    <3> QED BY <3>1, <3>2, <1>2, <1>4, <1>6, <1>7
  <2>2. CASE s.pc \in {"committed", "open", "opened", "proof"}
    <3>1. Sent(t, o, s) \in {2 * z + 2, 2 * z + o + 3}
      BY <2>2 DEF Sent, z
    <3> QED BY <3>1, <1>2, <1>4
  <2>3. CASE s.pc \in {"bucket", "translate"}
    <3>1. Sent(t, o, s) = 2 * z + o + 4 + Turn(t, s.bckt)
      BY <2>3 DEF Sent, z
    <3> QED BY <3>1, <2>3, <1>2, <1>4, <1>8
  <2>4. CASE s.pc = "bucketed"
    <3>1. Sent(t, o, s) = 2 * z + o + 5 + T
      BY <2>4 DEF Sent, z, T
    <3> QED BY <3>1, <1>2, <1>4
  <2> QED BY <2>1, <2>2, <2>3, <2>4, <1>6 DEF SendPc
<1>10. Labelled(s, SendPhase(s.pc), a)
  <2>1. CASE s.pc = "done"
    BY <2>1 DEF Labelled, SendPhase
  <2>2. CASE s.pc = "kprobe"
    <3>1. Sent(t, o, s) = 2 * z + o + 5 + T + Turn(t, s.bckt) /\ Turn(t, s.bckt) \in Nat
      BY <2>2, <1>7 DEF Sent, z, T, OnTurn
    <3> DEFINE y == Turn(t, s.bckt)
    <3>2. j < y
      <4>1. Sent(t, o, s) = 2 * z + o + 5 + T + y /\ y \in Nat
        BY <3>1
      <4> HIDE DEF y
      <4> QED BY <4>1, <1>2, <1>3, <1>4, <1>5
    <3>3. a < s.bckt
      BY <3>2, <2>2, <1>3, <1>6, <1>7, BucketOwner DEF j
    <3> QED BY <3>3, <2>2 DEF Labelled, SendPhase
  <2> QED BY <2>1, <2>2, <1>9
<1>11. BucketOK(q, a, bucket[q][a], send[q][t], recv[q][t], theirs[q], seed[q])
  BY <1>1, <1>3, FilledBucket
<1>12. bucket[q][a].deltas
  BY <1>10, <1>11 DEF BucketOK, s
<1> QED BY <1>12 DEF q, a, r

\* The labels of a bucket are those of the circuits in it, under the OTs of the
\* receiver's own, when both sides take the same number of OTs.
LEMMA LabelsOpen ==
    ASSUME InitSizes, Inv, Matched, NEW p \in Party, NEW t \in Thread, recv[p][t].pc = "kprobe",
           1 <= Len(net[RecvEnd(p, t)]), bucket[p][recv[p][t].bckt].mine # <<>>
    PROVE  LET b == bucket[p][recv[p][t].bckt] IN
           /\ Head(net[RecvEnd(p, t)]).cirs = b.their
           /\ Head(net[RecvEnd(p, t)]).ots = [n \in 1..BucketSize |-> mine[p][b.mine[n]].ot]
<1> DEFINE a == recv[p][t].bckt
           q == Other(p)
           r == recv[p][t]
           w == net[RecvEnd(p, t)]
           o == Len(Opened(seed[p], t))
           k == bucket[p][a]
           cs == Content(seed[q], a)
           x == 2 * Size(t) + o + 6 + Turns(t) + Turn(t, a)
<1>1. /\ q \in Party /\ Other(q) = p /\ r \in Worker0(RecvPc) /\ w \in Seq(Message)
      /\ WorkerOK(q, t, r, RecvPhase(r.pc)) /\ seed[q] \in Seeds
      /\ WireOK(p, t, w, send[q][t], r, seed[p], seed[q])
  BY AtThread
<1>2. a \in Bucket /\ OnTurn(t, a) /\ RecvPhase(r.pc) = "kprobe" /\ Turn(t, a) \in Nat
  BY <1>1 DEF WorkerOK, RecvPhase, OnTurn
<1>3. Expected(p, t, seed[p], seed[q], x, w[1])
  <2>1. o \in Nat /\ Size(t) \in Nat /\ Turns(t) \in Nat
    BY WireCounts, ThreadFacts, Turning
  <2>2. Read(t, o, r) = 2 * Size(t) + o + 5 + Turns(t) + Turn(t, a)
    BY DEF Read
  <2>3. 1 \in 1..Len(w)
    BY <1>1
  <2>4. Expected(p, t, seed[p], seed[q], Read(t, o, r) + 1, w[1])
    <3> HIDE DEF w, r, q
    <3> QED BY <1>1, <2>3 DEF WireOK
  <2>5. Read(t, o, r) + 1 = x
    <3> HIDE DEF o, r
    <3> QED BY <2>1, <2>2, <1>2
  <2> QED BY <2>4, <2>5
<1> HIDE DEF w, q, r
<1>4. w[1].cirs = Content(seed[p], a) /\ w[1].ots = [n \in 1..BucketSize |-> CircuitOT(p, cs[n])]
  <2> HIDE DEF cs
  <2>1. \A b \in Bucket : OnTurn(t, b) /\ x = 2 * Size(t) + o + 6 + Turns(t) + Turn(t, b) =>
            /\ w[1].cirs = Content(seed[p], b)
            /\ w[1].ots = [n \in 1..BucketSize |-> CircuitOT(p, Content(seed[q], b)[n])]
    BY <1>3 DEF Expected
  <2> QED BY <2>1, <1>2 DEF cs
<1>5. Head(w) = w[1]
  BY <1>1
<1>6. BucketOK(p, a, k, send[p][t], recv[p][t], theirs[p], seed[p])
  BY <1>2, FilledBucket
<1>7. k.their = Content(seed[p], a)
  <2>1. Delivered(recv[p][t], RecvPhase(recv[p][t].pc), a)
    BY <1>2 DEF Delivered, Late, r
  <2> QED BY <2>1, <1>6 DEF BucketOK
<1>8. k.mine = cs
  <2>1. Filled(send[p][t], SendPhase(send[p][t].pc), a)
    BY <1>6 DEF BucketOK
  <2> QED BY <2>1, <1>2, FilledBucket DEF q
<1>9. cs \in [1..BucketSize -> Circuit]
  BY <1>1, <1>2, ContentFacts
<1>10. bucket[q][a].deltas
  BY LabelsSent DEF q
<1>11. ASSUME NEW n \in 1..BucketSize PROVE mine[p][cs[n]].ot = CircuitOT(p, cs[n])
  <2> DEFINE c == cs[n]
             u == Owner(c)
  <2>1. c \in Circuit /\ c < recv[q][u].next
    BY <1>1, <1>2, <1>9, <1>10 DEF Inv, DeltasLate
  <2> HIDE DEF c
  <2>2. u \in Thread
    BY <2>1, Owners
  <2> HIDE DEF u
  <2>3. recv[q][u].next <= send[p][u].next
    BY <2>2, ReceiverBehind DEF q
  <2>4. recv[q][u].next \in Nat /\ send[p][u].next \in Nat
    BY <1>1, <2>2, AtThread DEF Worker0
  <2>5. c \in Nat
    BY <2>1 DEF Circuit
  <2>6. c < send[p][u].next
    BY <2>1, <2>3, <2>4, <2>5
  <2>7. MineOK(p, c, mine[p][c], send[p][u], theirs[p])
    BY <2>1 DEF Inv, Contents, u
  <2>8. mine[p][c].ot = CircuitOT(p, c)
    BY <2>6, <2>7 DEF MineOK
  <2> QED BY <2>8 DEF c
<1>12. [n \in 1..BucketSize |-> mine[p][k.mine[n]].ot] = [n \in 1..BucketSize |-> CircuitOT(p, cs[n])]
  BY <1>8, <1>11
<1> QED BY <1>4, <1>5, <1>7, <1>12 DEF w

\* A bucket's k-probe input labels are unmasked and compared.
LEMMA RecvKProbeKeeps ==
    ASSUME InitSizes, Inv, NEW p \in Party, NEW t \in Thread, RecvKProbe(p, t)
    PROVE  Inv'
<1> DEFINE r == recv[p][t]
           a == r.bckt
           more == a + NumInitThreads < NumExe
           r2 == Step(r, t, "kprobe", "done")
           ch == RecvEnd(p, t)
           k == bucket[p][a]
           k2 == [k EXCEPT !.labels = TRUE]
           n == 1
           Opens == /\ Head(net[ch]).cirs = k.their
                    /\ Head(net[ch]).ots = [m \in 1..BucketSize |-> mine[p][k.mine[m]].ot]
<1>1. /\ r \in Worker0(RecvPc) /\ WorkerOK(Other(p), t, r, RecvPhase(r.pc)) /\ Other(p) \in Party
      /\ PipeOK(Other(p), t, pipe[Other(p)][t], send[Other(p)][t], r)
      /\ Len(net[ch]) \in Nat /\ seed[p] \in Seeds
  BY AtThread, WireCounts
<1>2. /\ r.pc = "kprobe" /\ k.mine # <<>> /\ 1 <= Len(net[ch])
      /\ \/ /\ Opens /\ Drop(ch, 1) /\ SetRecv(p, t, r2)
            /\ bucket' = [bucket EXCEPT ![p][a].labels = TRUE]
            /\ UNCHANGED <<main, seed, theirs, pipe, send, mine, their, aborted>>
         \/ ~Opens /\ Abort(p)
  BY <1>1 DEF RecvKProbe, RecvAt, Arrived
<1>3. Matched => Opens
  <2> SUFFICES ASSUME Matched PROVE Opens
    OBVIOUS
  <2>1. /\ recv[p][t].pc = "kprobe" /\ bucket[p][recv[p][t].bckt].mine # <<>>
        /\ 1 <= Len(net[RecvEnd(p, t)])
    BY <1>2
  <2> QED BY <2>1, LabelsOpen
<1>4. ASSUME ~Opens, Abort(p) PROVE Inv'
  <2> HIDE DEF Opens
  <2> QED BY <1>3, <1>4, AbortKeeps
<1> HIDE DEF Opens
<1>5. ASSUME Drop(ch, 1), SetRecv(p, t, r2),
             bucket' = [bucket EXCEPT ![p][a].labels = TRUE],
             UNCHANGED <<main, seed, theirs, pipe, send, mine, their, aborted>>
      PROVE  Inv'
  <2>1. RecvPhase(r.pc) = "kprobe"
    BY <1>2 DEF RecvPhase
  <2>2. a \in Bucket /\ OnTurn(t, a) /\ Turn(t, a) \in Nat
    BY <1>1, <2>1 DEF WorkerOK, OnTurn
  <2>3. /\ r2 \in Worker0(RecvPc) /\ r2.next = r.next /\ r2.ot = r.ot /\ r2.iter = r.iter
        /\ r2.bckt = (IF more THEN a + NumInitThreads ELSE t)
        /\ r2.pc = (IF more THEN "kprobe" ELSE "done")
    <3>1. "kprobe" \in RecvPc /\ "done" \in RecvPc
      BY DEF RecvPc
    <3> HIDE DEF r
    <3> QED BY <3>1, <1>1, Stepped
  <2>4. SetRecv(p, t, r2)
    BY <1>5
  <2> HIDE DEF r2
  <2> DEFINE phase2 == IF more THEN "kprobe" ELSE "done"
  <2>5. RecvPhase(r2.pc) = phase2
    BY <2>3 DEF RecvPhase
  <2>6. WorkerOK(Other(p), t, r2, RecvPhase(r2.pc))
    <3> HIDE DEF r
    <3>1. WorkerOK(Other(p), t, r, "kprobe")
      BY <1>1, <2>1
    <3>2. WorkerOK(Other(p), t, r2, phase2)
      BY <3>1, <1>1, <2>3, WorkerProbes
    <3> QED BY <3>2, <2>5
  <2>7. k \in BucketRecord
    BY <2>2, DataShape DEF BucketRecord
  <2>8. bucket' = [bucket EXCEPT ![p][a] = k2]
    <3> HIDE DEF a
    <3>1. bucket \in [Party -> [Bucket -> BucketRecord]]
      BY DataShape DEF BucketRecord
    <3>2. bucket' = [bucket EXCEPT ![p][a].labels = TRUE]
      BY <1>5
    <3> QED BY ONLY <3>1, <3>2, <2>2, p \in Party
  <2> HIDE DEF k
  <2>9. /\ k2 \in BucketRecord /\ k2.labels
        /\ k2.their = k.their /\ k2.deltas = k.deltas
        /\ k2.mine = k.mine /\ k2.psiSend = k.psiSend /\ k2.psiRecv = k.psiRecv
    BY ONLY <2>7 DEF BucketRecord
  <2> HIDE DEF k2
  <2>10. /\ bucket' \in [Party -> [Bucket -> BucketRecord]]
         /\ bucket'[p][a] = k2
         /\ \A q \in Party : q # p => bucket'[q] = bucket[q]
         /\ \A b \in Bucket : b # a => bucket'[p][b] = bucket[p][b]
    <3>1. a \in Bucket /\ k2 \in BucketRecord
      BY <2>2, <2>9
    <3> HIDE DEF a
    <3> QED BY <3>1, <2>8, BucketUpdate
  <2>11. \A b \in Bucket : OnTurn(t, b) =>
            BucketOK(p, b, bucket'[p][b], send[p][t], r2, theirs[p], seed[p])
    <3> SUFFICES ASSUME NEW b \in Bucket, OnTurn(t, b)
                 PROVE  BucketOK(p, b, bucket'[p][b], send[p][t], r2, theirs[p], seed[p])
      OBVIOUS
    <3>1. BucketOK(p, b, bucket[p][b], send[p][t], r, theirs[p], seed[p])
      BY FilledBucket
    <3>2. WorkerOK(Other(p), t, r, "kprobe")
      BY <1>1, <2>1
    <3> HIDE DEF r
    <3>3. /\ Filled(r2, phase2, b) <=> Filled(r, "kprobe", b)
          /\ Delivered(r2, phase2, b) <=> Delivered(r, "kprobe", b)
          /\ Labelled(r2, phase2, b) <=> Labelled(r, "kprobe", b) \/ b = a
      BY <3>2, <1>1, <2>3, MarkLabelled
    <3> HIDE DEF phase2, a
    <3>4. CASE b = a
      <4>1. /\ bucket'[p][b] = k2 /\ bucket[p][b] = k
        BY <3>4, <2>10 DEF k
      <4> QED BY <3>1, <3>3, <3>4, <4>1, <2>1, <2>5, <2>9 DEF BucketOK
    <3>5. CASE b # a
      <4>1. bucket'[p][b] = bucket[p][b]
        BY <3>5, <2>10
      <4> QED BY <3>1, <3>3, <3>5, <4>1, <2>1, <2>5 DEF BucketOK
    <3> QED BY <3>4, <3>5
  <2>12. \A b \in Bucket : ~(bucket'[p][b].deltas /\ ~bucket[p][b].deltas)
    BY <2>9, <2>10 DEF k
  <2>13. \A c \in Share(t) : TheirOK(p, c, their'[p][c], r2, seed[p])
    <3>1. /\ r.pc \notin {"unborn", "circuits"} /\ r2.pc \notin {"unborn", "circuits"}
          /\ RecvPhase(r.pc) \notin Early
      BY <1>2, <2>1, <2>3 DEF Early
    <3>2. \A c \in Share(t) : TheirOK(p, c, their[p][c], r2, seed[p])
      BY <3>1, <2>3, SameTheir
    <3> QED BY <3>2, <1>5
  <2>14. /\ their' = their
         /\ their' \in [Party -> [Circuit -> [received : BOOLEAN, ot : Int, checked : BOOLEAN]]]
    BY <1>5, DataShape
  <2>15. /\ n \in Nat /\ n <= Len(net[RecvEnd(p, t)]) /\ Drop(RecvEnd(p, t), n)
         /\ LET o == Len(Opened(seed[p], t)) IN Read(t, o, r2) = Read(t, o, r) + n
    <3> DEFINE o == Len(Opened(seed[p], t))
               z == Size(t)
               T == Turns(t)
               j == Turn(t, a)
    <3>1. o \in Nat /\ z \in Nat /\ T \in Nat /\ j \in Nat
      BY <2>2, WireCounts, ThreadFacts, Turning
    <3>2. (more => Turn(t, a + NumInitThreads) = j + 1) /\ (~more => j + 1 = T)
      <4>1. NumInitThreads \in Nat /\ NumExe \in Nat /\ a \in Nat
        BY <2>2, Sizes DEF Bucket
      <4>2. ~more => a + NumInitThreads >= NumExe
        BY <4>1
      <4> HIDE DEF r, a
      <4> QED BY <2>2, <4>2, Turning
    <3>3. Read(t, o, r) = 2 * z + o + 5 + T + j
      BY <1>2 DEF Read
    <3>4. Read(t, o, r2) = IF more THEN 2 * z + o + 5 + T + Turn(t, a + NumInitThreads)
                           ELSE 2 * z + o + 5 + 2 * T
      BY <2>3 DEF Read
    <3> HIDE DEF o, z, T, j, r, a, more
    <3>5. Read(t, o, r2) = Read(t, o, r) + n
      <4>1. CASE more
        BY ONLY <3>1, <3>2, <3>3, <3>4, <4>1
      <4>2. CASE ~more
        BY ONLY <3>1, <3>2, <3>3, <3>4, <4>2
      <4> QED BY <4>1, <4>2
    <3> QED BY <3>5, <1>2, <1>5 DEF o
  <2>16. Encoding[0] = Encoding[1] =>
            pipe[Other(p)][t].send >= (r2.next - Start(t)) * Encoding[Other(p)]
    BY <1>1, <2>3 DEF PipeOK
  <2>17. /\ \A b \in Bucket : ~OnTurn(t, b) => bucket'[p][b] = bucket[p][b]
         /\ \A q \in Party : q # p => their'[q] = their[q] /\ bucket'[q] = bucket[q]
         /\ \A d \in Circuit : d \notin Share(t) => their'[p][d] = their[p][d]
    BY <2>2, <2>10, <2>14
  <2>18. /\ r.pc \notin {"unborn", "done"} /\ r2.pc # "unborn" /\ (Matched => r2.pc # "noproof")
         /\ r2.next >= r.next /\ (r.next = Start(t+1) => r2.next = Start(t+1))
    <3>1. r.next \in Nat /\ r2.next = r.next
      BY <1>1, <2>3 DEF Worker0
    <3>2. r2.pc # "unborn" /\ r2.pc # "noproof"
      BY <2>3
    <3>3. r.pc \notin {"unborn", "done"}
      BY <1>2
    <3>4. r2.next >= r.next /\ (r.next = Start(t+1) => r2.next = Start(t+1))
      BY <3>1
    <3> QED BY <3>2, <3>3, <3>4
  <2>19. UNCHANGED <<main, seed, theirs, pipe, send, mine, aborted>>
    BY <1>5
  <2> HIDE DEF r, n, a, ch
  <2> QED BY <2>3, <2>4, <2>6, <2>10, <2>11, <2>12, <2>13, <2>14, <2>15, <2>16, <2>17, <2>18,
             <2>19, RecvMoves DEF r, BucketRecord
<1> QED BY <1>2, <1>4, <1>5

-----------------------------------------------------------------------------
(* The steps of init. *)

\* What init sends and receives is not on the channels of the threads.
LEMMA InitChannel ==
    ASSUME Inv, NEW q \in Party, NEW w \in Seq(Message),
           net' = [net EXCEPT ![InitEnd(q)] = w]
    PROVE  /\ net' \in [Ends -> Seq(Message)]
           /\ \A z \in Party, u \in Thread : net'[RecvEnd(z, u)] = net[RecvEnd(z, u)]
<1>1. net \in [Ends -> Seq(Message)]
  BY DEF Inv, Shape
<1>2. InitEnd(q) \in Ends
  BY Ends2
<1>3. \A z \in Party, u \in Thread : RecvEnd(z, u) \in Ends /\ RecvEnd(z, u) # InitEnd(q)
  BY Ends2
<1> DEFINE ch == InitEnd(q)
<1> HIDE DEF ch
<1>4. net' = [net EXCEPT ![ch] = w] /\ ch \in Ends
  BY <1>2 DEF ch
<1>5. net' \in [Ends -> Seq(Message)] /\ \A e \in Ends : e # ch => net'[e] = net[e]
  BY ONLY <1>1, <1>4, w \in Seq(Message)
<1> QED BY <1>3, <1>5 DEF ch

\* A step that moves only init on.
LEMMA MainMoves ==
    ASSUME InitSizes, Inv, NEW p \in Party, NEW m \in MainPc, MainGo(p, m),
           net' \in [Ends -> Seq(Message)],
           \A z \in Party, u \in Thread : net'[RecvEnd(z, u)] = net[RecvEnd(z, u)],
           UNCHANGED <<seed, theirs, pipe, send, recv, mine, their, bucket, aborted>>,
           MainOK(p, m, send[p], recv[p], theirs[p], seed[Other(p)]),
           m = "online" => \A q \in Party, t \in Thread : pipe[q][t].ended
    PROVE  Inv'
<1>1. /\ main' \in [Party -> MainPc] /\ main'[p] = m
      /\ \A q \in Party : q # p => main'[q] = main[q]
  <2>1. main \in [Party -> MainPc]
    BY DEF Inv, Shape
  <2> QED BY <2>1 DEF MainGo
<1>2. Shape'
  BY <1>1 DEF Inv, Shape
<1>3. Threads'
  <2> SUFFICES ASSUME NEW q \in Party, NEW u \in Thread
               PROVE  /\ WorkerOK(q, u, send[q][u], SendPhase(send[q][u].pc))
                      /\ WorkerOK(Other(q), u, recv[q][u], RecvPhase(recv[q][u].pc))
                      /\ PipeOK(q, u, pipe[q][u], send[q][u], recv[Other(q)][u])
                      /\ WireOK(q, u, net'[RecvEnd(q, u)], send[Other(q)][u], recv[q][u],
                                seed[q], seed[Other(q)])
    BY DEF Threads
  <2> QED BY DEF Inv, Threads
<1>4. Contents'
  BY DEF Inv, Contents
<1>5. DeltasLate'
  BY DEF Inv, DeltasLate
<1>6. Mains'
  <2> SUFFICES ASSUME NEW q \in Party
               PROVE  /\ MainOK(q, main'[q], send[q], recv[q], theirs[q], seed[Other(q)])
                      /\ main'[q] = "online" => \A z \in Party, u \in Thread : pipe[z][u].ended
    BY DEF Mains
  <2>1. CASE q = p
    BY <2>1, <1>1
  <2>2. CASE q # p
    BY <2>2, <1>1 DEF Inv, Mains
  <2> QED BY <2>1, <2>2
<1>7. Sound'
  BY DEF Inv, Sound, Matched, ParamsMatch
<1> QED BY <1>2, <1>3, <1>4, <1>5, <1>6, <1>7 DEF Inv

\* The commitment to the seed and the parameters are sent.
LEMMA MainAnnounceKeeps ==
    ASSUME InitSizes, Inv, NEW p \in Party, MainAnnounce(p)
    PROVE  Inv'
<1> DEFINE q == Other(p)
           commit == Msg("commit", <<>>, <<>>)
           params == Msg("params", <<>>, <<>>)
           w == net[InitEnd(q)] \o <<commit, params>>
<1>1. /\ main[p] = "announce" /\ net' = [net EXCEPT ![InitEnd(q)] = w] /\ MainGo(p, "params")
      /\ UNCHANGED <<seed, theirs, pipe, send, recv, mine, their, bucket, aborted>>
  BY DEF MainAnnounce, MainAt, Put
<1>2. q \in Party /\ net[InitEnd(q)] \in Seq(Message)
  BY Ends2 DEF Inv, Shape
<1>3. commit \in Message /\ params \in Message
  <2>1. "commit" \in Kinds /\ "params" \in Kinds /\ <<>> \in Seq(Int)
    BY DEF Kinds
  <2> QED BY <2>1, OneMessage
<1> HIDE DEF commit, params, q
<1>4. w \in Seq(Message)
  <2>1. <<commit, params>> \in Seq(Message)
    BY <1>3
  <2> DEFINE d == <<commit, params>>
  <2> HIDE DEF d
  <2>2. d \in Seq(Message)
    BY <2>1 DEF d
  <2> QED BY <2>2, <1>2, Concatenated DEF d
<1> HIDE DEF w
<1>5. /\ net' \in [Ends -> Seq(Message)]
      /\ \A z \in Party, u \in Thread : net'[RecvEnd(z, u)] = net[RecvEnd(z, u)]
  BY <1>1, <1>2, <1>4, InitChannel
<1>6. MainOK(p, "params", send[p], recv[p], theirs[p], seed[Other(p)])
  <2>1. MainOK(p, "announce", send[p], recv[p], theirs[p], seed[Other(p)])
    BY <1>1 DEF Inv, Mains
  <2> QED BY <2>1 DEF MainOK, MainPc
<1>7. "params" \in MainPc
  BY DEF MainPc
<1> QED BY <1>1, <1>5, <1>6, <1>7, MainMoves

\* The seed is revealed once all receive threads have the peer's circuits.
LEMMA MainRevealKeeps ==
    ASSUME InitSizes, Inv, NEW p \in Party, MainReveal(p)
    PROVE  Inv'
<1> DEFINE q == Other(p)
           w == net[InitEnd(q)] \o <<Msg("seed", <<>>, <<>>)>>
<1>1. /\ main[p] = "circuits" /\ net' = [net EXCEPT ![InitEnd(q)] = w] /\ MainGo(p, "reveal")
      /\ \A t \in Thread : recv[p][t].pc \notin {"unborn", "circuits", "initOT"}
      /\ UNCHANGED <<seed, theirs, pipe, send, recv, mine, their, bucket, aborted>>
  BY DEF MainReveal, MainAt, Put, CirReceived
<1>2. q \in Party /\ net[InitEnd(q)] \in Seq(Message)
  BY Ends2 DEF Inv, Shape
<1>3. <<Msg("seed", <<>>, <<>>)>> \in Seq(Message)
  <2>1. "seed" \in Kinds /\ <<>> \in Seq(Int)
    BY DEF Kinds
  <2> QED BY <2>1, OneMessage
<1> HIDE DEF q
<1>4. w \in Seq(Message)
  <2> DEFINE d == <<Msg("seed", <<>>, <<>>)>>
  <2>1. d \in Seq(Message)
    BY <1>3
  <2> HIDE DEF d
  <2> QED BY <2>1, <1>2, Concatenated DEF d
<1> HIDE DEF w
<1>5. /\ net' \in [Ends -> Seq(Message)]
      /\ \A z \in Party, u \in Thread : net'[RecvEnd(z, u)] = net[RecvEnd(z, u)]
  BY <1>1, <1>2, <1>4, InitChannel
<1>6. \A t \in Thread : recv[p][t].next = Start(t+1)
  <2> SUFFICES ASSUME NEW t \in Thread PROVE recv[p][t].next = Start(t+1)
    OBVIOUS
  <2> DEFINE r == recv[p][t]
             f == RecvPhase(r.pc)
  <2>1. WorkerOK(Other(p), t, r, f) /\ r \in Worker0(RecvPc)
    BY AtThread
  <2>2. f \notin {"start", "initOT"}
    BY <1>1, <2>1 DEF RecvPhase, Worker0, RecvPc
  <2> HIDE DEF f
  <2> QED BY <2>1, <2>2 DEF WorkerOK
<1>7. MainOK(p, "reveal", send[p], recv[p], theirs[p], seed[Other(p)])
  <2>1. MainOK(p, "circuits", send[p], recv[p], theirs[p], seed[Other(p)])
    BY <1>1 DEF Inv, Mains
  <2> QED BY <2>1, <1>6 DEF MainOK, MainPc
<1>8. "reveal" \in MainPc
  BY DEF MainPc
<1> QED BY <1>1, <1>5, <1>7, <1>8, MainMoves

\* The party goes online once all its threads have returned.
LEMMA MainOnlineKeeps ==
    ASSUME InitSizes, Inv, NEW p \in Party, MainOnline(p)
    PROVE  Inv'
<1>1. /\ main[p] = "join" /\ Joined(p) /\ MainGo(p, "online") /\ net' = net
      /\ UNCHANGED <<seed, theirs, pipe, send, recv, mine, their, bucket, aborted>>
  BY DEF MainOnline, MainAt
<1>2. /\ net' \in [Ends -> Seq(Message)]
      /\ \A z \in Party, u \in Thread : net'[RecvEnd(z, u)] = net[RecvEnd(z, u)]
  BY <1>1 DEF Inv, Shape
<1>3. MainOK(p, "online", send[p], recv[p], theirs[p], seed[Other(p)])
  <2>1. MainOK(p, "join", send[p], recv[p], theirs[p], seed[Other(p)])
    BY <1>1 DEF Inv, Mains
  <2>2. \A t \in Thread : send[p][t].pc = "done" /\ recv[p][t].pc = "done"
    BY <1>1 DEF Joined
  <2> QED BY <2>1, <2>2 DEF MainOK, MainPc
<1>4. \A q \in Party, t \in Thread : pipe[q][t].ended
  BY <1>1 DEF Joined
<1>5. "online" \in MainPc
  BY DEF MainPc
<1> QED BY <1>1, <1>2, <1>3, <1>4, <1>5, MainMoves

\* The peer's selection comes in while every send thread still waits for it.
LEMMA MainSetsKeeps ==
    ASSUME InitSizes, Inv, NEW p \in Party, MainSets(p)
    PROVE  Inv'
<1> DEFINE sel == seed[Other(p)]
           w == SubSeq(net[InitEnd(p)], 2, Len(net[InitEnd(p)]))
<1>1. /\ main[p] = "reveal" /\ net' = [net EXCEPT ![InitEnd(p)] = w] /\ MainGo(p, "join")
      /\ theirs' = [theirs EXCEPT ![p] = sel]
      /\ UNCHANGED <<seed, pipe, send, recv, mine, their, bucket, aborted>>
  BY DEF MainSets, MainAt, Drop
<1>2. sel \in Seeds /\ sel # <<>> /\ <<>> \notin Seeds
  <2>1. sel \in Seeds
    BY Ends2 DEF Inv, Shape
  <2> QED BY <2>1, SeedFacts
<1>3. MainOK(p, "reveal", send[p], recv[p], theirs[p], sel)
  BY <1>1 DEF Inv, Mains
<1>4. w \in Seq(Message)
  <2>1. net[InitEnd(p)] \in Seq(Message)
    BY Ends2 DEF Inv, Shape
  <2> QED BY <2>1
<1> HIDE DEF w
<1>5. /\ net' \in [Ends -> Seq(Message)]
      /\ \A z \in Party, u \in Thread : net'[RecvEnd(z, u)] = net[RecvEnd(z, u)]
  BY <1>1, <1>4, InitChannel
<1>6. /\ main' \in [Party -> MainPc] /\ main'[p] = "join"
      /\ \A q \in Party : q # p => main'[q] = main[q]
  <2>1. main \in [Party -> MainPc] /\ "join" \in MainPc
    BY DEF Inv, Shape, MainPc
  <2> QED BY <2>1, <1>1 DEF MainGo
<1>7. /\ theirs' \in [Party -> Seeds \cup {<<>>}] /\ theirs'[p] = sel /\ theirs[p] = <<>>
      /\ \A q \in Party : q # p => theirs'[q] = theirs[q]
  <2>1. theirs \in [Party -> Seeds \cup {<<>>}]
    BY DEF Inv, Shape
  <2>2. theirs[p] = <<>>
    BY <1>3 DEF MainOK
  <2> HIDE DEF sel
  <2> QED BY <2>1, <2>2, <1>1, <1>2
<1>8. Shape'
  BY <1>1, <1>5, <1>6, <1>7 DEF Inv, Shape
<1>9. Threads'
  <2> SUFFICES ASSUME NEW q \in Party, NEW u \in Thread
               PROVE  /\ WorkerOK(q, u, send[q][u], SendPhase(send[q][u].pc))
                      /\ WorkerOK(Other(q), u, recv[q][u], RecvPhase(recv[q][u].pc))
                      /\ PipeOK(q, u, pipe[q][u], send[q][u], recv[Other(q)][u])
                      /\ WireOK(q, u, net'[RecvEnd(q, u)], send[Other(q)][u], recv[q][u],
                                seed[q], seed[Other(q)])
    BY <1>1 DEF Threads
  <2> QED BY <1>5 DEF Inv, Threads
<1>10. Contents'
  <2> SUFFICES ASSUME NEW q \in Party
               PROVE  /\ \A c \in Circuit :
                            /\ MineOK(q, c, mine[q][c], send[q][Owner(c)], theirs'[q])
                            /\ TheirOK(q, c, their[q][c], recv[q][Owner(c)], seed[q])
                      /\ \A b \in Bucket :
                            BucketOK(q, b, bucket[q][b], send[q][b % NumInitThreads],
                                     recv[q][b % NumInitThreads], theirs'[q], seed[q])
    BY <1>1 DEF Contents
  <2>1. /\ \A c \in Circuit : /\ MineOK(q, c, mine[q][c], send[q][Owner(c)], theirs[q])
                              /\ TheirOK(q, c, their[q][c], recv[q][Owner(c)], seed[q])
        /\ \A b \in Bucket :
              BucketOK(q, b, bucket[q][b], send[q][b % NumInitThreads],
                       recv[q][b % NumInitThreads], theirs[q], seed[q])
    BY DEF Inv, Contents
  <2>2. ASSUME q # p
        PROVE  theirs'[q] = theirs[q]
    BY <2>2, <1>7
  <2>3. ASSUME q = p, NEW c \in Circuit
        PROVE  MineOK(p, c, mine[p][c], send[p][Owner(c)], sel)
    <3>1. MineOK(p, c, mine[p][c], send[p][Owner(c)], <<>>)
      BY <2>1, <2>3, <1>7
    <3> QED BY <3>1, <1>2 DEF MineOK
  <2>4. ASSUME q = p, NEW b \in Bucket
        PROVE  BucketOK(p, b, bucket[p][b], send[p][b % NumInitThreads],
                        recv[p][b % NumInitThreads], sel, seed[p])
    <3> DEFINE u == b % NumInitThreads
               s == send[p][u]
    <3>1. u \in Thread
      BY BucketOwner
    <3>2. BucketOK(p, b, bucket[p][b], s, recv[p][u], <<>>, seed[p])
      BY <2>1, <2>4, <1>7
    <3> HIDE DEF u
    <3>3. SendPhase(s.pc) \in Early
      BY <1>3, <3>1 DEF MainOK
    <3> DEFINE f == SendPhase(s.pc)
    <3> HIDE DEF s
    <3>4. ~Filled(s, f, b)
      BY <3>3 DEF Filled, Early, Late
    <3> HIDE DEF f
    <3>5. BucketOK(p, b, bucket[p][b], s, recv[p][u], sel, seed[p])
      BY <3>2, <3>4 DEF BucketOK, f
    <3> QED BY <3>5 DEF u, s
  <2> QED BY <2>1, <2>2, <2>3, <2>4, <1>7
<1>11. DeltasLate'
  BY <1>1 DEF Inv, DeltasLate
<1>12. Mains'
  <2> SUFFICES ASSUME NEW q \in Party
               PROVE  /\ MainOK(q, main'[q], send[q], recv[q], theirs'[q], seed[Other(q)])
                      /\ main'[q] = "online" => \A z \in Party, u \in Thread : pipe[z][u].ended
    BY <1>1 DEF Mains
  <2>1. MainOK(p, "join", send[p], recv[p], sel, sel)
    BY <1>3 DEF MainOK, MainPc
  <2>2. CASE q = p
    BY <2>1, <2>2, <1>6, <1>7
  <2>3. CASE q # p
    BY <2>3, <1>6, <1>7 DEF Inv, Mains
  <2> QED BY <2>2, <2>3
<1>13. Sound'
  BY <1>1 DEF Inv, Sound, Matched, ParamsMatch
<1> QED BY <1>8, <1>9, <1>10, <1>11, <1>12, <1>13 DEF Inv

\* The threads start where the records they have had so far say.
LEMMA NewThreads ==
    ASSUME InitSizes, Inv, NEW p \in Party, NEW t \in Thread,
           main[p] \in {"announce", "params"}
    PROVE  /\ send[p][t].pc = "unborn" /\ recv[p][t].pc = "unborn"
           /\ NewThread(t, "garble") \in Worker0(SendPc)
           /\ SameWork(send[p][t], NewThread(t, "garble"))
           /\ WorkerOK(p, t, NewThread(t, "garble"), "start")
           /\ NewThread(t, "circuits") \in Worker0(RecvPc)
           /\ SameWork(recv[p][t], NewThread(t, "circuits"))
           /\ WorkerOK(Other(p), t, NewThread(t, "circuits"), "start")
<1> DEFINE s == send[p][t]
           r == recv[p][t]
<1>1. s.pc = "unborn" /\ r.pc = "unborn"
  BY DEF Inv, Mains, MainOK
<1>2. /\ WorkerOK(p, t, s, "start") /\ WorkerOK(Other(p), t, r, "start")
      /\ s \in Worker0(SendPc) /\ r \in Worker0(RecvPc)
  BY <1>1, AtThread DEF SendPhase, RecvPhase
<1>3. Start(t) \in Nat /\ Other(p) \in Party
  BY ThreadFacts, Ends2
<1>4. \A w : \A q \in Party : WorkerOK(q, t, w, "start") =>
        w.next = Start(t) /\ w.ot = 0 /\ w.bckt = t /\ w.iter = FirstIter(t)
  <2> SUFFICES ASSUME NEW q \in Party, NEW w, WorkerOK(q, t, w, "start")
               PROVE  w.next = Start(t) /\ w.ot = 0 /\ w.bckt = t /\ w.iter = FirstIter(t)
    OBVIOUS
  <2>1. /\ w.next = Start(t) /\ w.ot = (w.next - Start(t)) * Encoding[q] /\ w.bckt = t
        /\ w.iter = t * BucketSize
    BY DEF WorkerOK, Early
  <2>2. Encoding[q] \in Nat
    BY OTFacts
  <2>3. w.ot = 0
    BY <2>1, <2>2, <1>3
  <2> QED BY <2>1, <2>3 DEF FirstIter
<1> HIDE DEF s, r
<1>5. SameWork(s, NewThread(t, "garble")) /\ SameWork(r, NewThread(t, "circuits"))
  <2>1. s.next = Start(t) /\ s.ot = 0 /\ s.bckt = t /\ s.iter = FirstIter(t)
    BY <1>2, <1>4
  <2>2. r.next = Start(t) /\ r.ot = 0 /\ r.bckt = t /\ r.iter = FirstIter(t)
    BY <1>2, <1>3, <1>4
  <2> QED BY <2>1, <2>2 DEF SameWork, NewThread
<1>6. /\ WorkerOK(p, t, NewThread(t, "garble"), "start")
      /\ WorkerOK(Other(p), t, NewThread(t, "circuits"), "start")
  BY <1>2, <1>3, <1>5, WorkerWaits
<1>7. NewThread(t, "garble") \in Worker0(SendPc) /\ NewThread(t, "circuits") \in Worker0(RecvPc)
  <2>1. "garble" \in SendPc /\ "circuits" \in RecvPc
    BY DEF SendPc, RecvPc
  <2>2. s.next \in Nat /\ s.ot \in Nat /\ s.bckt \in Bucket /\ s.iter \in Nat
    BY <1>2 DEF Worker0
  <2>3. s.next = Start(t) /\ s.ot = 0 /\ s.bckt = t /\ s.iter = FirstIter(t)
    BY <1>2, <1>4
  <2> QED BY <2>1, <2>2, <2>3 DEF Worker0, NewThread
<1> QED BY <1>1, <1>5, <1>6, <1>7 DEF s, r

\* The peer's parameters are received; if they are equal, the threads start.
LEMMA MainStartKeeps ==
    ASSUME InitSizes, Inv, NEW p \in Party, MainStart(p)
    PROVE  Inv'
<1> DEFINE w == SubSeq(net[InitEnd(p)], 3, Len(net[InitEnd(p)]))
<1>1. ASSUME ~ParamsMatch, Abort(p)
      PROVE  Inv'
  BY <1>1, AbortKeeps DEF Matched
<1>2. SUFFICES
        ASSUME ParamsMatch, net' = [net EXCEPT ![InitEnd(p)] = w], MainGo(p, "circuits"),
               send' = [send EXCEPT ![p] = [t \in Thread |-> NewThread(t, "garble")]],
               recv' = [recv EXCEPT ![p] = [t \in Thread |-> NewThread(t, "circuits")]],
               UNCHANGED <<seed, theirs, pipe, mine, their, bucket, aborted>>
        PROVE  Inv'
  BY <1>1 DEF MainStart, Drop
<1>3. main[p] = "params"
  BY DEF MainStart, MainAt
<1>4. w \in Seq(Message)
  <2>1. net[InitEnd(p)] \in Seq(Message)
    BY Ends2 DEF Inv, Shape
  <2> QED BY <2>1
<1> HIDE DEF w
<1>5. /\ net' \in [Ends -> Seq(Message)]
      /\ \A z \in Party, u \in Thread : net'[RecvEnd(z, u)] = net[RecvEnd(z, u)]
  BY <1>2, <1>4, InitChannel
<1>6. /\ main' \in [Party -> MainPc] /\ main'[p] = "circuits"
      /\ \A q \in Party : q # p => main'[q] = main[q]
  <2>1. main \in [Party -> MainPc] /\ "circuits" \in MainPc
    BY DEF Inv, Shape, MainPc
  <2> QED BY <2>1, <1>2 DEF MainGo
<1>7. \A t \in Thread :
        /\ send[p][t].pc = "unborn" /\ recv[p][t].pc = "unborn"
        /\ NewThread(t, "garble") \in Worker0(SendPc)
        /\ SameWork(send[p][t], NewThread(t, "garble"))
        /\ WorkerOK(p, t, NewThread(t, "garble"), "start")
        /\ NewThread(t, "circuits") \in Worker0(RecvPc)
        /\ SameWork(recv[p][t], NewThread(t, "circuits"))
        /\ WorkerOK(Other(p), t, NewThread(t, "circuits"), "start")
        /\ NewThread(t, "garble").pc = "garble" /\ NewThread(t, "circuits").pc = "circuits"
  <2>1. \A t \in Thread : NewThread(t, "garble").pc = "garble"
                          /\ NewThread(t, "circuits").pc = "circuits"
    BY DEF NewThread
  <2> QED BY <1>3, <2>1, NewThreads
<1>8. /\ send' \in [Party -> [Thread -> Worker0(SendPc)]]
      /\ \A t \in Thread : send'[p][t] = NewThread(t, "garble")
      /\ \A q \in Party : q # p => send'[q] = send[q]
  <2> DEFINE f == [t \in Thread |-> NewThread(t, "garble")]
  <2>1. f \in [Thread -> Worker0(SendPc)] /\ \A t \in Thread : f[t] = NewThread(t, "garble")
    BY <1>7
  <2>2. send \in [Party -> [Thread -> Worker0(SendPc)]] /\ send' = [send EXCEPT ![p] = f]
    BY <1>2 DEF Inv, Shape
  <2> HIDE DEF f
  <2> QED BY <2>1, <2>2
<1>9. /\ recv' \in [Party -> [Thread -> Worker0(RecvPc)]]
      /\ \A t \in Thread : recv'[p][t] = NewThread(t, "circuits")
      /\ \A q \in Party : q # p => recv'[q] = recv[q]
  <2> DEFINE f == [t \in Thread |-> NewThread(t, "circuits")]
  <2>1. f \in [Thread -> Worker0(RecvPc)] /\ \A t \in Thread : f[t] = NewThread(t, "circuits")
    BY <1>7
  <2>2. recv \in [Party -> [Thread -> Worker0(RecvPc)]] /\ recv' = [recv EXCEPT ![p] = f]
    BY <1>2 DEF Inv, Shape
  <2> HIDE DEF f
  <2> QED BY <2>1, <2>2
\* All but the pc stays as it was, and the pc stays in its phase.
<1>10. \A q \in Party : \A u \in Thread :
        /\ SameWork(send[q][u], send'[q][u])
        /\ SendPhase(send'[q][u].pc) = SendPhase(send[q][u].pc)
        /\ q # p => send'[q][u] = send[q][u]
        /\ q = p => send[q][u].pc = "unborn" /\ send'[q][u].pc = "garble"
  <2> SUFFICES ASSUME NEW q \in Party, NEW u \in Thread
               PROVE  /\ SameWork(send[q][u], send'[q][u])
                      /\ SendPhase(send'[q][u].pc) = SendPhase(send[q][u].pc)
                      /\ q # p => send'[q][u] = send[q][u]
                      /\ q = p => send[q][u].pc = "unborn" /\ send'[q][u].pc = "garble"
    OBVIOUS
  <2>1. CASE q = p
    BY <2>1, <1>7, <1>8 DEF SendPhase
  <2>2. CASE q # p
    BY <2>2, <1>8 DEF SameWork
  <2> QED BY <2>1, <2>2
<1>11. \A q \in Party : \A u \in Thread :
        /\ SameWork(recv[q][u], recv'[q][u])
        /\ RecvPhase(recv'[q][u].pc) = RecvPhase(recv[q][u].pc)
        /\ q # p => recv'[q][u] = recv[q][u]
        /\ q = p => recv[q][u].pc = "unborn" /\ recv'[q][u].pc = "circuits"
  <2> SUFFICES ASSUME NEW q \in Party, NEW u \in Thread
               PROVE  /\ SameWork(recv[q][u], recv'[q][u])
                      /\ RecvPhase(recv'[q][u].pc) = RecvPhase(recv[q][u].pc)
                      /\ q # p => recv'[q][u] = recv[q][u]
                      /\ q = p => recv[q][u].pc = "unborn" /\ recv'[q][u].pc = "circuits"
    OBVIOUS
  <2>1. CASE q = p
    BY <2>1, <1>7, <1>9 DEF RecvPhase
  <2>2. CASE q # p
    BY <2>2, <1>9 DEF SameWork
  <2> QED BY <2>1, <2>2
<1>12. Shape'
  BY <1>2, <1>5, <1>6, <1>8, <1>9 DEF Inv, Shape
<1>13. Threads'
  <2> SUFFICES ASSUME NEW q \in Party, NEW u \in Thread
               PROVE  /\ WorkerOK(q, u, send'[q][u], SendPhase(send'[q][u].pc))
                      /\ WorkerOK(Other(q), u, recv'[q][u], RecvPhase(recv'[q][u].pc))
                      /\ PipeOK(q, u, pipe[q][u], send'[q][u], recv'[Other(q)][u])
                      /\ WireOK(q, u, net'[RecvEnd(q, u)], send'[Other(q)][u], recv'[q][u],
                                seed[q], seed[Other(q)])
    BY <1>2 DEF Threads
  <2> DEFINE z == Other(q)
  <2>1. /\ WorkerOK(q, u, send[q][u], SendPhase(send[q][u].pc))
        /\ WorkerOK(z, u, recv[q][u], RecvPhase(recv[q][u].pc))
        /\ PipeOK(q, u, pipe[q][u], send[q][u], recv[z][u])
        /\ WireOK(q, u, net[RecvEnd(q, u)], send[z][u], recv[q][u], seed[q], seed[z])
    BY DEF Inv, Threads
  <2>2. z \in Party
    BY Ends2
  <2> HIDE DEF z
  <2>3. WorkerOK(q, u, send'[q][u], SendPhase(send'[q][u].pc))
    <3>1. SameWork(send[q][u], send'[q][u])
          /\ SendPhase(send'[q][u].pc) = SendPhase(send[q][u].pc)
      BY <1>10
    <3> QED BY <2>1, <3>1, WorkerWaits
  <2>4. WorkerOK(z, u, recv'[q][u], RecvPhase(recv'[q][u].pc))
    <3>1. SameWork(recv[q][u], recv'[q][u])
          /\ RecvPhase(recv'[q][u].pc) = RecvPhase(recv[q][u].pc)
      BY <1>11
    <3> QED BY <2>1, <2>2, <3>1, WorkerWaits
  <2>5. PipeOK(q, u, pipe[q][u], send'[q][u], recv'[z][u])
    <3>1. send'[q][u].next = send[q][u].next /\ recv'[z][u].next = recv[z][u].next
      BY <2>2, <1>10, <1>11 DEF SameWork
    <3> QED BY <2>1, <3>1 DEF PipeOK
  <2>6. \A o : Sent(u, o, send'[z][u]) = Sent(u, o, send[z][u])
    <3>1. CASE z = p
      BY <2>2, <3>1, <1>10 DEF Sent
    <3>2. CASE z # p
      BY <2>2, <3>2, <1>10
    <3> QED BY <3>1, <3>2
  <2>7. \A o : Read(u, o, recv'[q][u]) = Read(u, o, recv[q][u])
    <3>1. CASE q = p
      BY <3>1, <1>11 DEF Read
    <3>2. CASE q # p
      BY <3>2, <1>11
    <3> QED BY <3>1, <3>2
  <2>8. WireOK(q, u, net'[RecvEnd(q, u)], send'[z][u], recv'[q][u], seed[q], seed[z])
    BY <2>1, <2>6, <2>7, <1>5 DEF WireOK
  <2> QED BY <2>3, <2>4, <2>5, <2>8 DEF z
<1>14. Contents'
  <2> SUFFICES ASSUME NEW q \in Party
               PROVE  /\ \A c \in Circuit :
                            /\ MineOK(q, c, mine[q][c], send'[q][Owner(c)], theirs[q])
                            /\ TheirOK(q, c, their[q][c], recv'[q][Owner(c)], seed[q])
                      /\ \A b \in Bucket :
                            BucketOK(q, b, bucket[q][b], send'[q][b % NumInitThreads],
                                     recv'[q][b % NumInitThreads], theirs[q], seed[q])
    BY <1>2 DEF Contents
  <2>1. /\ \A c \in Circuit : /\ MineOK(q, c, mine[q][c], send[q][Owner(c)], theirs[q])
                              /\ TheirOK(q, c, their[q][c], recv[q][Owner(c)], seed[q])
        /\ \A b \in Bucket :
              BucketOK(q, b, bucket[q][b], send[q][b % NumInitThreads],
                       recv[q][b % NumInitThreads], theirs[q], seed[q])
    BY DEF Inv, Contents
  <2>2. ASSUME NEW c \in Circuit
        PROVE  /\ MineOK(q, c, mine[q][c], send'[q][Owner(c)], theirs[q])
               /\ TheirOK(q, c, their[q][c], recv'[q][Owner(c)], seed[q])
    <3> DEFINE u == Owner(c)
    <3>1. u \in Thread
      BY Owners
    <3>2. /\ MineOK(q, c, mine[q][c], send[q][u], theirs[q])
          /\ TheirOK(q, c, their[q][c], recv[q][u], seed[q])
      BY <2>1
    <3> HIDE DEF u
    <3>3. MineOK(q, c, mine[q][c], send'[q][u], theirs[q])
      <4>1. send'[q][u].next = send[q][u].next
        BY <3>1, <1>10 DEF SameWork
      <4> QED BY <3>2, <4>1 DEF MineOK
    <3>4. TheirOK(q, c, their[q][c], recv'[q][u], seed[q])
      <4>1. /\ recv'[q][u].next = recv[q][u].next
            /\ RecvPhase(recv'[q][u].pc) = RecvPhase(recv[q][u].pc)
        BY <3>1, <1>11 DEF SameWork
      <4>2. recv'[q][u].pc \in {"unborn", "circuits"} <=> recv[q][u].pc \in {"unborn", "circuits"}
        BY <3>1, <1>11
      <4> QED BY <3>2, <4>1, <4>2 DEF TheirOK
    <3> QED BY <3>3, <3>4 DEF u
  <2>3. ASSUME NEW b \in Bucket
        PROVE  BucketOK(q, b, bucket[q][b], send'[q][b % NumInitThreads],
                        recv'[q][b % NumInitThreads], theirs[q], seed[q])
    <3> DEFINE u == b % NumInitThreads
    <3>1. u \in Thread
      BY BucketOwner
    <3>2. BucketOK(q, b, bucket[q][b], send[q][u], recv[q][u], theirs[q], seed[q])
      BY <2>1
    <3> HIDE DEF u
    <3>3. /\ send'[q][u].bckt = send[q][u].bckt
          /\ SendPhase(send'[q][u].pc) = SendPhase(send[q][u].pc)
          /\ recv'[q][u].bckt = recv[q][u].bckt
          /\ RecvPhase(recv'[q][u].pc) = RecvPhase(recv[q][u].pc)
      BY <3>1, <1>10, <1>11 DEF SameWork
    <3>4. BucketOK(q, b, bucket[q][b], send'[q][u], recv'[q][u], theirs[q], seed[q])
      BY <3>2, <3>3 DEF BucketOK, Filled, Delivered, Labelled
    <3> QED BY <3>4 DEF u
  <2> QED BY <2>2, <2>3
<1>15. DeltasLate'
  <2> SUFFICES ASSUME NEW q \in Party, NEW b \in Bucket, bucket[q][b].deltas,
                      NEW n \in 1..BucketSize
               PROVE  Content(seed[q], b)[n] < recv'[q][Owner(Content(seed[q], b)[n])].next
    BY <1>2 DEF DeltasLate
  <2> DEFINE c == Content(seed[q], b)[n]
             u == Owner(c)
  <2>1. c < recv[q][u].next
    <3>1. DeltasLate
      BY DEF Inv
    <3> QED BY <3>1 DEF DeltasLate
  <2>2. c \in Circuit
    <3>1. seed[q] \in Seeds
      BY DEF Inv, Shape
    <3>2. Content(seed[q], b) \in [1..BucketSize -> Circuit]
      BY <3>1, ContentFacts
    <3> QED BY <3>2
  <2>3. u \in Thread
    BY <2>2, Owners
  <2> HIDE DEF u, c
  <2>4. recv'[q][u].next = recv[q][u].next
    BY <2>3, <1>11 DEF SameWork
  <2>5. c < recv'[q][u].next
    BY <2>1, <2>4
  <2> QED BY <2>5 DEF u, c
<1>16. Mains'
  <2> SUFFICES ASSUME NEW q \in Party
               PROVE  /\ MainOK(q, main'[q], send'[q], recv'[q], theirs[q], seed[Other(q)])
                      /\ main'[q] = "online" => \A z \in Party, u \in Thread : pipe[z][u].ended
    BY <1>2 DEF Mains
  <2>1. /\ MainOK(q, main[q], send[q], recv[q], theirs[q], seed[Other(q)])
        /\ main[q] = "online" => \A z \in Party, u \in Thread : pipe[z][u].ended
    BY DEF Inv, Mains
  <2>2. CASE q = p
    <3>1. \A t \in Thread : send'[p][t].pc = "garble" /\ recv'[p][t].pc = "circuits"
      BY <1>10, <1>11
    <3>2. \A t \in Thread : SendPhase(send'[p][t].pc) = "start"
      BY <3>1 DEF SendPhase
    <3>3. theirs[p] = <<>>
      BY <2>1, <2>2, <1>3 DEF MainOK
    <3>4. MainOK(p, "circuits", send'[p], recv'[p], theirs[p], seed[Other(p)])
      BY <3>1, <3>2, <3>3, <1>2 DEF MainOK, MainPc, Early
    <3> QED BY <3>4, <2>2, <1>6
  <2>3. CASE q # p
    BY <2>1, <2>3, <1>6, <1>8, <1>9
  <2> QED BY <2>2, <2>3
<1>17. Sound'
  <2> SUFFICES ASSUME Matched
               PROVE  /\ \A q \in Party : ~aborted[q]
                      /\ \A q \in Party, u \in Thread : recv'[q][u].pc # "noproof"
    BY <1>2 DEF Sound, Matched, ParamsMatch
  <2>1. /\ \A q \in Party : ~aborted[q]
        /\ \A q \in Party, u \in Thread : recv[q][u].pc # "noproof"
    BY DEF Inv, Sound
  <2> QED BY <2>1, <1>11
<1> QED BY <1>12, <1>13, <1>14, <1>15, <1>16, <1>17 DEF Inv

-----------------------------------------------------------------------------
(* The steps of the OT extensions. *)

\* A step that only brings one pipe on keeps the invariant.
LEMMA PipeMoves ==
    ASSUME InitSizes, Inv, NEW p \in Party, NEW t \in Thread,
           NEW e \in [recv : Nat, send : Nat, ended : BOOLEAN],
           pipe' = [pipe EXCEPT ![p] = [pipe[p] EXCEPT ![t] = e]],
           e.recv \in pipe[p][t].recv..NumOTs(p), e.send \in pipe[p][t].send..NumOTs(p),
           pipe[p][t].ended => e.ended,
           UNCHANGED <<main, seed, theirs, send, recv, mine, their, bucket, net, aborted>>
    PROVE  Inv'
<1>1. /\ pipe' \in [Party -> [Thread -> [recv : Nat, send : Nat, ended : BOOLEAN]]]
      /\ pipe'[p][t] = e
      /\ \A q \in Party, u \in Thread : q # p \/ u # t => pipe'[q][u] = pipe[q][u]
  <2> DEFINE E == [recv : Nat, send : Nat, ended : BOOLEAN]
  <2>1. pipe \in [Party -> [Thread -> E]] /\ e \in E
    BY DEF Inv, Shape
  <2> DEFINE row == [pipe[p] EXCEPT ![t] = e]
  <2> HIDE DEF E
  <2>2. row \in [Thread -> E] /\ row[t] = e /\ \A u \in Thread : u # t => row[u] = pipe[p][u]
    BY ONLY <2>1, p \in Party, t \in Thread
  <2>3. pipe' = [pipe EXCEPT ![p] = row]
    OBVIOUS
  <2> HIDE DEF row
  <2>4. /\ pipe' \in [Party -> [Thread -> E]] /\ pipe'[p] = row
        /\ \A q \in Party : q # p => pipe'[q] = pipe[q]
    BY ONLY <2>1, <2>2, <2>3, p \in Party
  <2> QED BY <2>2, <2>4 DEF E
<1>2. Shape'
  BY <1>1 DEF Inv, Shape
<1>3. Threads'
  <2> SUFFICES ASSUME NEW q \in Party, NEW u \in Thread
               PROVE  /\ WorkerOK(q, u, send[q][u], SendPhase(send[q][u].pc))
                      /\ WorkerOK(Other(q), u, recv[q][u], RecvPhase(recv[q][u].pc))
                      /\ PipeOK(q, u, pipe'[q][u], send[q][u], recv[Other(q)][u])
                      /\ WireOK(q, u, net[RecvEnd(q, u)], send[Other(q)][u], recv[q][u],
                                seed[q], seed[Other(q)])
    BY DEF Threads
  <2>1. /\ WorkerOK(q, u, send[q][u], SendPhase(send[q][u].pc))
        /\ WorkerOK(Other(q), u, recv[q][u], RecvPhase(recv[q][u].pc))
        /\ PipeOK(q, u, pipe[q][u], send[q][u], recv[Other(q)][u])
        /\ WireOK(q, u, net[RecvEnd(q, u)], send[Other(q)][u], recv[q][u],
                  seed[q], seed[Other(q)])
    BY DEF Inv, Threads
  <2>2. CASE q # p \/ u # t
    BY <2>1, <2>2, <1>1
  <2>3. CASE q = p /\ u = t
    <3> DEFINE d == pipe[p][t]
               a == (send[p][t].next - Start(t)) * Encoding[p]
               b == (recv[Other(p)][t].next - Start(t)) * Encoding[p]
               N == NumOTs(p)
    <3>1. PipeOK(p, t, d, send[p][t], recv[Other(p)][t])
      BY <2>1, <2>3
    <3>2. d.recv \in Nat /\ d.send \in Nat /\ N \in Nat
      BY Sizes DEF Inv, Shape
    <3>3. a \in Int /\ b \in Int
      <4>1. /\ WorkerOK(p, t, send[p][t], SendPhase(send[p][t].pc))
            /\ WorkerOK(Other(Other(p)), t, recv[Other(p)][t], RecvPhase(recv[Other(p)][t].pc))
        BY Ends2 DEF Inv, Threads
      <4>2. send[p][t].next \in Nat /\ recv[Other(p)][t].next \in Nat
        BY <4>1 DEF WorkerOK
      <4>3. Start(t) \in Nat /\ Encoding[p] \in Nat
        BY ThreadFacts, OTFacts
      <4> QED BY <4>2, <4>3
    <3>4. e.recv \in d.recv..N /\ e.send \in d.send..N
      OBVIOUS
    <3>5. d.recv >= a /\ (Encoding[0] = Encoding[1] => d.send >= b)
      BY <3>1 DEF PipeOK
    <3> HIDE DEF d, a, b, N
    <3>6. e.recv \in 0..N /\ e.send \in 0..N
      BY <3>2, <3>4
    <3>7. e.recv >= a /\ (Encoding[0] = Encoding[1] => e.send >= b)
      BY <3>2, <3>3, <3>4, <3>5
    <3>8. PipeOK(p, t, e, send[p][t], recv[Other(p)][t])
      BY <3>6, <3>7 DEF PipeOK, a, b, N
    <3> QED BY <2>1, <2>3, <3>8, <1>1
  <2> QED BY <2>2, <2>3
<1>4. Contents' /\ DeltasLate' /\ Sound'
  <2>1. Contents'
    BY DEF Inv, Contents
  <2>2. DeltasLate'
    BY DEF Inv, DeltasLate
  <2>3. Sound'
    BY DEF Inv, Sound, Matched, ParamsMatch
  <2> QED BY <2>1, <2>2, <2>3
<1>5. Mains'
  <2> SUFFICES ASSUME NEW q \in Party
               PROVE  /\ MainOK(q, main[q], send[q], recv[q], theirs[q], seed[Other(q)])
                      /\ main[q] = "online" => \A z \in Party, u \in Thread : pipe'[z][u].ended
    BY DEF Mains
  <2>1. /\ MainOK(q, main[q], send[q], recv[q], theirs[q], seed[Other(q)])
        /\ main[q] = "online" => \A z \in Party, u \in Thread : pipe[z][u].ended
    BY DEF Inv, Mains
  <2>2. \A z \in Party, u \in Thread : pipe[z][u].ended => pipe'[z][u].ended
    BY <1>1
  <2> QED BY <2>1, <2>2
<1> QED BY <1>2, <1>3, <1>4, <1>5 DEF Inv

\* The OT extension delivers an OT to the receiver.
LEMMA OTReceiveKeeps ==
    ASSUME InitSizes, Inv, NEW p \in Party, NEW t \in Thread, OTReceive(p, t)
    PROVE  Inv'
<1> DEFINE d == pipe[p][t]
           n == Min(d.recv + OTBatch, NumOTs(p))
           e == [d EXCEPT !.recv = n]
<1>1. d \in [recv : Nat, send : Nat, ended : BOOLEAN] /\ NumOTs(p) \in Nat /\ OTBatch \in Nat
  BY Sizes DEF Inv, Shape, InitSizes
<1>2. d.send \in 0..NumOTs(p) /\ d.recv \in 0..NumOTs(p)
  BY DEF Inv, Threads, PipeOK
<1>3. n \in d.recv..NumOTs(p) /\ n \in Nat
  <2>1. d.recv \in Nat
    BY <1>1
  <2> QED BY <2>1, <1>1, <1>2 DEF Min
<1>4. pipe' = [pipe EXCEPT ![p] = [pipe[p] EXCEPT ![t] = e]]
      /\ UNCHANGED <<main, seed, theirs, send, recv, mine, their, bucket, net, aborted>>
  <2>1. /\ pipe' = [pipe EXCEPT ![p][t].recv = Min(@ + OTBatch, NumOTs(p))]
        /\ UNCHANGED <<main, seed, theirs, send, recv, mine, their, bucket, net, aborted>>
    BY DEF OTReceive
  <2> QED BY <2>1
<1> HIDE DEF n
<1>5. /\ e \in [recv : Nat, send : Nat, ended : BOOLEAN]
      /\ e.recv = n /\ e.send = d.send /\ e.ended = d.ended
  <2> HIDE DEF d
  <2> QED BY <1>1, <1>3
<1>6. e.recv \in d.recv..NumOTs(p) /\ e.send \in d.send..NumOTs(p)
  <2> HIDE DEF d, e
  <2> QED BY <1>1, <1>2, <1>3, <1>5
<1> HIDE DEF e
<1> QED BY <1>4, <1>5, <1>6, PipeMoves

\* The OT extension delivers an OT to the sender.
LEMMA OTSendKeeps ==
    ASSUME InitSizes, Inv, NEW p \in Party, NEW t \in Thread, OTSend(p, t)
    PROVE  Inv'
<1> DEFINE d == pipe[p][t]
           n == Min(d.send + OTBatch, NumOTs(p))
           e == [d EXCEPT !.send = n]
<1>1. d \in [recv : Nat, send : Nat, ended : BOOLEAN] /\ NumOTs(p) \in Nat /\ OTBatch \in Nat
  BY Sizes DEF Inv, Shape, InitSizes
<1>2. d.send \in 0..NumOTs(p) /\ d.recv \in 0..NumOTs(p)
  BY DEF Inv, Threads, PipeOK
<1>3. n \in d.send..NumOTs(p) /\ n \in Nat
  <2>1. d.send \in Nat
    BY <1>1
  <2> QED BY <2>1, <1>1, <1>2 DEF Min
<1>4. pipe' = [pipe EXCEPT ![p] = [pipe[p] EXCEPT ![t] = e]]
      /\ UNCHANGED <<main, seed, theirs, send, recv, mine, their, bucket, net, aborted>>
  <2>1. /\ pipe' = [pipe EXCEPT ![p][t].send = Min(@ + OTBatch, NumOTs(p))]
        /\ UNCHANGED <<main, seed, theirs, send, recv, mine, their, bucket, net, aborted>>
    BY DEF OTSend
  <2> QED BY <2>1
<1> HIDE DEF n
<1>5. /\ e \in [recv : Nat, send : Nat, ended : BOOLEAN]
      /\ e.recv = d.recv /\ e.send = n /\ e.ended = d.ended
  <2> HIDE DEF d
  <2> QED BY <1>1, <1>3
<1>6. e.recv \in d.recv..NumOTs(p) /\ e.send \in d.send..NumOTs(p)
  <2> HIDE DEF d, e
  <2> QED BY <1>1, <1>2, <1>3, <1>5
<1> HIDE DEF e
<1> QED BY <1>4, <1>5, <1>6, PipeMoves

\* The OT extension has delivered all of its OTs.
LEMMA OTEndKeeps ==
    ASSUME InitSizes, Inv, NEW p \in Party, NEW t \in Thread, OTEnd(p, t)
    PROVE  Inv'
<1> DEFINE d == pipe[p][t]
           e == [d EXCEPT !.ended = TRUE]
<1>1. d \in [recv : Nat, send : Nat, ended : BOOLEAN] /\ NumOTs(p) \in Nat
  BY Sizes DEF Inv, Shape
<1>2. d.send \in 0..NumOTs(p) /\ d.recv \in 0..NumOTs(p)
  BY DEF Inv, Threads, PipeOK
<1>3. pipe' = [pipe EXCEPT ![p] = [pipe[p] EXCEPT ![t] = e]]
      /\ UNCHANGED <<main, seed, theirs, send, recv, mine, their, bucket, net, aborted>>
  <2>1. /\ pipe' = [pipe EXCEPT ![p][t].ended = TRUE]
        /\ UNCHANGED <<main, seed, theirs, send, recv, mine, their, bucket, net, aborted>>
    BY DEF OTEnd
  <2> QED BY <2>1
<1>4. /\ e \in [recv : Nat, send : Nat, ended : BOOLEAN]
      /\ e.recv = d.recv /\ e.send = d.send /\ e.ended = TRUE
  <2> HIDE DEF d
  <2> QED BY <1>1
<1>5. e.recv \in d.recv..NumOTs(p) /\ e.send \in d.send..NumOTs(p)
  <2> HIDE DEF d, e
  <2> QED BY <1>1, <1>2, <1>4
<1> HIDE DEF e
<1> QED BY <1>3, <1>4, <1>5, PipeMoves

-----------------------------------------------------------------------------
(* The invariant holds. *)

LEMMA NewWorker ==
    ASSUME InitSizes, NEW t \in Thread, NEW p \in Party
    PROVE  /\ NewThread(t, "unborn") \in Worker0(SendPc) \cap Worker0(RecvPc)
           /\ WorkerOK(p, t, NewThread(t, "unborn"), "start")
<1> DEFINE w == NewThread(t, "unborn")
<1>1. Start(t) \in Nat /\ Encoding[p] \in Nat /\ t \in Bucket
  BY ThreadFacts, OTFacts, Turning
<1>2. FirstIter(t) = t * BucketSize /\ FirstIter(t) \in 0..BucketSize * NumExe
  <2>1. t \in Nat /\ NumExe \in Nat /\ t <= NumExe /\ BucketSize \in Nat
    BY <1>1, Sizes DEF Bucket, InitSizes
  <2>2. BucketSize * t <= BucketSize * NumExe /\ BucketSize * t \in Nat
    BY <2>1, Times
  <2>3. BucketSize * t = t * BucketSize
    BY <2>1
  <2> QED BY <2>2, <2>3, <2>1 DEF FirstIter
<1>3. /\ w.pc = "unborn" /\ w.next = Start(t) /\ w.ot = 0 /\ w.bckt = t
      /\ w.iter = t * BucketSize
  BY <1>2 DEF NewThread
<1>4. w \in Worker0(SendPc) \cap Worker0(RecvPc)
  <2>1. "unborn" \in SendPc /\ "unborn" \in RecvPc
    BY DEF SendPc, RecvPc
  <2>2. FirstIter(t) \in Nat
    BY <1>2
  <2> QED BY <2>1, <2>2, <1>1 DEF NewThread, Worker0
<1>5. w.ot = (w.next - Start(t)) * Encoding[p]
  BY <1>1, <1>3
<1>6. w.iter \in 0..BucketSize * NumExe
  BY <1>2, <1>3
<1> HIDE DEF w
<1>7. WorkerOK(p, t, w, "start")
  BY <1>1, <1>3, <1>5, <1>6 DEF WorkerOK, Early, Late
<1> QED BY <1>4, <1>7 DEF w

\* The invariant holds at first.
LEMMA InitInv ==
    ASSUME InitSizes, Init
    PROVE  Inv
<1>1. \A p \in Party : \A t \in Thread :
        /\ send[p][t] = NewThread(t, "unborn") /\ recv[p][t] = NewThread(t, "unborn")
        /\ pipe[p][t] = [recv |-> 0, send |-> 0, ended |-> FALSE]
        /\ net[RecvEnd(p, t)] = <<>>
  BY Ends2 DEF Init
<1>2. Shape
  <2>1. \A t \in Thread : NewThread(t, "unborn") \in Worker0(SendPc) \cap Worker0(RecvPc)
    BY NewWorker DEF Party
  <2>2. send \in [Party -> [Thread -> Worker0(SendPc)]] /\ recv \in [Party -> [Thread -> Worker0(RecvPc)]]
    BY <2>1 DEF Init
  <2>3. /\ main \in [Party -> MainPc] /\ seed \in [Party -> Seeds]
        /\ theirs \in [Party -> Seeds \cup {<<>>}] /\ aborted \in [Party -> BOOLEAN]
    BY DEF Init, MainPc
  <2>4. pipe \in [Party -> [Thread -> [recv : Nat, send : Nat, ended : BOOLEAN]]]
    BY DEF Init
  <2>5. /\ mine \in [Party -> [Circuit -> [ot : Int, cleared : BOOLEAN]]]
        /\ their \in [Party -> [Circuit -> [received : BOOLEAN, ot : Int, checked : BOOLEAN]]]
    BY DEF Init, NewMine, NewTheir, Unset
  <2>6. bucket \in [Party -> [Bucket -> [mine : Picks, their : Picks, deltas : BOOLEAN,
                                         psiSend : Int, psiRecv : Int, labels : BOOLEAN]]]
    BY DEF Init, NewBucket, Picks, Unset
  <2>7. net \in [Ends -> Seq(Message)]
    BY DEF Init
  <2> QED BY <2>2, <2>3, <2>4, <2>5, <2>6, <2>7 DEF Shape
<1>3. \A t \in Thread : NewThread(t, "unborn").pc = "unborn"
                        /\ NewThread(t, "unborn").next = Start(t)
  BY DEF NewThread
<1>4. Threads
  <2> SUFFICES ASSUME NEW p \in Party, NEW t \in Thread
               PROVE  /\ WorkerOK(p, t, send[p][t], SendPhase(send[p][t].pc))
                      /\ WorkerOK(Other(p), t, recv[p][t], RecvPhase(recv[p][t].pc))
                      /\ PipeOK(p, t, pipe[p][t], send[p][t], recv[Other(p)][t])
                      /\ WireOK(p, t, net[RecvEnd(p, t)], send[Other(p)][t], recv[p][t],
                                seed[p], seed[Other(p)])
    BY DEF Threads
  <2> DEFINE q == Other(p)
             w == NewThread(t, "unborn")
  <2>1. q \in Party
    BY Ends2
  <2>2. /\ send[p][t] = w /\ recv[p][t] = w /\ send[q][t] = w /\ recv[q][t] = w
        /\ w.pc = "unborn" /\ w.next = Start(t)
    BY <1>1, <1>3, <2>1
  <2>3. WorkerOK(p, t, w, "start") /\ WorkerOK(q, t, w, "start")
    BY <2>1, NewWorker
  <2> HIDE DEF q, w
  <2>4. SendPhase(w.pc) = "start" /\ RecvPhase(w.pc) = "start"
    BY <2>2 DEF SendPhase, RecvPhase
  <2>5. PipeOK(p, t, pipe[p][t], w, w)
    <3>1. Start(t) \in Nat /\ Encoding[p] \in Nat /\ NumOTs(p) \in Nat
      BY ThreadFacts, OTFacts, Sizes
    <3>2. (w.next - Start(t)) * Encoding[p] = 0
      BY <2>2, <3>1
    <3> QED BY <1>1, <3>1, <3>2 DEF PipeOK
  <2>6. WireOK(p, t, net[RecvEnd(p, t)], w, w, seed[p], seed[q])
    <3>1. net[RecvEnd(p, t)] = <<>> /\ \A o : Sent(t, o, w) = 0 /\ Read(t, o, w) = 0
      BY <1>1, <2>2 DEF Sent, Read
    <3> QED BY <3>1 DEF WireOK
  <2> QED BY <2>2, <2>3, <2>4, <2>5, <2>6 DEF q
<1>5. Contents
  <2> SUFFICES ASSUME NEW p \in Party
               PROVE  /\ \A c \in Circuit :
                            /\ MineOK(p, c, mine[p][c], send[p][Owner(c)], theirs[p])
                            /\ TheirOK(p, c, their[p][c], recv[p][Owner(c)], seed[p])
                      /\ \A b \in Bucket :
                            BucketOK(p, b, bucket[p][b], send[p][b % NumInitThreads],
                                     recv[p][b % NumInitThreads], theirs[p], seed[p])
    BY DEF Contents
  <2>1. ASSUME NEW c \in Circuit
        PROVE  /\ MineOK(p, c, mine[p][c], send[p][Owner(c)], theirs[p])
               /\ TheirOK(p, c, their[p][c], recv[p][Owner(c)], seed[p])
    <3> DEFINE u == Owner(c)
    <3>1. u \in Thread /\ c \in Share(u)
      BY Owners
    <3> HIDE DEF u
    <3>2. ~ c < Start(u)
      BY <3>1, ThreadFacts
    <3>3. /\ send[p][u].next = Start(u) /\ recv[p][u].next = Start(u)
          /\ recv[p][u].pc = "unborn"
      BY <3>1, <1>1, <1>3
    <3>4. mine[p][c] = NewMine /\ their[p][c] = NewTheir
      BY DEF Init
    <3>5. MineOK(p, c, mine[p][c], send[p][u], theirs[p])
      BY <3>2, <3>3, <3>4 DEF MineOK, NewMine
    <3>6. TheirOK(p, c, their[p][c], recv[p][u], seed[p])
      BY <3>2, <3>3, <3>4 DEF TheirOK, NewTheir, RecvPhase, Early
    <3> QED BY <3>5, <3>6 DEF u
  <2>2. ASSUME NEW b \in Bucket
        PROVE  BucketOK(p, b, bucket[p][b], send[p][b % NumInitThreads],
                        recv[p][b % NumInitThreads], theirs[p], seed[p])
    <3> DEFINE u == b % NumInitThreads
    <3>1. u \in Thread
      BY BucketOwner
    <3> HIDE DEF u
    <3>2. SendPhase(send[p][u].pc) = "start" /\ RecvPhase(recv[p][u].pc) = "start"
      BY <3>1, <1>1, <1>3 DEF SendPhase, RecvPhase
    <3>3. bucket[p][b] = NewBucket
      BY DEF Init
    <3>4. BucketOK(p, b, bucket[p][b], send[p][u], recv[p][u], theirs[p], seed[p])
      BY <3>2, <3>3 DEF BucketOK, NewBucket, Filled, Delivered, Labelled, Late
    <3> QED BY <3>4 DEF u
  <2> QED BY <2>1, <2>2
<1>6. DeltasLate
  BY DEF Init, DeltasLate, NewBucket
<1>7. Mains
  <2> SUFFICES ASSUME NEW p \in Party
               PROVE  MainOK(p, "announce", send[p], recv[p], <<>>, seed[Other(p)])
                      /\ main[p] = "announce" /\ theirs[p] = <<>>
    BY DEF Mains
  <2>1. main[p] = "announce" /\ theirs[p] = <<>>
    BY DEF Init
  <2>2. \A t \in Thread : send[p][t].pc = "unborn" /\ recv[p][t].pc = "unborn"
    BY <1>1, <1>3
  <2>3. \A t \in Thread : SendPhase(send[p][t].pc) = "start"
    BY <2>2 DEF SendPhase
  <2> QED BY <2>1, <2>2, <2>3 DEF MainOK, MainPc, Early
<1>8. Sound
  BY <1>1, <1>3 DEF Sound, Init
<1> QED BY <1>2, <1>4, <1>5, <1>6, <1>7, <1>8 DEF Inv

\* Every step keeps the invariant.
LEMMA StepInv ==
    ASSUME InitSizes, Inv, [Next]_vars
    PROVE  Inv'
<1>1. CASE UNCHANGED vars
  <2>1. UNCHANGED <<main, seed, theirs, pipe, send, recv, mine, their, bucket, net, aborted>>
    BY <1>1 DEF vars
  <2>2. Shape'
    BY <2>1 DEF Inv, Shape
  <2>3. Threads'
    BY <2>1 DEF Inv, Threads
  <2>4. Contents'
    BY <2>1 DEF Inv, Contents
  <2>5. DeltasLate' /\ Sound'
    BY <2>1 DEF Inv, DeltasLate, Sound, Matched, ParamsMatch
  <2>6. Mains'
    BY <2>1 DEF Inv, Mains
  <2> QED BY <2>2, <2>3, <2>4, <2>5, <2>6 DEF Inv
<1>2. ASSUME NEW p \in Party, MainStep(p)
      PROVE  Inv'
  <2>1. CASE MainAnnounce(p)
    BY <2>1, MainAnnounceKeeps
  <2>2. CASE MainStart(p)
    BY <2>2, MainStartKeeps
  <2>3. CASE MainReveal(p)
    BY <2>3, MainRevealKeeps
  <2>4. CASE MainSets(p)
    BY <2>4, MainSetsKeeps
  <2>5. CASE MainOnline(p)
    BY <2>5, MainOnlineKeeps
  <2> QED BY <1>2, <2>1, <2>2, <2>3, <2>4, <2>5 DEF MainStep
<1>3. ASSUME NEW p \in Party, NEW t \in Thread, OTReceive(p, t) \/ OTSend(p, t) \/ OTEnd(p, t)
      PROVE  Inv'
  BY <1>3, OTReceiveKeeps, OTSendKeeps, OTEndKeeps
<1>4. ASSUME NEW p \in Party, NEW t \in Thread, SendStep(p, t)
      PROVE  Inv'
  <2>1. CASE SendCircuits(p, t)
    BY <2>1, SendCircuitsKeeps
  <2>2. CASE SendSync(p, t)
    BY <2>2, SendSyncKeeps
  <2>3. CASE SendInitOT(p, t)
    BY <2>3, SendInitOTKeeps
  <2>4. CASE SendOpen(p, t)
    BY <2>4, SendOpenKeeps
  <2>5. CASE SendProof(p, t)
    BY <2>5, SendProofKeeps
  <2>6. CASE SendBucket(p, t)
    BY <2>6, SendBucketKeeps
  <2>7. CASE SendTranslation(p, t)
    BY <2>7, SendTranslationKeeps
  <2>8. CASE SendKProbe(p, t)
    BY <2>8, SendKProbeKeeps
  <2> QED BY <1>4, <2>1, <2>2, <2>3, <2>4, <2>5, <2>6, <2>7, <2>8 DEF SendStep
<1>5. ASSUME NEW p \in Party, NEW t \in Thread, RecvStep(p, t)
      PROVE  Inv'
  <2>1. CASE RecvCircuits(p, t)
    BY <2>1, RecvCircuitsKeeps
  <2>2. CASE RecvInitOT(p, t)
    BY <2>2, RecvInitOTKeeps
  <2>3. CASE RecvDummy(p, t)
    BY <2>3, RecvDummyKeeps
  <2>4. CASE RecvOpen(p, t)
    BY <2>4, RecvOpenKeeps
  <2>5. CASE RecvProof(p, t)
    BY <2>5, RecvProofKeeps
  <2>6. CASE RecvBucket(p, t)
    BY <2>6, RecvBucketKeeps
  <2>7. CASE RecvDeltas(p, t)
    BY <2>7, RecvDeltasKeeps
  <2>8. CASE RecvKProbe(p, t)
    BY <2>8, RecvKProbeKeeps
  <2> QED BY <1>5, <2>1, <2>2, <2>3, <2>4, <2>5, <2>6, <2>7, <2>8 DEF RecvStep
<1> QED BY <1>1, <1>2, <1>3, <1>4, <1>5 DEF Next

-----------------------------------------------------------------------------
(* What the invariant says of init. *)

\* The deltas of a bucket have arrived: the peer has put its circuits into it.
LEMMA DeltasSent ==
    ASSUME InitSizes, Inv, NEW p \in Party, NEW t \in Thread, NEW b \in Bucket, OnTurn(t, b),
           Delivered(recv[p][t], RecvPhase(recv[p][t].pc), b)
    PROVE  Filled(send[Other(p)][t], SendPhase(send[Other(p)][t].pc), b)
<1> DEFINE q == Other(p)
           s == send[q][t]
           r == recv[p][t]
           o == Len(Opened(seed[p], t))
           z == Size(t)
           T == Turns(t)
           j == Turn(t, b)
<1>1. /\ q \in Party /\ s \in Worker0(SendPc) /\ r \in Worker0(RecvPc)
      /\ WorkerOK(q, t, s, SendPhase(s.pc)) /\ WorkerOK(q, t, r, RecvPhase(r.pc))
  BY AtThread
<1>2. /\ o \in Nat /\ Sent(t, o, s) \in Int /\ Read(t, o, r) \in Int
      /\ Read(t, o, r) <= Sent(t, o, s)
  <2>1. /\ o \in Nat /\ Sent(t, o, s) \in Int /\ Read(t, o, r) \in Int
        /\ Len(net[RecvEnd(p, t)]) = Sent(t, o, s) - Read(t, o, r)
        /\ Len(net[RecvEnd(p, t)]) \in Nat
    BY WireCounts
  <2> HIDE DEF o, q, s, r
  <2> QED BY <2>1
<1>3. j \in Nat /\ j < T /\ T \in Nat
  BY Turning DEF OnTurn
<1>4. z \in Nat \ {0} /\ Start(t) \in Nat /\ Start(t+1) = Start(t) + z
  BY ThreadFacts
<1>5. s.pc \in SendPc /\ r.pc \in RecvPc /\ s.next \in Nat /\ s.bckt \in Bucket /\ r.bckt \in Bucket
  BY <1>1 DEF Worker0
<1>6. /\ s.pc \in {"bucket", "translate"} => OnTurn(t, s.bckt)
      /\ s.pc = "initOT" => s.next < Start(t) + z
      /\ r.pc \in {"bucket", "deltas", "kprobe"} => OnTurn(t, r.bckt)
  <2>1. s.pc = "initOT" => s.next \in Share(t)
    BY <1>1 DEF WorkerOK, SendPhase
  <2>2. /\ s.pc \in {"bucket", "translate"} => OnTurn(t, s.bckt)
        /\ r.pc \in {"bucket", "deltas", "kprobe"} => OnTurn(t, r.bckt)
    BY <1>1 DEF WorkerOK, SendPhase, RecvPhase
  <2> HIDE DEF s, r, z
  <2> QED BY <2>1, <2>2, <1>4, ThreadFacts
<1>7. Delivered(r, RecvPhase(r.pc), b)
  OBVIOUS
<1> HIDE DEF s, r, o, z, T, j, q
<1>8. Read(t, o, r) >= 2 * z + o + 5 + j
  <2>1. CASE r.pc \in {"bucket", "deltas"}
    <3> DEFINE y == Turn(t, r.bckt)
    <3>1. b < r.bckt
      BY <1>7, <2>1 DEF Delivered, RecvPhase, Late
    <3>2. j < y /\ y \in Nat
      BY <3>1, <2>1, <1>5, <1>6, BucketOwner DEF j, OnTurn
    <3>3. Read(t, o, r) = 2 * z + o + 4 + y
      BY <2>1 DEF Read, z
    <3> HIDE DEF y
    <3> QED BY <3>2, <3>3, <1>2, <1>3, <1>4
  <2>2. CASE r.pc = "bucketed"
    <3>1. Read(t, o, r) = 2 * z + o + 4 + T
      BY <2>2 DEF Read, z, T
    <3> QED BY <3>1, <1>2, <1>3, <1>4
  <2>3. CASE r.pc = "kprobe"
    <3> DEFINE y == Turn(t, r.bckt)
    <3>1. y \in Nat
      BY <2>3, <1>6 DEF OnTurn
    <3>2. Read(t, o, r) = 2 * z + o + 5 + T + y
      BY <2>3 DEF Read, z, T
    <3> HIDE DEF y
    <3> QED BY <3>1, <3>2, <1>2, <1>3, <1>4
  <2>4. CASE r.pc = "done"
    <3>1. Read(t, o, r) = 2 * z + o + 5 + 2 * T
      BY <2>4 DEF Read, z, T
    <3> QED BY <3>1, <1>2, <1>3, <1>4
  <2>5. r.pc \in {"bucket", "deltas", "bucketed", "kprobe", "done"}
    BY <1>5, <1>7 DEF Delivered, RecvPhase, RecvPc, Late
  <2> QED BY <2>1, <2>2, <2>3, <2>4, <2>5
<1>9. s.pc \notin {"unborn", "garble", "garbled", "initOT"}
  <2> SUFFICES ASSUME s.pc \in {"unborn", "garble", "garbled", "initOT"} PROVE FALSE
    OBVIOUS
  <2>1. Sent(t, o, s) \in {0, z + 1, z + 1 + (s.next - Start(t))}
    BY DEF Sent, z
  <2>2. s.pc # "initOT" => Sent(t, o, s) \in {0, z + 1}
    BY DEF Sent, z
  <2> QED BY <2>1, <2>2, <1>2, <1>3, <1>4, <1>5, <1>6, <1>8
<1>10. s.pc \notin {"committed", "open", "opened", "proof"}
  <2> SUFFICES ASSUME s.pc \in {"committed", "open", "opened", "proof"} PROVE FALSE
    OBVIOUS
  <2>1. Sent(t, o, s) \in {2 * z + 2, 2 * z + o + 3}
    BY DEF Sent, z
  <2> QED BY <2>1, <1>2, <1>3, <1>4, <1>8
<1>11. Filled(s, SendPhase(s.pc), b)
  <2>1. CASE s.pc \in {"bucket", "translate"}
    <3> DEFINE y == Turn(t, s.bckt)
    <3>1. Sent(t, o, s) = 2 * z + o + 4 + y
      BY <2>1 DEF Sent, z
    <3>2. y \in Nat
      BY <2>1, <1>6 DEF OnTurn
    <3>3. j < y
      <4> HIDE DEF y
      <4> QED BY <3>1, <3>2, <1>2, <1>3, <1>4, <1>8
    <3>4. b < s.bckt
      BY <3>3, <2>1, <1>5, <1>6, BucketOwner DEF j
    <3>5. b <= s.bckt
      BY <3>4, <1>5 DEF Bucket
    <3> QED BY <2>1, <3>4, <3>5 DEF Filled, SendPhase
  <2>2. CASE s.pc \in {"bucketed", "kprobe", "done"}
    BY <2>2 DEF Filled, SendPhase, Late
  <2> QED BY <2>1, <2>2, <1>5, <1>9, <1>10 DEF SendPc
<1> QED BY <1>11 DEF s, q

\* A thread has set its OTs aside within the pipe's, its circuits and buckets too.
LEMMA Within ==
    ASSUME InitSizes, NEW p \in Party
    PROVE  /\ \A c \in Circuit : /\ CircuitOT(p, c) \in Nat
                                 /\ CircuitOT(p, c) + Encoding[p] <= Size(Owner(c)) * Encoding[p]
                                 /\ CircuitOT(p, c) <= NumOTs(p)
           /\ \A b \in Bucket : /\ BucketOT(p, b) \in Nat /\ BucketOT(p, b) <= NumOTs(p)
                                /\ BucketOT(p, b) >= Size(b % NumInitThreads) * Encoding[p]
<1>1. ASSUME NEW c \in Circuit
      PROVE  /\ CircuitOT(p, c) \in Nat
             /\ CircuitOT(p, c) + Encoding[p] <= Size(Owner(c)) * Encoding[p]
             /\ CircuitOT(p, c) <= NumOTs(p)
  <2> DEFINE u == Owner(c)
             m == c - Start(u)
             K == Encoding[p]
             z == Size(u)
  <2>1. u \in Thread /\ c \in Share(u)
    BY Owners
  <2>2. m \in Nat /\ m + 1 <= z /\ m <= z /\ z \in Nat
    BY <2>1, ThreadFacts
  <2> HIDE DEF m, z, u
  <2>3. m * K \in Nat /\ (m + 1) * K = m * K + K /\ K \in Nat /\ m * K <= NumOTs(p)
    BY <2>1, <2>2, OTFacts DEF z
  <2>4. (m + 1) * K <= z * K
    <3>1. m + 1 \in Nat
      BY <2>2
    <3> QED BY <3>1, <2>1, <2>2, OTFacts
  <2>5. CircuitOT(p, c) = m * K
    BY DEF CircuitOT, m, u
  <2> HIDE DEF K
  <2>6. CircuitOT(p, c) + K <= z * K
    BY <2>3, <2>4, <2>5
  <2> QED BY <2>3, <2>5, <2>6 DEF K, z, u
<1>2. ASSUME NEW b \in Bucket
      PROVE  /\ BucketOT(p, b) \in Nat /\ BucketOT(p, b) <= NumOTs(p)
             /\ BucketOT(p, b) >= Size(b % NumInitThreads) * Encoding[p]
  <2> DEFINE u == b % NumInitThreads
             j == Turn(u, b)
  <2>1. u \in Thread /\ OnTurn(u, b)
    BY BucketOwner
  <2> HIDE DEF u
  <2>2. j \in Nat /\ j <= Turns(u)
    <3>1. j \in Nat /\ j < Turns(u) /\ Turns(u) \in Nat
      BY <2>1, Turning DEF OnTurn
    <3> HIDE DEF j
    <3> QED BY <3>1
  <2> HIDE DEF j
  <2>3. /\ TurnOT(p, u, j) \in Nat /\ TurnOT(p, u, j) >= Size(u) * Encoding[p]
        /\ TurnOT(p, u, j) <= NumOTs(p)
    BY <2>1, <2>2, OTFacts
  <2> QED BY <2>3 DEF BucketOT, u, j
<1> QED BY <1>1, <1>2

\* A thread's record fits the types of TypeOK.
LEMMA WorkerFits ==
    ASSUME InitSizes, NEW p \in Party, NEW t \in Thread, NEW pcs, NEW w \in Worker0(pcs),
           NEW phase \in Phases, WorkerOK(p, t, w, phase)
    PROVE  w \in Worker(pcs)
<1>1. w.next \in Nat /\ w.ot \in Nat /\ w.bckt \in Bucket /\ w.iter \in 0..BucketSize * NumExe
  BY DEF WorkerOK
<1>2. /\ Start(t) \in Nat /\ Size(t) \in Nat /\ Start(t+1) = Start(t) + Size(t)
      /\ Start(t+1) <= NumCircuits /\ NumCircuits \in Nat
  BY ThreadFacts, Sizes
<1>3. Start(t) <= w.next /\ w.next <= Start(t+1)
  <2>1. CASE phase = "start"
    BY <2>1, <1>2 DEF WorkerOK
  <2>2. CASE phase = "initOT"
    BY <2>2, <1>1, <1>2, ThreadFacts DEF WorkerOK
  <2>3. CASE phase \notin {"start", "initOT"}
    BY <2>3, <1>1, <1>2 DEF WorkerOK
  <2> QED BY <2>1, <2>2, <2>3
<1>4. w.next \in 0..NumCircuits
  BY <1>1, <1>2, <1>3
<1>5. w.iter \in 0..2 * NumCircuits
  <2>1. BucketSize * NumExe = NumCircuits - NumOpened /\ NumOpened \in Nat
    BY Sizes
  <2> QED BY <2>1, <1>1, <1>2
<1>6. w.ot <= NumOTs(p)
  <2>1. CASE phase \in Early
    <3> DEFINE n == w.next - Start(t)
    <3>1. n \in Nat /\ n <= Size(t)
      BY <1>1, <1>2, <1>3
    <3>2. w.ot = n * Encoding[p]
      BY <2>1 DEF WorkerOK
    <3> HIDE DEF n
    <3> QED BY <3>1, <3>2, OTFacts
  <2>2. CASE phase \in {"bucket", "fill"}
    <3> DEFINE j == Turn(t, w.bckt)
    <3>1. OnTurn(t, w.bckt)
      BY <2>2 DEF WorkerOK
    <3>2. j \in Nat /\ j < Turns(t) /\ Turns(t) \in Nat
      BY <1>1, <3>1, Turning DEF OnTurn
    <3>3. w.ot = TurnOT(p, t, j) \/ w.ot = TurnOT(p, t, j + 1)
      BY <2>2 DEF WorkerOK
    <3> HIDE DEF j
    <3>4. j + 1 \in Nat /\ j <= Turns(t) /\ j + 1 <= Turns(t)
      BY <3>2
    <3>5. \A i \in Nat : i <= Turns(t) => TurnOT(p, t, i) <= NumOTs(p)
      BY OTFacts
    <3> QED BY <3>2, <3>3, <3>4, <3>5
  <2>3. CASE phase \in Late
    <3>1. w.ot = TurnOT(p, t, Turns(t))
      BY <2>3 DEF WorkerOK
    <3> QED BY <3>1, OTFacts
  <2> QED BY <2>1, <2>2, <2>3 DEF Phases
<1>7. w.ot \in OTIdx
  <2>1. NumOTs(0) \in Nat /\ NumOTs(1) \in Nat /\ NumOTs(p) \in {NumOTs(0), NumOTs(1)}
    BY Sizes DEF Party
  <2> QED BY <2>1, <1>1, <1>6 DEF OTIdx
<1> QED BY <1>1, <1>4, <1>5, <1>7 DEF Worker0, Worker

\* The invariant implies the types.
LEMMA InvTypeOK ==
    ASSUME InitSizes, Inv
    PROVE  TypeOK
<1>1. Shape
  BY DEF Inv
<1>2. \A p \in Party : \A x \in Nat : x <= NumOTs(p) => x \in OTIdx
  <2>1. NumOTs(0) \in Nat /\ NumOTs(1) \in Nat
    BY Sizes DEF Party
  <2> QED BY <2>1 DEF OTIdx, Party
<1>3. pipe \in [Party -> [Thread -> [recv : OTIdx, send : OTIdx, ended : BOOLEAN]]]
  <2>1. \A p \in Party : \A t \in Thread : pipe[p][t].recv \in OTIdx /\ pipe[p][t].send \in OTIdx
    <3> SUFFICES ASSUME NEW p \in Party, NEW t \in Thread
                 PROVE  pipe[p][t].recv \in OTIdx /\ pipe[p][t].send \in OTIdx
      OBVIOUS
    <3>1. pipe[p][t].recv \in 0..NumOTs(p) /\ pipe[p][t].send \in 0..NumOTs(p)
      BY DEF Inv, Threads, PipeOK
    <3>2. pipe[p][t].recv \in Nat /\ pipe[p][t].recv <= NumOTs(p)
          /\ pipe[p][t].send \in Nat /\ pipe[p][t].send <= NumOTs(p)
      BY <3>1
    <3> QED BY <3>2, <1>2
  <2>2. pipe \in [Party -> [Thread -> [recv : Nat, send : Nat, ended : BOOLEAN]]]
    BY <1>1 DEF Shape
  <2>3. \A p \in Party : \A t \in Thread :
            pipe[p][t] \in [recv : OTIdx, send : OTIdx, ended : BOOLEAN]
    <3> SUFFICES ASSUME NEW p \in Party, NEW t \in Thread
                 PROVE  pipe[p][t] \in [recv : OTIdx, send : OTIdx, ended : BOOLEAN]
      OBVIOUS
    <3> DEFINE d == pipe[p][t]
    <3>1. d \in [recv : Nat, send : Nat, ended : BOOLEAN] /\ d.recv \in OTIdx /\ d.send \in OTIdx
      BY <2>1, <2>2
    <3> HIDE DEF d
    <3>2. d \in [recv : OTIdx, send : OTIdx, ended : BOOLEAN]
      BY <3>1
    <3> QED BY <3>2 DEF d
  <2> QED BY <2>2, <2>3
<1>4. \A p \in Party : \A t \in Thread : /\ send[p][t] \in Worker(SendPc)
                                         /\ recv[p][t] \in Worker(RecvPc)
  <2> SUFFICES ASSUME NEW p \in Party, NEW t \in Thread
               PROVE  send[p][t] \in Worker(SendPc) /\ recv[p][t] \in Worker(RecvPc)
    OBVIOUS
  <2> DEFINE s == send[p][t]
             r == recv[p][t]
             q == Other(p)
  <2>1. /\ q \in Party /\ s \in Worker0(SendPc) /\ r \in Worker0(RecvPc)
        /\ WorkerOK(p, t, s, SendPhase(s.pc)) /\ WorkerOK(q, t, r, RecvPhase(r.pc))
    BY AtThread
  <2> HIDE DEF s, r, q
  <2>2. SendPhase(s.pc) \in Phases /\ RecvPhase(r.pc) \in Phases
    <3>1. s.pc \in SendPc /\ r.pc \in RecvPc
      BY <2>1 DEF Worker0
    <3> QED BY <3>1 DEF SendPhase, RecvPhase, SendPc, RecvPc, Phases, Early, Late
  <2>3. s \in Worker(SendPc) /\ r \in Worker(RecvPc)
    BY <2>1, <2>2, WorkerFits
  <2> QED BY <2>3 DEF s, r
<1>5. /\ send \in [Party -> [Thread -> Worker(SendPc)]]
      /\ recv \in [Party -> [Thread -> Worker(RecvPc)]]
  <2>1. /\ send \in [Party -> [Thread -> Worker0(SendPc)]]
        /\ recv \in [Party -> [Thread -> Worker0(RecvPc)]]
    BY <1>1 DEF Shape
  <2> QED BY <2>1, <1>4
<1>6. \A p \in Party : \A c \in Circuit :
        mine[p][c].ot \in OTIdx \cup {Unset} /\ their[p][c].ot \in OTIdx \cup {Unset}
  <2> SUFFICES ASSUME NEW p \in Party, NEW c \in Circuit
               PROVE  mine[p][c].ot \in OTIdx \cup {Unset} /\ their[p][c].ot \in OTIdx \cup {Unset}
    OBVIOUS
  <2>1. /\ mine[p][c].ot \in {CircuitOT(p, c), Unset}
        /\ their[p][c].ot \in {CircuitOT(Other(p), c), Unset}
    BY DEF Inv, Contents, MineOK, TheirOK
  <2>2. Other(p) \in Party
    BY Ends2
  <2>3. /\ CircuitOT(p, c) \in Nat /\ CircuitOT(p, c) <= NumOTs(p)
        /\ CircuitOT(Other(p), c) \in Nat /\ CircuitOT(Other(p), c) <= NumOTs(Other(p))
    BY <2>2, Within
  <2> QED BY <2>1, <2>2, <2>3, <1>2
<1>7. /\ mine \in [Party -> [Circuit -> [ot : OTIdx \cup {Unset}, cleared : BOOLEAN]]]
      /\ their \in [Party -> [Circuit ->
            [received : BOOLEAN, ot : OTIdx \cup {Unset}, checked : BOOLEAN]]]
  <2> DEFINE I == OTIdx \cup {Unset}
  <2>1. /\ mine \in [Party -> [Circuit -> [ot : Int, cleared : BOOLEAN]]]
        /\ their \in [Party -> [Circuit -> TheirRecord]]
    BY <1>1 DEF Shape, TheirRecord
  <2>2. \A p \in Party : \A c \in Circuit : mine[p][c].ot \in I /\ their[p][c].ot \in I
    BY <1>6
  <2> HIDE DEF I
  <2>3. \A p \in Party : \A c \in Circuit :
            /\ mine[p][c] \in [ot : I, cleared : BOOLEAN]
            /\ their[p][c] \in [received : BOOLEAN, ot : I, checked : BOOLEAN]
    <3> SUFFICES ASSUME NEW p \in Party, NEW c \in Circuit
                 PROVE  /\ mine[p][c] \in [ot : I, cleared : BOOLEAN]
                        /\ their[p][c] \in [received : BOOLEAN, ot : I, checked : BOOLEAN]
      OBVIOUS
    <3> DEFINE m == mine[p][c]
               h == their[p][c]
    <3>1. m \in [ot : Int, cleared : BOOLEAN] /\ h \in TheirRecord /\ m.ot \in I /\ h.ot \in I
      BY <2>1, <2>2
    <3> HIDE DEF m, h
    <3>2. m \in [ot : I, cleared : BOOLEAN]
      BY <3>1
    <3>3. h \in [received : BOOLEAN, ot : I, checked : BOOLEAN]
      BY <3>1 DEF TheirRecord
    <3> QED BY <3>2, <3>3 DEF m, h
  <2>4. mine \in [Party -> [Circuit -> [ot : I, cleared : BOOLEAN]]]
    BY <2>1, <2>3
  <2>5. their \in [Party -> [Circuit -> [received : BOOLEAN, ot : I, checked : BOOLEAN]]]
    BY <2>1, <2>3
  <2> QED BY <2>4, <2>5 DEF I
<1>8. ASSUME NEW p \in Party, NEW b \in Bucket
      PROVE  LET k == bucket[p][b] IN
             /\ k.mine \in Picks /\ k.their \in Picks
             /\ k.psiSend \in OTIdx \cup {Unset} /\ k.psiRecv \in OTIdx \cup {Unset}
             /\ k.deltas \in BOOLEAN /\ k.labels \in BOOLEAN
  <2> DEFINE k == bucket[p][b]
             u == b % NumInitThreads
  <2>1. k \in BucketRecord
    BY <1>1 DEF Shape, BucketRecord
  <2>2. BucketOK(p, b, k, send[p][u], recv[p][u], theirs[p], seed[p])
    BY DEF Inv, Contents
  <2>3. k.psiRecv \in {BucketOT(p, b), Unset} /\ k.psiSend \in {BucketOT(Other(p), b), Unset}
    <3> HIDE DEF k, u
    <3> QED BY <2>2 DEF BucketOK
  <2>4. Other(p) \in Party
    BY Ends2
  <2>5. /\ BucketOT(p, b) \in Nat /\ BucketOT(p, b) <= NumOTs(p)
        /\ BucketOT(Other(p), b) \in Nat /\ BucketOT(Other(p), b) <= NumOTs(Other(p))
    BY <2>4, Within
  <2>6. k.psiSend \in OTIdx \cup {Unset} /\ k.psiRecv \in OTIdx \cup {Unset}
    <3> HIDE DEF k
    <3> QED BY <2>3, <2>4, <2>5, <1>2
  <2>7. k.mine \in Picks /\ k.their \in Picks /\ k.deltas \in BOOLEAN /\ k.labels \in BOOLEAN
    <3> HIDE DEF k
    <3> QED BY <2>1 DEF BucketRecord
  <2> QED BY <2>6, <2>7
<1>9. /\ main \in [Party -> MainPc] /\ seed \in [Party -> Seeds]
      /\ theirs \in [Party -> Seeds \cup {<<>>}] /\ DOMAIN net = Ends
      /\ aborted \in [Party -> BOOLEAN]
  BY <1>1 DEF Shape
<1> QED BY <1>3, <1>5, <1>7, <1>8, <1>9 DEF TypeOK

\* A receiver past the dummy has all of its share, so have all when the seed
\* is revealed.
LEMMA InvRevealedLate ==
    ASSUME InitSizes, Inv
    PROVE  RevealedLate
<1> SUFFICES ASSUME NEW p \in Party, main[p] \in {"reveal", "join", "online"}, NEW c \in Circuit
             PROVE  /\ their[p][c].received /\ their[p][c].ot # Unset
                    /\ mine[Other(p)][c].ot # Unset
  BY DEF RevealedLate
<1> DEFINE u == Owner(c)
           q == Other(p)
           r == recv[p][u]
           s == send[q][u]
<1>1. u \in Thread /\ c \in Share(u)
  BY Owners
<1> HIDE DEF u
<1>2. /\ q \in Party /\ Other(q) = p
      /\ s \in Worker0(SendPc) /\ r \in Worker0(RecvPc)
      /\ WorkerOK(q, u, r, RecvPhase(r.pc))
      /\ MainOK(p, main[p], send[p], recv[p], theirs[p], seed[Other(p)])
  BY <1>1, AtThread
<1>3. r.next = Start(u+1)
  BY <1>1, <1>2 DEF MainOK
<1>4. c \in Nat /\ c < r.next /\ r.next # Start(u)
  BY <1>1, <1>3, ThreadFacts
<1>5. r.next <= s.next
  <2>1. recv[Other(q)][u].next <= send[q][u].next
    <3> HIDE DEF q
    <3> QED BY <1>1, <1>2, ReceiverBehind
  <2> QED BY <2>1, <1>2
<1>6. CircuitOT(q, c) # Unset
  <2>1. CircuitOT(q, c) \in Nat
    BY <1>2, Within
  <2> QED BY <2>1 DEF Unset
<1>7. /\ MineOK(q, c, mine[q][c], s, theirs[q])
      /\ TheirOK(p, c, their[p][c], r, seed[p])
  BY <1>2 DEF Inv, Contents, u
<1> HIDE DEF r, s
<1>8. r.pc \notin {"unborn", "circuits"}
  BY <1>2, <1>4 DEF WorkerOK, RecvPhase
<1>9. c < s.next
  <2>1. s.next \in Nat /\ r.next \in Nat
    BY <1>2 DEF Worker0
  <2> QED BY <2>1, <1>4, <1>5
<1>10. their[p][c].received /\ their[p][c].ot # Unset
  BY <1>4, <1>6, <1>7, <1>8 DEF TheirOK, q
<1>11. mine[q][c].ot # Unset
  BY <1>6, <1>7, <1>9 DEF MineOK
<1> QED BY <1>10, <1>11 DEF q

\* The position of the OTs of a circuit or of a bucket is a function of its number.
LEMMA OTsAt ==
    ASSUME InitSizes, Inv, NEW p \in Party
    PROVE  /\ \A c \in Circuit : /\ mine[p][c].ot \in {CircuitOT(p, c), Unset}
                                 /\ their[Other(p)][c].ot \in {CircuitOT(p, c), Unset}
           /\ \A b \in Bucket : /\ bucket[p][b].psiRecv \in {BucketOT(p, b), Unset}
                                /\ bucket[Other(p)][b].psiSend \in {BucketOT(p, b), Unset}
<1> DEFINE q == Other(p)
<1>1. q \in Party /\ Other(q) = p
  BY Ends2
<1> HIDE DEF q
<1>2. \A c \in Circuit : /\ mine[p][c].ot \in {CircuitOT(p, c), Unset}
                         /\ their[q][c].ot \in {CircuitOT(p, c), Unset}
  BY <1>1 DEF Inv, Contents, MineOK, TheirOK
<1>3. ASSUME NEW b \in Bucket
      PROVE  /\ bucket[p][b].psiRecv \in {BucketOT(p, b), Unset}
             /\ bucket[q][b].psiSend \in {BucketOT(p, b), Unset}
  <2> DEFINE u == b % NumInitThreads
  <2>1. /\ BucketOK(p, b, bucket[p][b], send[p][u], recv[p][u], theirs[p], seed[p])
        /\ BucketOK(q, b, bucket[q][b], send[q][u], recv[q][u], theirs[q], seed[q])
    BY <1>1 DEF Inv, Contents
  <2> HIDE DEF u
  <2> QED BY <2>1, <1>1 DEF BucketOK
<1> QED BY <1>2, <1>3 DEF q

\* Both ends compute the same position.
LEMMA InvOTsAgree ==
    ASSUME InitSizes, Inv
    PROVE  OTsAgree
  BY OTsAt DEF OTsAgree

\* The positions of what a pipe is used for leave room for each other.
LEMMA Follow ==
    ASSUME InitSizes, NEW p \in Party
    PROVE  /\ \A c, d \in Circuit : c < d /\ Owner(c) = Owner(d) =>
                CircuitOT(p, c) + Encoding[p] <= CircuitOT(p, d)
           /\ \A a, b \in Bucket : a < b /\ a % NumInitThreads = b % NumInitThreads =>
                BucketOT(p, a) + PsiOTs <= BucketOT(p, b)
           /\ \A c \in Circuit, b \in Bucket : Owner(c) = b % NumInitThreads =>
                CircuitOT(p, c) + Encoding[p] <= BucketOT(p, b)
<1>1. ASSUME NEW c \in Circuit, NEW d \in Circuit, c < d, Owner(c) = Owner(d)
      PROVE  CircuitOT(p, c) + Encoding[p] <= CircuitOT(p, d)
  <2> DEFINE u == Owner(c)
             m == c - Start(u)
             n == d - Start(u)
  <2>1. u \in Thread /\ c \in Share(u) /\ d \in Share(u)
    BY <1>1, Owners
  <2>2. m \in Nat /\ n \in Nat /\ m + 1 \in Nat /\ m + 1 <= n
    <3>1. c \in Nat /\ d \in Nat /\ Start(u) \in Nat /\ Start(u) <= c /\ Start(u) <= d
      BY <2>1, ThreadFacts
    <3> HIDE DEF u
    <3> QED BY <3>1, <1>1
  <2>3. CircuitOT(p, c) = m * Encoding[p] /\ CircuitOT(p, d) = n * Encoding[p]
    BY <1>1 DEF CircuitOT
  <2> HIDE DEF m, n, u
  <2>4. /\ (m + 1) * Encoding[p] = m * Encoding[p] + Encoding[p]
        /\ (m + 1) * Encoding[p] <= n * Encoding[p]
    BY <2>1, <2>2, OTFacts
  <2> QED BY <2>3, <2>4
<1>2. ASSUME NEW a \in Bucket, NEW b \in Bucket, a < b, a % NumInitThreads = b % NumInitThreads
      PROVE  BucketOT(p, a) + PsiOTs <= BucketOT(p, b)
  <2> DEFINE u == a % NumInitThreads
             i == Turn(u, a)
             j == Turn(u, b)
             z == Size(u) * Encoding[p]
  <2>1. u \in Thread /\ OnTurn(u, a) /\ OnTurn(u, b)
    BY <1>2, BucketOwner
  <2>2. i \in Nat /\ j \in Nat /\ i < j
    <3> HIDE DEF u
    <3> QED BY <1>2, <2>1, BucketOwner DEF OnTurn
  <2>3. BucketOT(p, a) = TurnOT(p, u, i) /\ BucketOT(p, b) = TurnOT(p, u, j)
    BY <1>2 DEF BucketOT
  <2> HIDE DEF u
  <2>4. Size(u) \in Nat /\ Encoding[p] \in Nat /\ PsiOTs \in Nat
    BY <2>1, ThreadFacts, OTFacts
  <2>5. z \in Nat
    BY <2>4
  <2>6. TurnOT(p, u, i) = z + i * PsiOTs /\ TurnOT(p, u, j) = z + j * PsiOTs
    BY DEF TurnOT
  <2> HIDE DEF i, j, z
  <2>7. (i + 1) * PsiOTs <= j * PsiOTs /\ (i + 1) * PsiOTs = i * PsiOTs + PsiOTs
    BY <2>2, <2>4
  <2>8. i * PsiOTs \in Nat /\ j * PsiOTs \in Nat
    BY <2>2, <2>4
  <2> QED BY <2>3, <2>4, <2>5, <2>6, <2>7, <2>8
<1>3. ASSUME NEW c \in Circuit, NEW b \in Bucket, Owner(c) = b % NumInitThreads
      PROVE  CircuitOT(p, c) + Encoding[p] <= BucketOT(p, b)
  <2> DEFINE x == Size(Owner(c)) * Encoding[p]
  <2>1. /\ CircuitOT(p, c) \in Nat /\ CircuitOT(p, c) + Encoding[p] <= x
        /\ BucketOT(p, b) \in Nat /\ BucketOT(p, b) >= x
    BY <1>3, Within
  <2>2. Encoding[p] \in Nat /\ x \in Nat
    <3>1. Owner(c) \in Thread
      BY Owners
    <3>2. Size(Owner(c)) \in Nat /\ Encoding[p] \in Nat
      BY <3>1, ThreadFacts, OTFacts
    <3> QED BY <3>2
  <2> HIDE DEF x
  <2> QED BY <2>1, <2>2
<1> QED BY <1>1, <1>2, <1>3

\* So no OT is given out twice.
LEMMA InvOTsDisjoint ==
    ASSUME InitSizes, Inv
    PROVE  OTsDisjoint
<1> SUFFICES ASSUME NEW p \in Party
             PROVE  /\ \A c, d \in Circuit :
                        c < d /\ mine[p][c].ot # Unset /\ mine[p][d].ot # Unset
                                /\ Owner(c) = Owner(d) =>
                            mine[p][c].ot + Encoding[p] <= mine[p][d].ot
                    /\ \A a, b \in Bucket :
                        a < b /\ bucket[p][a].psiRecv # Unset /\ bucket[p][b].psiRecv # Unset
                                /\ a % NumInitThreads = b % NumInitThreads =>
                            bucket[p][a].psiRecv + PsiOTs <= bucket[p][b].psiRecv
                    /\ \A c \in Circuit, b \in Bucket :
                        mine[p][c].ot # Unset /\ bucket[p][b].psiRecv # Unset
                                /\ Owner(c) = b % NumInitThreads =>
                            mine[p][c].ot + Encoding[p] <= bucket[p][b].psiRecv
  BY DEF OTsDisjoint
<1>1. /\ \A c \in Circuit : mine[p][c].ot \in {CircuitOT(p, c), Unset}
      /\ \A b \in Bucket : bucket[p][b].psiRecv \in {BucketOT(p, b), Unset}
  BY OTsAt
<1>2. \A c, d \in Circuit : c < d /\ mine[p][c].ot # Unset /\ mine[p][d].ot # Unset
                                 /\ Owner(c) = Owner(d) =>
        mine[p][c].ot + Encoding[p] <= mine[p][d].ot
  BY <1>1, Follow
<1>3. \A a, b \in Bucket : a < b /\ bucket[p][a].psiRecv # Unset /\ bucket[p][b].psiRecv # Unset
                                /\ a % NumInitThreads = b % NumInitThreads =>
        bucket[p][a].psiRecv + PsiOTs <= bucket[p][b].psiRecv
  BY <1>1, Follow
<1>4. \A c \in Circuit, b \in Bucket : mine[p][c].ot # Unset /\ bucket[p][b].psiRecv # Unset
                                       /\ Owner(c) = b % NumInitThreads =>
        mine[p][c].ot + Encoding[p] <= bucket[p][b].psiRecv
  BY <1>1, Follow
<1> QED BY <1>2, <1>3, <1>4

\* A thread that is past its OTs has found them in the pipe.
LEMMA InvOTsComplete ==
    ASSUME InitSizes, Inv, Matched
    PROVE  OTsComplete
<1> SUFFICES ASSUME NEW p \in Party, NEW c \in Circuit
             PROVE  /\ mine[p][c].ot # Unset =>
                        pipe[p][Owner(c)].recv >= mine[p][c].ot + Encoding[p]
                    /\ their[p][c].ot # Unset =>
                        pipe[Other(p)][Owner(c)].send >= their[p][c].ot + Encoding[Other(p)]
  BY DEF OTsComplete
<1> DEFINE u == Owner(c)
           s == send[p][u]
           m == c - Start(u)
           n == s.next - Start(u)
           K == Encoding[p]
<1>1. u \in Thread /\ c \in Share(u)
  BY Owners
<1>2. /\ MineOK(p, c, mine[p][c], s, theirs[p])
      /\ TheirOK(p, c, their[p][c], recv[p][u], seed[p])
  BY DEF Inv, Contents
<1>3. ASSUME mine[p][c].ot # Unset
      PROVE  pipe[p][u].recv >= mine[p][c].ot + K
  <2>1. c < s.next /\ mine[p][c].ot = CircuitOT(p, c)
    <3> HIDE DEF s
    <3> QED BY <1>2, <1>3 DEF MineOK
  <2>2. s.next \in Nat /\ c \in Nat /\ Start(u) \in Nat /\ m \in Nat
    <3>1. s \in Worker0(SendPc)
      BY <1>1, AtThread
    <3>2. c \in Nat /\ Start(u) \in Nat /\ Start(u) <= c
      BY <1>1, ThreadFacts
    <3> HIDE DEF s, u
    <3> QED BY <3>1, <3>2 DEF Worker0
  <2>3. n \in Nat /\ m + 1 <= n /\ m + 1 \in Nat
    <3> HIDE DEF s, u
    <3> QED BY <2>1, <2>2
  <2>4. CircuitOT(p, c) = m * K
    BY DEF CircuitOT
  <2>5. pipe[p][u].recv >= n * K /\ pipe[p][u].recv \in Nat
    <3>1. PipeOK(p, u, pipe[p][u], s, recv[Other(p)][u])
      BY <1>1, AtThread
    <3>2. pipe[p][u].recv \in Nat
      BY <1>1 DEF Inv, Shape
    <3> HIDE DEF s, u
    <3> QED BY <3>1, <3>2 DEF PipeOK
  <2> HIDE DEF m, n, u, K, s
  <2>6. /\ (m + 1) * K = m * K + K /\ m * K \in Nat /\ K \in Nat
        /\ (m + 1) * K <= n * K /\ n * K \in Nat
    BY <1>1, <2>2, <2>3, OTFacts DEF K
  <2> QED BY <2>1, <2>4, <2>5, <2>6
<1>4. ASSUME their[p][c].ot # Unset
      PROVE  pipe[Other(p)][u].send >= their[p][c].ot + Encoding[Other(p)]
  <2>1. c < recv[p][u].next
    <3> HIDE DEF u
    <3> QED BY <1>2, <1>4 DEF TheirOK
  <2>2. /\ their[p][c].ot = CircuitOT(Other(p), c)
        /\ pipe[Other(p)][u].send >= CircuitOT(Other(p), c) + Encoding[Other(p)]
    BY <2>1, OTsThere DEF Matched
  <2> QED BY <2>2
<1> QED BY <1>3, <1>4

\* A bucket's circuits are a function of the selection and its number.
LEMMA InvBucketsAgree ==
    ASSUME InitSizes, Inv
    PROVE  BucketsAgree
<1>1. ASSUME NEW p \in Party, NEW b \in Bucket, bucket[p][b].mine # <<>>
      PROVE  /\ bucket[p][b].mine = Content(seed[Other(p)], b)
             /\ theirs[p] = seed[Other(p)] /\ seed[Other(p)] \in Seeds
  <2> DEFINE t == b % NumInitThreads
  <2>1. t \in Thread /\ OnTurn(t, b)
    BY BucketOwner
  <2> HIDE DEF t
  <2>2. Filled(send[p][t], SendPhase(send[p][t].pc), b)
    BY <1>1, <2>1, FilledBucket DEF BucketOK
  <2>3. seed[Other(p)] \in Seeds
    BY <2>1, AtThread
  <2> QED BY <2>1, <2>2, <2>3, FilledBucket
<1>2. ASSUME NEW p \in Party, NEW a \in Bucket, NEW b \in Bucket,
             NEW m \in 1..BucketSize, NEW n \in 1..BucketSize,
             bucket[p][a].mine # <<>>, bucket[p][b].mine # <<>>
      PROVE  /\ ~mine[p][bucket[p][a].mine[m]].cleared
             /\ bucket[p][a].mine[m] = bucket[p][b].mine[n] => a = b /\ m = n
  <2> DEFINE sel == seed[Other(p)]
             c == Content(sel, a)[m]
  <2>1. /\ bucket[p][a].mine = Content(sel, a) /\ bucket[p][b].mine = Content(sel, b)
        /\ theirs[p] = sel /\ sel \in Seeds
    BY <1>1, <1>2
  <2> HIDE DEF sel
  <2>2. /\ Content(sel, a) \in [1..BucketSize -> Circuit]
        /\ \A x \in 0..NumOpened-1 : Content(sel, a)[m] # sel[1][x]
        /\ Content(sel, a)[m] = Content(sel, b)[n] => a = b /\ m = n
    BY <2>1, ContentFacts
  <2>3. c \in Circuit /\ \A x \in 0..NumOpened-1 : c # sel[1][x]
    BY <2>2
  <2> HIDE DEF c
  <2>4. MineOK(p, c, mine[p][c], send[p][Owner(c)], sel)
    BY <2>1, <2>3 DEF Inv, Contents
  <2>5. ~mine[p][c].cleared
    BY <2>3, <2>4 DEF MineOK
  <2> QED BY <2>1, <2>2, <2>5 DEF c
<1>3. ASSUME NEW p \in Party, NEW b \in Bucket, bucket[p][b].deltas
      PROVE  bucket[p][b].their = bucket[Other(p)][b].mine
  <2> DEFINE t == b % NumInitThreads
             q == Other(p)
  <2>1. t \in Thread /\ OnTurn(t, b) /\ q \in Party /\ Other(q) = p
    BY BucketOwner, Ends2
  <2> HIDE DEF t
  <2>2. bucket[p][b].their = Content(seed[p], b)
    BY <1>3, <2>1, FilledBucket
  <2>3. Delivered(recv[p][t], RecvPhase(recv[p][t].pc), b)
    BY <1>3, <2>1, FilledBucket DEF BucketOK
  <2>4. Filled(send[q][t], SendPhase(send[q][t].pc), b)
    BY <2>1, <2>3, DeltasSent
  <2>5. bucket[q][b].mine = Content(seed[Other(q)], b)
    <3> HIDE DEF q
    <3> QED BY <2>1, <2>4, FilledBucket
  <2> QED BY <2>1, <2>2, <2>5
<1> QED BY <1>2, <1>3 DEF BucketsAgree

\* A party goes online with all threads done, hence with all buckets filled.
LEMMA InvOnlineReady ==
    ASSUME InitSizes, Inv
    PROVE  OnlineReady
<1> SUFFICES ASSUME NEW p \in Party, main[p] = "online"
             PROVE  /\ \A n \in 0..NumOpened-1 : their[p][seed[p][1][n]].checked
                    /\ \A b \in Bucket : bucket[p][b].labels /\ bucket[p][b].deltas
                    /\ \A q \in Party, t \in Thread : pipe[q][t].ended
  BY DEF OnlineReady
<1>1. \A t \in Thread : RecvPhase(recv[p][t].pc) = "done"
  <2>1. MainOK(p, main[p], send[p], recv[p], theirs[p], seed[Other(p)])
    BY DEF Inv, Mains
  <2>2. \A t \in Thread : recv[p][t].pc = "done"
    BY <2>1 DEF MainOK
  <2> QED BY <2>2 DEF RecvPhase
<1>2. ASSUME NEW n \in 0..NumOpened-1
      PROVE  their[p][seed[p][1][n]].checked
  <2> DEFINE c == seed[p][1][n]
             u == Owner(c)
  <2>1. c \in Circuit
    <3>1. seed[p] \in Seeds
      BY DEF Inv, Shape
    <3>2. Placed(seed[p], NumOpened, NumCircuits, NumCircuits)
      BY <3>1, SeedFacts
    <3> QED BY <3>2, Sizes DEF Placed, Circuit
  <2>2. TheirOK(p, c, their[p][c], recv[p][u], seed[p])
    BY <2>1 DEF Inv, Contents
  <2>3. u \in Thread
    BY <2>1, Owners
  <2> HIDE DEF u
  <2>4. RecvPhase(recv[p][u].pc) \notin Early
    BY <1>1, <2>3 DEF Early
  <2>5. \A a \in 0..NumOpened-1 : seed[p][1][a] = c => their[p][c].checked
    <3> HIDE DEF c
    <3> QED BY <2>2, <2>4 DEF TheirOK
  <2> QED BY <2>5
<1>3. ASSUME NEW b \in Bucket
      PROVE  bucket[p][b].labels /\ bucket[p][b].deltas
  <2> DEFINE t == b % NumInitThreads
  <2>1. t \in Thread /\ OnTurn(t, b)
    BY BucketOwner
  <2> HIDE DEF t
  <2>2. BucketOK(p, b, bucket[p][b], send[p][t], recv[p][t], theirs[p], seed[p])
    BY <2>1, FilledBucket
  <2> QED BY <1>1, <2>1, <2>2 DEF BucketOK, Delivered, Labelled, Late
<1>4. \A q \in Party, t \in Thread : pipe[q][t].ended
  BY DEF Inv, Mains
<1> QED BY <1>2, <1>3, <1>4

\* With different parameters no party passes the exchange of them.
LEMMA InvMismatchStops ==
    ASSUME Inv
    PROVE  MismatchStops
<1> SUFFICES ASSUME ~ParamsMatch, NEW p \in Party
             PROVE  /\ main[p] \in {"announce", "params"}
                    /\ \A t \in Thread : send[p][t].pc = "unborn"
  BY DEF MismatchStops, ParamsMatch
<1>1. MainOK(p, main[p], send[p], recv[p], theirs[p], seed[Other(p)])
  BY DEF Inv, Mains
<1> QED BY <1>1 DEF MainOK

-----------------------------------------------------------------------------
(* The theorems: init with any number of executions, buckets, pipes and      *)
(* opened circuits, any OT counts, any parameters on either side and any     *)
(* selections that GetRandSubset can make.                                   *)

\* The invariant holds in every state init reaches.
THEOREM InitInvariant ==
    ASSUME InitSizes
    PROVE  SafetySpec => []Inv
<1>1. Init => Inv
  BY InitInv
<1>2. Inv /\ [Next]_vars => Inv'
  BY StepInv
<1> QED BY <1>1, <1>2, PTL DEF SafetySpec

\* init's variables keep their types: no thread takes an OT, a circuit or a bucket
\* beyond those there are, whatever the division of the work.
THEOREM InitTypes ==
    ASSUME InitSizes
    PROVE  SafetySpec => []TypeOK
<1>1. Inv => TypeOK
  BY InvTypeOK
<1> QED BY <1>1, InitInvariant, PTL

\* init reveals its cut-and-choose seed when the peer has garbled and committed
\* itself to every circuit: waiting for mCirRecvFutr of every thread is enough.
THEOREM InitRevealedLate ==
    ASSUME InitSizes
    PROVE  SafetySpec => []RevealedLate
<1>1. Inv => RevealedLate
  BY InvRevealedLate
<1> QED BY <1>1, InitInvariant, PTL

\* The two ends of an OT pipe give the same OTs to the same circuit or bucket, and
\* initSend gives none to two of them, even when the inputs of the two sides are
\* encoded in matrices of different sizes.
THEOREM InitOTsAgree ==
    ASSUME InitSizes
    PROVE  SafetySpec => [](OTsAgree /\ OTsDisjoint)
<1>1. Inv => OTsAgree /\ OTsDisjoint
  BY InvOTsAgree, InvOTsDisjoint
<1> QED BY <1>1, InitInvariant, PTL

\* Parties that agree on the parameters and encode their inputs in matrices of the
\* same size use only OTs that are complete, each once and for the same purpose at
\* both ends, and none of the checks of initRecv throws.
THEOREM InitOTsUsedOnce ==
    ASSUME InitSizes, ParamsMatch, Encoding[0] = Encoding[1]
    PROVE  SafetySpec => []OTsUsedOnce
<1>1. Inv => OTsUsedOnce
  <2>1. Inv => NeverAborts
    BY DEF Inv, Sound, Matched, NeverAborts
  <2>2. Inv => OTsComplete
    BY InvOTsComplete DEF Matched
  <2> QED BY <2>1, <2>2, InvTypeOK, InvOTsAgree, InvOTsDisjoint DEF OTsUsedOnce
<1> QED BY <1>1, InitInvariant, PTL

\* Whoever gets online has checked the opened circuits, has the same circuits in
\* the same order in each bucket as the peer, none of them opened and none in two
\* places, and has all that the online threads use; with different parameters on
\* the two sides nobody starts a thread.
THEOREM InitBucketsReady ==
    ASSUME InitSizes
    PROVE  SafetySpec => []BucketsReady
<1>1. Inv => BucketsReady
  BY InvBucketsAgree, InvOnlineReady, InvMismatchStops DEF BucketsReady
<1> QED BY <1>1, InitInvariant, PTL

=============================================================================
