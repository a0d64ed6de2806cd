----------------------------- MODULE RandSubset -----------------------------
(***************************************************************************)
(* The vectors GetRandSubset (libBDX/DualEx/DualExActor.cpp) works on:     *)
(* subset, of size k, and difference, which together hold 0..n-1.          *)
(*                                                                         *)
(* An operator marked "fault" is a variant, with a plausible slip, of the  *)
(* operator defined after it.  No action uses one; a property is checked   *)
(* to fail when one of them takes the place of the real operator.          *)
(***************************************************************************)
EXTENDS Integers, FiniteSetTheorems, TLAPS

\* Both vectors are resized, which fills them with zeros; subset then counts.
FirstSubset(k)        == [a \in 0..k-1 |-> a]
FirstDifference(k, n) == [b \in 0..n-k-1 |-> 0]

\* difference[i-k] = i, then swap it with subset[r] if r < subsetSize.
PlaceAhead(pair, k, i, r) ==                            \* fault: i too soon
    <<pair[1], [pair[2] EXCEPT ![i-k] = i + 1]>>
PlaceNoSwap(pair, k, i, r) ==                           \* fault: overwrites
    <<[a \in DOMAIN pair[1] |-> IF a = r THEN i ELSE pair[1][a]],
      [pair[2] EXCEPT ![i-k] = i]>>
Place(pair, k, i, r) ==
    <<[a \in DOMAIN pair[1] |-> IF a = r THEN i ELSE pair[1][a]],
      [pair[2] EXCEPT ![i-k] = IF r \in DOMAIN pair[1] THEN pair[1][r] ELSE i]>>

\* The values prng.get_u64() % i can take.  With nothing to open the other
\* branch only counts into difference: no value is drawn, no modulus is zero.
Draws(k, i) == IF k = 0 THEN {i} ELSE 0..i-1

\* What a seed whose draws are draws[k], ..., draws[n-1] selects.
Selected(k, n, draws) ==
    LET pair[i \in k..n] ==
            IF i = k THEN <<FirstSubset(k), FirstDifference(k, n)>>
                     ELSE Place(pair[i-1], k, i-1, draws[i-1])
    IN  pair[n]

\* Everything GetRandSubset can return.
Selections(k, n) ==
    {Selected(k, n, draws) :
        draws \in {f \in [k..n-1 -> 0..n] : \A i \in k..n-1 : f[i] \in Draws(k, i)}}

\* Every circuit below i is in exactly one place of one of the two vectors: no
\* circuit is both opened and evaluated, evaluated in two buckets, or lost.
Partitioned(subset, difference, k, i) ==
    LET Idx == 0..k-1  Filled == 0..i-k-1 IN
    /\ \A a, b \in Idx : subset[a] = subset[b] => a = b
    /\ \A a, b \in Filled : difference[a] = difference[b] => a = b
    /\ \A a \in Idx, b \in Filled : subset[a] # difference[b]
    /\ \A c \in 0..i-1 : \/ \E a \in Idx : subset[a] = c
                         \/ \E b \in Filled : difference[b] = c

-----------------------------------------------------------------------------
(* Induction over the natural numbers, for a set P: if n were not in P, n+1   *)
(* would map P \cap 0..n injectively into itself without 0.                   *)

\* A set of natural numbers with 0 and every successor holds them all.
LEMMA NatSetInduction ==
    ASSUME NEW P \in SUBSET Nat, 0 \in P, \A n \in P : n + 1 \in P
    PROVE  P = Nat
<1> SUFFICES ASSUME NEW n \in Nat, n \notin P PROVE FALSE
  OBVIOUS
<1> DEFINE A == P \cap 0..n
           B == A \ {0}
           f == [a \in A |-> a + 1]
<1>1. IsFiniteSet(A)
  <2>1. IsFiniteSet(0..n)
    BY FS_Interval
  <2> QED BY <2>1, FS_Subset
<1>2. IsFiniteSet(B) /\ Cardinality(B) = Cardinality(A) - 1
  <2>1. 0 \in A
    OBVIOUS
  <2> HIDE DEF A
  <2> QED BY <1>1, <2>1, FS_RemoveElement
<1>3. f \in [A -> B]
  OBVIOUS
<1>4. PICK a \in A, b \in A : a # b /\ f[a] = f[b]
  <2>1. Cardinality(B) < Cardinality(A)
    BY <1>1, <1>2, FS_CardinalityType
  <2> HIDE DEF A, B, f
  <2> QED BY <1>1, <1>2, <1>3, <2>1, FS_PigeonHole
<1> QED
  BY <1>4

-----------------------------------------------------------------------------
(* What the loop keeps, and what it returns. *)

\* The vectors after the circuits below i have been placed.
Placed(pair, k, n, i) ==
    /\ pair = <<pair[1], pair[2]>>
    /\ pair[1] \in [0..k-1 -> 0..n-1]
    /\ pair[2] \in [0..n-k-1 -> 0..n-1]
    /\ \A a \in 0..k-1 : pair[1][a] < i
    /\ \A b \in 0..i-k-1 : pair[2][b] < i
    /\ Partitioned(pair[1], pair[2], k, i)

\* Before the loop the subset counts and the difference is empty.
LEMMA FirstPlaced ==
    ASSUME NEW k \in Nat, NEW n \in Nat, k <= n
    PROVE  Placed(<<FirstSubset(k), FirstDifference(k, n)>>, k, n, k)
<1> DEFINE s == FirstSubset(k)
           d == FirstDifference(k, n)
<1>1. s \in [0..k-1 -> 0..n-1] /\ \A a \in 0..k-1 : s[a] = a
  BY DEF FirstSubset
<1>2. d \in [0..n-k-1 -> 0..n-1]
  BY DEF FirstDifference
<1>3. Partitioned(s, d, k, k)
  BY <1>1 DEF Partitioned
<1>4. <<s, d>>[1] = s /\ <<s, d>>[2] = d
  OBVIOUS
<1> HIDE DEF s, d
<1> QED BY <1>1, <1>2, <1>3, <1>4 DEF Placed, s, d

\* Place swaps the new circuit with one of subset, or appends it.
LEMMA PlaceKeeps ==
    ASSUME NEW k \in Nat, NEW n \in Nat, NEW i \in k..n-1, NEW r \in Draws(k, i),
           NEW pair, Placed(pair, k, n, i)
    PROVE  Placed(Place(pair, k, i, r), k, n, i + 1)
<1> DEFINE s == pair[1]
           d == pair[2]
           j == i - k
           v == IF r \in 0..k-1 THEN s[r] ELSE i
           t == [a \in 0..k-1 |-> IF a = r THEN i ELSE s[a]]
           e == [d EXCEPT ![j] = v]
           Idx == 0..k-1
           Filled == 0..j-1
           Next == 0..(i + 1) - k - 1
<1>1. /\ s \in [Idx -> 0..n-1] /\ d \in [0..n-k-1 -> 0..n-1]
      /\ \A a \in Idx : s[a] < i
      /\ \A b \in Filled : d[b] < i
      /\ Partitioned(s, d, k, i)
  BY DEF Placed
<1>2. Place(pair, k, i, r) = <<t, e>>
  BY <1>1 DEF Place
<1>3. r \in Nat /\ j \in 0..n-k-1 /\ j \notin Filled /\ Next = Filled \cup {j}
  BY DEF Draws
<1>4. v \in 0..n-1 /\ v < i + 1
  BY <1>1
<1>4a. \A b \in Filled : d[b] # i
  <2> SUFFICES ASSUME NEW b \in Filled PROVE d[b] # i
    OBVIOUS
  <2>1. b \in 0..n-k-1 /\ i \in Int
    OBVIOUS
  <2>2. d[b] \in 0..n-1 /\ d[b] < i
    BY <2>1, <1>1
  <2> QED BY <2>1, <2>2
<1>5. /\ \A a, b \in Idx : s[a] = s[b] => a = b
      /\ \A a, b \in Filled : d[a] = d[b] => a = b
      /\ \A a \in Idx, b \in Filled : s[a] # d[b]
      /\ \A c \in 0..i-1 : (\E a \in Idx : s[a] = c) \/ (\E b \in Filled : d[b] = c)
  BY <1>1 DEF Partitioned
<1>6. t \in [Idx -> 0..n-1] /\ \A a \in Idx : t[a] = IF a = r THEN i ELSE s[a]
  BY <1>1
<1>6a. e \in [0..n-k-1 -> 0..n-1] /\ e[j] = v /\ \A b \in Filled : e[b] = d[b]
  <2>1. d \in [0..n-k-1 -> 0..n-1] /\ Filled \subseteq 0..n-k-1
    BY <1>1
  <2> HIDE DEF v, Filled, d
  <2> QED BY <2>1, <1>3, <1>4
<1>7. \A a \in Idx : s[a] # i /\ t[a] < i + 1
  <2> SUFFICES ASSUME NEW a \in Idx PROVE s[a] # i /\ t[a] < i + 1
    OBVIOUS
  <2>1. s[a] \in 0..n-1 /\ s[a] < i /\ i \in Int
    BY <1>1
  <2> QED BY <2>1, <1>6
<1>8. v = IF r \in Idx THEN s[r] ELSE i
  OBVIOUS
<1> HIDE DEF s, d, t, e, v, j, Idx, Filled, Next
<1>9. \A b \in Next : e[b] < i + 1
  <2>1. \A b \in Filled : b \in Nat
    BY DEF Filled, j
  <2> QED BY <1>1, <1>3, <1>4, <1>6a, <2>1 DEF Filled, j
<1>10. \A a, b \in Idx : t[a] = t[b] => a = b
  BY <1>5, <1>6, <1>7
<1>11. \A b \in Filled : d[b] # v
  BY <1>4a, <1>5, <1>8
<1>12. \A a, b \in Next : e[a] = e[b] => a = b
  <2>1. \A a, b \in Filled : e[a] = e[b] => a = b
    BY <1>5, <1>6a
  <2>2. \A b \in Filled : e[b] # e[j]
    BY <1>6a, <1>11
  <2> QED BY <2>1, <2>2, <1>3
<1>13. \A a \in Idx : t[a] # v
  <2> SUFFICES ASSUME NEW a \in Idx PROVE t[a] # v
    OBVIOUS
  <2>1. CASE r \in Idx
    BY <2>1, <1>5, <1>6, <1>7, <1>8
  <2>2. CASE r \notin Idx
    BY <2>2, <1>6, <1>7, <1>8
  <2> QED BY <2>1, <2>2
<1>14. \A a \in Idx, b \in Next : t[a] # e[b]
  <2>1. \A a \in Idx, b \in Filled : t[a] # d[b]
    BY <1>4a, <1>5, <1>6
  <2> QED BY <2>1, <1>3, <1>6a, <1>13
<1>15. \A c \in 0..i : (\E a \in Idx : t[a] = c) \/ (\E b \in Next : e[b] = c)
  <2> SUFFICES ASSUME NEW c \in 0..i
               PROVE  (\E a \in Idx : t[a] = c) \/ (\E b \in Next : e[b] = c)
    OBVIOUS
  <2>1. CASE c = v
    BY <2>1, <1>3, <1>6a
  <2>2. CASE c # v /\ c = i
    BY <2>2, <1>6, <1>8
  <2>3. CASE c # v /\ c # i
    <3>1. c \in 0..i-1
      BY <2>3
    <3>2. CASE \E b \in Filled : d[b] = c
      BY <3>2, <1>3, <1>6a
    <3>3. CASE \E a \in Idx : s[a] = c
      BY <3>3, <2>3, <1>6, <1>8
    <3> QED BY <3>1, <3>2, <3>3, <1>5
  <2> QED BY <2>1, <2>2, <2>3
<1>16. Partitioned(t, e, k, i + 1)
  BY <1>10, <1>12, <1>14, <1>15 DEF Partitioned, Idx, Next
<1> QED
  BY <1>2, <1>6, <1>6a, <1>7, <1>9, <1>16 DEF Placed, Idx, Next

\* The draws GetRandSubset can make.
AllDraws(k, n) == {f \in [k..n-1 -> 0..n] : \A i \in k..n-1 : f[i] \in Draws(k, i)}

\* What GetRandSubset returns, whatever it draws, holds every circuit in exactly
\* one place of the two vectors.
THEOREM SelectedPlaced ==
    ASSUME NEW k \in Nat, NEW n \in Nat, k <= n, NEW draws \in AllDraws(k, n)
    PROVE  Placed(Selected(k, n, draws), k, n, n)
<1> DEFINE first == <<FirstSubset(k), FirstDifference(k, n)>>
           Loop(g, m) == g = [i \in k..m |-> IF i = k THEN first
                                             ELSE Place(g[i-1], k, i-1, draws[i-1])]
           pair == CHOOSE g : Loop(g, n)
           E == {m \in Nat : \E g : Loop(g, k + m)}
           P == {m \in Nat : k + m <= n => Placed(pair[k+m], k, n, k + m)}
<1>1. Selected(k, n, draws) = pair[n]
  BY DEF Selected
<1>2. E = Nat
  <2>1. 0 \in E
    <3> DEFINE g == [i \in k..k |-> first]
    <3>1. Loop(g, k + 0)
      OBVIOUS
    <3> HIDE DEF g, Loop
    <3> QED BY <3>1
  <2>2. ASSUME NEW m \in E PROVE m + 1 \in E
    <3>1. PICK g : Loop(g, k + m)
      OBVIOUS
    <3> DEFINE h == [i \in k..k+(m+1) |-> IF i = k THEN first
                                          ELSE Place(g[i-1], k, i-1, draws[i-1])]
    <3> HIDE DEF first
    <3>2. \A i \in k..k+m : h[i] = g[i]
      <4>1. \A i \in k..k+m : g[i] = IF i = k THEN first ELSE Place(g[i-1], k, i-1, draws[i-1])
        BY <3>1
      <4> HIDE DEF Loop
      <4> QED BY <4>1
    <3>3. Loop(h, k + (m + 1))
      <4>1. \A i \in k..k+(m+1) : i # k => h[i-1] = g[i-1]
        <5> HIDE DEF h, Loop
        <5>1. \A i \in k..k+(m+1) : i # k => i-1 \in k..k+m
          OBVIOUS
        <5> QED BY <3>2, <5>1
      <4> QED BY <4>1
    <3> HIDE DEF h, Loop
    <3> QED BY <3>3
  <2> HIDE DEF E
  <2> QED BY <2>1, <2>2, NatSetInduction DEF E
<1>3. Loop(pair, n)
  <2>1. n - k \in Nat /\ k + (n - k) = n
    OBVIOUS
  <2>2. \E g : Loop(g, n)
    <3>1. n - k \in E
      <4> HIDE DEF E
      <4> QED BY <1>2, <2>1
    <3> QED BY <2>1, <3>1
  <2> HIDE DEF Loop
  <2> QED BY <2>2
<1> HIDE DEF pair
<1>4. P = Nat
  <2>1. 0 \in P
    <3>1. pair[k] = first
      BY <1>3
    <3> QED BY <3>1, FirstPlaced
  <2>2. ASSUME NEW m \in P PROVE m + 1 \in P
    <3> SUFFICES ASSUME k + (m + 1) <= n PROVE Placed(pair[k+(m+1)], k, n, k + (m + 1))
      OBVIOUS
    <3> DEFINE i == k + m
    <3>1. pair[i+1] = Place(pair[i], k, i, draws[i])
      <4>1. i + 1 \in k..n /\ i + 1 # k /\ (i + 1) - 1 = i
        OBVIOUS
      <4> HIDE DEF i, first
      <4> QED BY <1>3, <4>1
    <3>2. i \in k..n-1 /\ draws[i] \in Draws(k, i) /\ Placed(pair[i], k, n, i)
      BY DEF AllDraws
    <3>3. i + 1 = k + (m + 1)
      OBVIOUS
    <3> HIDE DEF i
    <3>4. Placed(Place(pair[i], k, i, draws[i]), k, n, i + 1)
      BY <3>2, PlaceKeeps
    <3> QED BY <3>1, <3>3, <3>4
  <2> HIDE DEF P
  <2> QED BY <2>1, <2>2, NatSetInduction DEF P
<1>5. n - k \in Nat /\ k + (n - k) = n
  OBVIOUS
<1>6. n - k \in P
  <2> HIDE DEF P
  <2> QED BY <1>4, <1>5
<1> QED
  BY <1>1, <1>5, <1>6

=============================================================================
