------------------------------- MODULE Arrays -------------------------------
(***************************************************************************)
(* Arrays as the containers of libBDX/Common keep them: functions whose    *)
(* domain starts at zero, and the three things the code does with them:    *)
(* allocate, take a prefix, and copy a piece of one over another (memcpy). *)
(***************************************************************************)
EXTENDS Integers, FiniteSets

Array(n, S)  == [0..n-1 -> S]
Length(a)    == Cardinality(DOMAIN a)
Constant(n, v) == [i \in 0..n-1 |-> v]
Prefix(a, n) == [i \in 0..n-1 |-> a[i]]
Piece(a, at, n) == [i \in 0..n-1 |-> a[at + i]]
Joined(a, n, b, k) == [i \in 0..n+k-1 |-> IF i < n THEN a[i] ELSE b[i - n]]

\* The first n elements of b written over a from position "at" on.
Overwritten(a, at, b, n) ==
    [i \in DOMAIN a |-> IF i >= at /\ i < at + n THEN b[i - at] ELSE a[i]]

=============================================================================
