------------------------------- MODULE Loops -------------------------------
(***************************************************************************)
(* Induction over the rounds of a loop, and what a function that is defined *)
(* by recursion over them is: the facts that proofs about the loops of the  *)
(* program rest on.  Everything follows from the well-founded order of the  *)
(* natural numbers.                                                        *)
(***************************************************************************)
EXTENDS Integers, WellFoundedInduction, TLAPS

\* A set of natural numbers has a least element.
THEOREM LeastNat ==
  ASSUME NEW S, S \subseteq Nat, S # {}
  PROVE  \E n \in S : \A m \in S : n <= m
<1> DEFINE R == {p \in Nat \X Nat : p[1] < p[2]}
<1>1. IsWellFoundedOn(OpToRel(<, Nat), Nat)
  BY NatLessThanWellFounded
<1>2. OpToRel(<, Nat) = R
  BY DEF OpToRel
<1>3. IsWellFoundedOn(R, Nat)
  BY <1>1, <1>2, Zenon
<1> HIDE DEF R
<1>4. PICK n \in S : \A m \in S : ~(<<m, n>> \in R)
  BY <1>3, WFMin
<1>5. ASSUME NEW m \in S PROVE n <= m
  <2>1. m \in Nat /\ n \in Nat
    OBVIOUS
  <2>2. m < n => <<m, n>> \in R
    BY <2>1 DEF R
  <2> QED
    BY <1>4, <2>1, <2>2
<1> QED
  BY <1>5

\* What holds before the first of N rounds, and after a round when it held before
\* it, holds after the last.
THEOREM LoopInduction ==
  ASSUME NEW N \in Nat, NEW S, 0 \in S, \A n \in 0..(N - 1) : n \in S => n + 1 \in S
  PROVE  \A n \in 0..N : n \in S
<1> SUFFICES ASSUME NEW n \in 0..N, n \notin S PROVE FALSE
  OBVIOUS
<1> DEFINE F == {m \in 0..N : m \notin S}
<1>1. PICK least \in F : \A m \in F : least <= m
  <2>1. F \subseteq Nat /\ F # {}
    OBVIOUS
  <2> HIDE DEF F
  <2> QED
    BY <2>1, LeastNat
<1>2. least # 0 /\ least - 1 \notin F /\ least - 1 \in 0..(N - 1)
  BY <1>1
<1> QED
  BY <1>1, <1>2

\* A function defined by recursion over the rounds: the state starts as start, and
\* round n makes step[n][s] of the state s.
Rounds(f, N, start, step) ==
  f = [n \in 0..N |-> IF n = 0 THEN start ELSE step[n][f[n - 1]]]

\* Such a function exists, and every state of the loop is one of the states its rounds
\* make (the loop of fake/api.go:102-120, the powers of analytics.go:155-164).
THEOREM RoundsDefined ==
  ASSUME NEW N \in Nat, NEW T, NEW start \in T, NEW step \in [1..N -> [T -> T]]
  PROVE  \E f \in [0..N -> T] : Rounds(f, N, start, step)
<1> DEFINE Is(f, n) == /\ f \in [0..n -> T] /\ f[0] = start
                       /\ \A k \in 1..n : f[k] = step[k][f[k - 1]]
           S == {n \in 0..N : \E f : Is(f, n)}
<1>1. 0 \in S
  <2>1. Is([k \in 0..0 |-> start], 0)
    OBVIOUS
  <2> HIDE DEF Is
  <2> QED
    BY <2>1
<1>2. ASSUME NEW n \in 0..(N - 1), n \in S PROVE n + 1 \in S
  <2>1. PICK f : Is(f, n)
    BY <1>2
  <2> DEFINE g == [k \in 0..(n + 1) |-> IF k = n + 1 THEN step[n + 1][f[n]] ELSE f[k]]
  <2>2. f[n] \in T /\ n + 1 \in 1..N
    BY <2>1
  <2>3. step[n + 1][f[n]] \in T
    BY <2>2
  <2>4. g \in [0..(n + 1) -> T] /\ g[0] = start
    BY <2>1, <2>3
  <2>5. ASSUME NEW k \in 1..(n + 1) PROVE g[k] = step[k][g[k - 1]]
    BY <2>1
  <2>6. Is(g, n + 1)
    BY <2>4, <2>5
  <2>7. n + 1 \in 0..N
    OBVIOUS
  <2> HIDE DEF Is
  <2> QED
    BY <2>6, <2>7
<1>3. N \in S
  <2> HIDE DEF S
  <2>1. \A n \in 0..N : n \in S
    BY <1>1, <1>2, LoopInduction
  <2> QED
    BY <2>1
<1>4. PICK f : Is(f, N)
  BY <1>3
<1>5. f = [n \in 0..N |-> IF n = 0 THEN start ELSE step[n][f[n - 1]]]
  BY <1>4
<1> QED
  BY <1>4, <1>5 DEF Rounds
=============================================================================
