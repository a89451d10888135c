---------------------------- MODULE LeastNumbers ----------------------------
(* Induction over positions, as the proofs do it: a set of natural numbers   *)
(* that is not empty has a least element, so a claim that holds for the      *)
(* first position and passes from each position to the next has no           *)
(* counterexample.                                                           *)
EXTENDS Integers, WellFoundedInduction, TLAPS

Below == {p \in Nat \X Nat : p[1] < p[2]}

LEMMA BelowIsWellFounded == IsWellFoundedOn(Below, Nat)
<1>1. OpToRel(<, Nat) = Below
  BY DEF OpToRel, Below
<1> QED
  BY <1>1, NatLessThanWellFounded, Zenon

\* The form in which induction over natural numbers is used here.
LEMMA LeastNatural ==
  ASSUME NEW T \in SUBSET Nat, T # {}
  PROVE  \E n \in T : \A m \in T : n <= m
<1>1. PICK x \in T : \A y \in T : <<y, x>> \notin Below
  BY BelowIsWellFounded, WFMin, Zenon
<1>2. \A y \in T : ~(y < x)
  BY <1>1 DEF Below
<1> QED
  BY <1>2

\* The least position in a set of positions: its predecessor is not in the set.
LEMMA LeastUpTo ==
  ASSUME NEW N \in Nat, NEW T \in SUBSET (1 .. N), T # {}
  PROVE  \E n \in T : n \in 1 .. N /\ (n # 1 => n - 1 \in (1 .. N) \ T /\ n \in 2 .. N)
<1>1. T \in SUBSET Nat
  OBVIOUS
<1>2. PICK n \in T : \A m \in T : n <= m
  BY <1>1, LeastNatural
<1>3. n \in Nat /\ 1 <= n /\ n <= N
  OBVIOUS
<1>4. n - 1 \notin T
  BY <1>2, <1>3
<1>5. n # 1 => n - 1 \in 1 .. N /\ n \in 2 .. N
  BY <1>3
<1> QED
  BY <1>4, <1>5

\* A step for each of N positions.
IsStepper(N, S, init, step) ==
  N \in Nat /\ init \in S /\ step \in [1 .. N -> [S -> S]]

IsRun(f, N, S, init, step) ==
  /\ f \in [1 .. N + 1 -> S]
  /\ f[1] = init
  /\ \A i \in 1 .. N : f[i + 1] = step[i][f[i]]

\* A run of N steps from init exists, whatever the steps compute: the functions
\* that the specifications define by recursion over positions are total.
LEMMA Iterates ==
  ASSUME NEW N, NEW S, NEW init, NEW step, IsStepper(N, S, init, step)
  PROVE  \E f : IsRun(f, N, S, init, step)
<1> USE DEF IsStepper
<1> DEFINE Fits(f, n) == /\ f \in [1 .. n -> S] /\ f[1] = init
                         /\ \A i \in 1 .. n - 1 : f[i + 1] = step[i][f[i]]
           Bad == {n \in 1 .. N + 1 : ~ \E f : Fits(f, n)}
<1>1. Fits([i \in 1 .. 1 |-> init], 1)
  OBVIOUS
<1>2. ASSUME NEW n \in 2 .. N + 1, NEW f, Fits(f, n - 1)
      PROVE  \E g : Fits(g, n)
  <2> DEFINE m == n - 1
             next == step[m][f[m]]
             g == [i \in 1 .. n |-> IF i = n THEN next ELSE f[i]]
  <2>1. m \in 1 .. N /\ n = m + 1 /\ m \in Nat
    OBVIOUS
  <2>2. /\ f \in [1 .. m -> S] /\ f[1] = init
        /\ \A i \in 1 .. m - 1 : f[i + 1] = step[i][f[i]]
    BY <1>2
  <2> HIDE DEF m
  <2>3. next \in S
    BY <2>1, <2>2
  <2> HIDE DEF next
  <2>4. g \in [1 .. n -> S] /\ g[n] = next /\ \A i \in 1 .. m : g[i] = f[i]
    BY <2>1, <2>2, <2>3
  <2> HIDE DEF g
  <2>5. \A i \in 1 .. m : i = m \/ (i \in 1 .. m - 1 /\ i + 1 \in 1 .. m)
    BY <2>1
  <2>6. \A i \in 1 .. m : g[i + 1] = step[i][g[i]]
    BY <2>1, <2>2, <2>4, <2>5 DEF next
  <2>7. g[1] = init
    BY <2>1, <2>2, <2>4
  <2>8. n - 1 = m
    BY <2>1
  <2> QED
    BY <2>4, <2>6, <2>7, <2>8
<1> HIDE DEF Fits
<1>3. Bad = {}
  <2> SUFFICES ASSUME Bad # {} PROVE FALSE
    OBVIOUS
  <2>1. PICK n \in Bad : n \in 1 .. N + 1
                        /\ (n # 1 => n - 1 \in (1 .. N + 1) \ Bad /\ n \in 2 .. N + 1)
    <3>1. Bad \in SUBSET (1 .. N + 1) /\ N + 1 \in Nat
      OBVIOUS
    <3> HIDE DEF Bad
    <3> QED
      BY <3>1, LeastUpTo
  <2> QED
    BY <1>1, <1>2, <2>1
<1>4. PICK f : Fits(f, N + 1)
  <2>1. N + 1 \in 1 .. N + 1
    OBVIOUS
  <2> QED
    BY <1>3, <2>1
<1>5. (N + 1) - 1 = N
  OBVIOUS
<1> QED
  BY <1>4, <1>5 DEF Fits, IsRun
=============================================================================
