-------------------------- MODULE ModelStream_proofs --------------------------
(***************************************************************************)
(* Proofs about ModelStream, for any calls, pieces of arguments and        *)
(* chunks.  The reader and the stream are related by what the reader was   *)
(* told (Matches): what it has open or has passed on is what StreamState   *)
(* has started and stopped, whichever steps the chunks make them take.     *)
(***************************************************************************)
EXTENDS ModelStream, TLAPS, WellFoundedInduction, SequenceTheorems, FiniteSetTheorems

\* What is assumed of the constants: the block of a call is its index, a number
\* from one up; that of text is zero, and that of thinking would be the block of
\* an answer's 999th call.
Numbered ==
  /\ Calls \subseteq Nat \ Talk /\ IsFiniteSet(Calls)
  /\ MaxPieces \in Nat /\ MaxChunks \in Nat

(***************************************************************************)
(* Numbers.                                                                *)
(***************************************************************************)

\* A set of natural numbers that is not empty has a least element.
LEMMA Smallest ==
  ASSUME NEW T, T \subseteq Nat, T # {}
  PROVE  \E x \in T : \A y \in T : x <= y
<1>1. \E x \in T : \A y \in T : ~ (<<y, x>> \in OpToRel(<, Nat))
  BY NatLessThanWellFounded, WFMin, Zenon
<1>2. \A x, y \in T : <<y, x>> \in OpToRel(<, Nat) <=> y < x
  BY Zenon DEF OpToRel
<1>3. \E x \in T : \A y \in T : ~ (y < x)
  BY <1>1, <1>2, Zenon
<1> QED
  BY <1>3

\* Induction, stated for a set instead of a predicate.
LEMMA SetInduction ==
  ASSUME NEW S, 0 \in S, \A n \in Nat : n \in S => n + 1 \in S
  PROVE  Nat \subseteq S
<1> SUFFICES ASSUME Nat \ S # {}
             PROVE  FALSE
  OBVIOUS
<1>1. PICK x \in Nat \ S : \A y \in Nat \ S : x <= y
  BY Smallest
<1>2. x # 0 /\ x - 1 \in Nat /\ x - 1 \in S
  BY <1>1
<1> QED
  BY <1>1, <1>2

\* A bounded set of positive numbers that is not empty has a greatest element.
LEMMA Largest ==
  ASSUME NEW n \in Nat, NEW T, T \subseteq 1..n, T # {}
  PROVE  \E x \in T : \A y \in T : x >= y
<1> DEFINE R == {n - x : x \in T}
<1>1. R \subseteq Nat /\ R # {}
  <2>1. \A x \in T : n - x \in Nat
    OBVIOUS
  <2> QED
    BY <2>1, Zenon
<1>2. PICK r \in R : \A y \in R : r <= y
  BY <1>1, Smallest
<1>3. n - r \in T /\ \A y \in T : n - r >= y
  BY <1>2
<1> QED
  BY <1>3

Greatest(r) == CHOOSE x \in r : \A y \in r : x >= y

\* Greatest names an element no other exceeds.
LEMMA GreatestIn ==
  ASSUME NEW n \in Nat, NEW r, r \subseteq 1..n, r # {}
  PROVE  Greatest(r) \in r /\ \A y \in r : Greatest(r) >= y
  BY Largest, Zenon DEF Greatest

-----------------------------------------------------------------------------
(***************************************************************************)
(* Streamed answers.                                                       *)
(***************************************************************************)

(* Folds over the elements of a sequence, g being what is made of an       *)
(* element and of what came before it.                                     *)

Recurs(f, a, g, n) ==
  f = [r \in SUBSET (1..n) |->
         IF r = {} THEN a ELSE g[Greatest(r)][f[r \ {Greatest(r)}]]]

\* What goes on without leaving a set can be recorded in a function.
LEMMA RecursionExists ==
  ASSUME NEW R, NEW a \in R, NEW g \in [Nat -> [R -> R]]
  PROVE  \A n \in Nat : \E f \in [SUBSET (1..n) -> R] : Recurs(f, a, g, n)
<1> DEFINE S == {n \in Nat : \E f \in [SUBSET (1..n) -> R] : Recurs(f, a, g, n)}
<1>0. \A x \in R : \A k \in Nat : g[k][x] \in R
  OBVIOUS
<1>1. 0 \in S
  <2> DEFINE f == [r \in SUBSET (1..0) |-> a]
  <2>1. \A r \in SUBSET (1..0) : r = {}
    OBVIOUS
  <2>2. Recurs(f, a, g, 0) /\ f \in [SUBSET (1..0) -> R]
    BY <2>1, Zenon DEF Recurs
  <2> QED
    BY <2>2
<1>2. ASSUME NEW n \in Nat, n \in S
      PROVE  n + 1 \in S
  <2>1. PICK f \in [SUBSET (1..n) -> R] : Recurs(f, a, g, n)
    BY <1>2
  <2> DEFINE m == n + 1
             F == [r \in SUBSET (1..m) |-> IF m \in r THEN g[m][f[r \ {m}]] ELSE f[r]]
             body(r) == IF r = {} THEN a ELSE g[Greatest(r)][F[r \ {Greatest(r)}]]
  <2>2. /\ m \in Nat
        /\ \A r \in SUBSET (1..m) : m \notin r => r \in SUBSET (1..n)
        /\ \A r \in SUBSET (1..m) : r \ {m} \in SUBSET (1..n)
        /\ \A r \in SUBSET (1..n) : r \in SUBSET (1..m) /\ m \notin r
        /\ \A x, y \in 1..m : x >= y /\ y >= x => x = y
        /\ \A y \in 1..m : m >= y
    OBVIOUS
  <2>3. ASSUME NEW r \in SUBSET (1..n)
        PROVE  f[r] = IF r = {} THEN a ELSE g[Greatest(r)][f[r \ {Greatest(r)}]]
    BY <2>1, Zenon DEF Recurs
  <2> HIDE DEF m
  <2>4. ASSUME NEW r \in SUBSET (1..m)
        PROVE  F[r] = body(r)
    <3>1. CASE m \in r
      <4>1. Greatest(r) \in r /\ Greatest(r) >= m
        BY <2>2, <3>1, GreatestIn
      <4>2. Greatest(r) = m
        <5>1. Greatest(r) \in 1..m /\ m \in 1..m
          BY <3>1, <4>1
        <5> QED
          BY <2>2, <4>1, <5>1, Zenon
      <4>3. r \ {m} \in SUBSET (1..m) /\ m \notin r \ {m} /\ r # {}
        BY <2>2, <3>1
      <4>4. F[r \ {m}] = f[r \ {m}]
        BY <4>3, Zenon
      <4>5. body(r) = g[m][F[r \ {m}]]
        BY <4>2, <4>3, Zenon
      <4> QED
        BY <3>1, <4>4, <4>5, Zenon
    <3>2. CASE m \notin r
      <4>1. r \in SUBSET (1..n)
        BY <2>2, <3>2
      <4>2. F[r] = f[r]
        BY <3>2, Zenon
      <4>3. CASE r = {}
        BY <2>3, <4>1, <4>2, <4>3, Zenon
      <4>4. CASE r # {}
        <5> DEFINE q == r \ {Greatest(r)}
        <5>1. q \in SUBSET (1..n)
          BY <4>1
        <5>2. F[q] = f[q]
          BY <2>2, <5>1, Zenon
        <5>3. f[r] = g[Greatest(r)][f[q]]
          BY <2>3, <4>1, <4>4, Zenon
        <5>4. body(r) = g[Greatest(r)][F[q]]
          BY <4>4, Zenon
        <5> QED
          BY <4>2, <5>2, <5>3, <5>4, Zenon
      <4> QED
        BY <4>3, <4>4
    <3> QED
      BY <3>1, <3>2
  <2>5. F = [r \in SUBSET (1..m) |-> body(r)]
    <3> HIDE DEF body
    <3> QED
      BY <2>4, Zenon
  <2>6. Recurs(F, a, g, m)
    BY <2>5, Zenon DEF Recurs
  <2>7. F \in [SUBSET (1..m) -> R]
    <3>1. ASSUME NEW r \in SUBSET (1..m)
          PROVE  F[r] \in R
      <4>1. CASE m \in r
        <5>1. f[r \ {m}] \in R
          BY <2>1, <2>2
        <5>2. g[m][f[r \ {m}]] \in R
          BY <1>0, <2>2, <5>1, Zenon
        <5> QED
          BY <4>1, <5>2, Zenon
      <4>2. CASE m \notin r
        BY <2>1, <2>2, <4>2, Zenon
      <4> QED
        BY <4>1, <4>2
    <3>2. F = [r \in SUBSET (1..m) |-> F[r]]
      OBVIOUS
    <3> HIDE DEF F
    <3> QED
      BY <3>1, <3>2, Zenon
  <2> HIDE DEF F
  <2> QED
    BY <2>2, <2>6, <2>7 DEF m
<1> HIDE DEF S
<1>3. Nat \subseteq S
  BY <1>1, <1>2, SetInduction
<1> QED
  BY <1>3 DEF S

\* The first positions of a sequence are those up to the greatest of them.
LEMMA FirstPositions ==
  ASSUME NEW n \in Nat
  PROVE  \A k \in 1..n : /\ 1..k \in SUBSET (1..n) /\ 1..k # {}
                         /\ Greatest(1..k) = k /\ (1..k) \ {k} = 1..(k - 1)
<1>1. ASSUME NEW k \in 1..n
      PROVE  /\ 1..k \in SUBSET (1..n) /\ 1..k # {}
             /\ Greatest(1..k) = k /\ (1..k) \ {k} = 1..(k - 1)
  <2>0. k \in Nat /\ k >= 1 /\ k <= n
    OBVIOUS
  <2>1. k \in 1..k /\ 1..k # {} /\ 1..k \in SUBSET (1..n)
    BY <2>0
  <2>2. (1..k) \ {k} = 1..(k - 1)
    BY <2>0
  <2>3. Greatest(1..k) \in 1..k /\ Greatest(1..k) >= k
    BY <2>0, <2>1, GreatestIn, Zenon
  <2>4. Greatest(1..k) = k
    BY <2>0, <2>3
  <2> QED
    BY <2>1, <2>2, <2>4
<1> QED
  BY <1>1, Zenon

\* What holds at the start and is kept by each of n steps holds at the end.
LEMMA Along ==
  ASSUME NEW n \in Nat, NEW T, 0 \in T, \A k \in 1..n : k - 1 \in T => k \in T
  PROVE  \A k \in 0..n : k \in T
<1> DEFINE S == {k \in Nat : k <= n => k \in T}
<1>1. 0 \in S
  OBVIOUS
<1>2. ASSUME NEW k \in Nat, k \in S
      PROVE  k + 1 \in S
  <2>1. k + 1 <= n => k + 1 \in 1..n /\ (k + 1) - 1 = k /\ k <= n
    OBVIOUS
  <2> QED
    BY <1>2, <2>1
<1> HIDE DEF S
<1>3. Nat \subseteq S
  BY <1>1, <1>2, SetInduction
<1> QED
  BY <1>3 DEF S

GoesOn(f, R, g, n) ==
  \A r \in SUBSET (1..n) : r # {} /\ f[r \ {Greatest(r)}] \in R
                             => f[r] = g[Greatest(r)][f[r \ {Greatest(r)}]]

Steps(h, a, g, n, last) == h[0] = a /\ (\A k \in 1..n : h[k] = g[k][h[k - 1]]) /\ h[n] = last

\* What goes on from the values in R gives the values after each position.
LEMMA Stepped ==
  ASSUME NEW R, NEW a \in R, NEW n \in Nat, NEW g \in [Nat -> [R -> R]],
         NEW f, f[{}] = a, GoesOn(f, R, g, n)
  PROVE  \E h \in [0..n -> R] : Steps(h, a, g, n, f[1..n])
<1> DEFINE h == [k \in 0..n |-> f[1..k]]
           T == {k \in 0..n : h[k] \in R}
<1>0. \A k \in 1..n : k - 1 \in 0..n /\ k \in 0..n
  OBVIOUS
<1>1. 0 \in 0..n /\ n \in 0..n /\ 1..0 = {}
  OBVIOUS
<1>2. h[0] = a /\ h[n] = f[1..n]
  BY <1>1, Zenon
<1>3. ASSUME NEW k \in 1..n, h[k - 1] \in R
      PROVE  h[k] = g[k][h[k - 1]]
  <2>1. /\ 1..k \in SUBSET (1..n) /\ 1..k # {}
        /\ Greatest(1..k) = k /\ (1..k) \ {k} = 1..(k - 1)
    BY FirstPositions, Zenon
  <2>2. h[k] = f[1..k] /\ h[k - 1] = f[1..(k - 1)]
    BY <1>0, Zenon
  <2> HIDE DEF h
  <2>3. f[(1..k) \ {Greatest(1..k)}] \in R
    BY <1>3, <2>1, <2>2, Zenon
  <2>4. f[1..k] = g[Greatest(1..k)][f[(1..k) \ {Greatest(1..k)}]]
    BY <2>1, <2>3, Zenon DEF GoesOn
  <2> QED
    BY <2>1, <2>2, <2>4, Zenon
<1>4. \A k \in 1..n : \A x \in R : g[k][x] \in R
  OBVIOUS
<1> HIDE DEF h
<1>5. \A k \in 0..n : k \in T
  <2>1. 0 \in T
    BY <1>1, <1>2, Zenon
  <2>2. ASSUME NEW k \in 1..n, k - 1 \in T
        PROVE  k \in T
    BY <1>0, <1>3, <1>4, <2>2, Zenon
  <2> HIDE DEF T
  <2> QED
    BY <2>1, <2>2, Along
<1>6. \A k \in 1..n : h[k] = g[k][h[k - 1]]
  BY <1>0, <1>3, <1>5, Zenon
<1>7. h \in [0..n -> R]
  <2>1. \A k \in 0..n : h[k] \in R
    BY <1>5, Zenon
  <2>2. h = [k \in 0..n |-> h[k]]
    BY DEF h
  <2> QED
    BY <2>1, <2>2, Zenon
<1> QED
  BY <1>2, <1>6, <1>7, Zenon DEF Steps

(* The folds of the model, each as a sequence of steps.                    *)

TakeUp(s, deltas, finish) == FoldLeft(LAMBDA acc, d : CallDelta(acc, d, finish), s, deltas)
PushAll(by, r, content) == FoldLeft(LAMBDA acc, c : PushOutputBlock(by, acc, c.block, c.args), r, content)

Sayings(h, a, s, n) ==
  /\ h[0] = a
  /\ \A k \in 1..n : h[k] = Say(h[k - 1], s[k])
  /\ h[n] = FoldLeft(Say, a, s)

\* What is said is taken up piece by piece.
LEMMA SayingIsStepwise ==
  ASSUME NEW R, NEW a \in R, NEW n \in Nat, NEW s, DOMAIN s = 1..n,
         \A x \in R, k \in 1..n : Say(x, s[k]) \in R
  PROVE  \E h \in [0..n -> R] : Sayings(h, a, s, n)
<1> DEFINE E(f) == f = [r \in SUBSET (1..n) |->
                          IF r = {} THEN a ELSE Say(f[r \ {Greatest(r)}], s[Greatest(r)])]
           iter == CHOOSE f : E(f)
           g == [k \in Nat |-> [x \in R |-> IF k \in 1..n THEN Say(x, s[k]) ELSE x]]
<1>1. g \in [Nat -> [R -> R]]
  OBVIOUS
<1>2. \A k \in 1..n : \A x \in R : g[k][x] = Say(x, s[k])
  OBVIOUS
<1> HIDE DEF g
<1>3. ASSUME NEW r \in SUBSET (1..n), r # {}
      PROVE  Greatest(r) \in 1..n
  BY <1>3, GreatestIn
<1>4. E(iter)
  <2>1. PICK f \in [SUBSET (1..n) -> R] : Recurs(f, a, g, n)
    BY <1>1, RecursionExists
  <2>2. \A r \in SUBSET (1..n) : f[r \ {Greatest(r)}] \in R
    OBVIOUS
  <2>3. ASSUME NEW r \in SUBSET (1..n), r # {}
        PROVE  g[Greatest(r)][f[r \ {Greatest(r)}]] = Say(f[r \ {Greatest(r)}], s[Greatest(r)])
    BY <1>2, <1>3, <2>2, <2>3, Zenon
  <2>4. E(f)
    BY <2>1, <2>3, Zenon DEF Recurs
  <2> QED
    BY <2>4, Zenon
<1>5. FoldLeft(Say, a, s) = iter[1..n]
  BY Zenon DEF FoldLeft, MapThenFoldSet, Max, Greatest
<1> HIDE DEF iter
<1>6. iter[{}] = a
  <2>1. {} \in SUBSET (1..n)
    OBVIOUS
  <2> QED
    BY <1>4, <2>1, Zenon
<1>7. GoesOn(iter, R, g, n)
  BY <1>2, <1>3, <1>4, ZenonT(40) DEF GoesOn
<1>8. PICK h \in [0..n -> R] : Steps(h, a, g, n, iter[1..n])
  BY <1>1, <1>6, <1>7, Stepped, Zenon
<1>9. ASSUME NEW k \in 1..n
      PROVE  h[k] = Say(h[k - 1], s[k])
  <2>1. h[k - 1] \in R
    OBVIOUS
  <2> QED
    BY <1>2, <1>8, <2>1, Zenon DEF Steps
<1> QED
  BY <1>5, <1>8, <1>9, Zenon DEF Steps, Sayings

Takings(h, finish, a, s, n) ==
  /\ h[0] = a
  /\ \A k \in 1..n : h[k] = CallDelta(h[k - 1], s[k], finish)
  /\ h[n] = TakeUp(a, s, finish)

\* The pieces of calls are taken up one after another.
LEMMA DeltasAreStepwise ==
  ASSUME NEW finish, NEW R, NEW a \in R, NEW n \in Nat, NEW s, DOMAIN s = 1..n,
         \A x \in R, k \in 1..n : CallDelta(x, s[k], finish) \in R
  PROVE  \E h \in [0..n -> R] : Takings(h, finish, a, s, n)
<1> DEFINE E(f) == f = [r \in SUBSET (1..n) |->
                          IF r = {} THEN a ELSE CallDelta(f[r \ {Greatest(r)}], s[Greatest(r)], finish)]
           iter == CHOOSE f : E(f)
           g == [k \in Nat |-> [x \in R |-> IF k \in 1..n THEN CallDelta(x, s[k], finish) ELSE x]]
<1>1. g \in [Nat -> [R -> R]]
  OBVIOUS
<1>2. \A k \in 1..n : \A x \in R : g[k][x] = CallDelta(x, s[k], finish)
  OBVIOUS
<1> HIDE DEF g
<1>3. ASSUME NEW r \in SUBSET (1..n), r # {}
      PROVE  Greatest(r) \in 1..n
  BY <1>3, GreatestIn
<1>4. E(iter)
  <2>1. PICK f \in [SUBSET (1..n) -> R] : Recurs(f, a, g, n)
    BY <1>1, RecursionExists
  <2>2. \A r \in SUBSET (1..n) : f[r \ {Greatest(r)}] \in R
    OBVIOUS
  <2>3. ASSUME NEW r \in SUBSET (1..n), r # {}
        PROVE  g[Greatest(r)][f[r \ {Greatest(r)}]] = CallDelta(f[r \ {Greatest(r)}], s[Greatest(r)], finish)
    BY <1>2, <1>3, <2>2, <2>3, Zenon
  <2>4. E(f)
    BY <2>1, <2>3, Zenon DEF Recurs
  <2> QED
    BY <2>4, Zenon
<1>5. TakeUp(a, s, finish) = iter[1..n]
  BY Zenon DEF TakeUp, FoldLeft, MapThenFoldSet, Max, Greatest
<1> HIDE DEF iter
<1>6. iter[{}] = a
  <2>1. {} \in SUBSET (1..n)
    OBVIOUS
  <2> QED
    BY <1>4, <2>1, Zenon
<1>7. GoesOn(iter, R, g, n)
  BY <1>2, <1>3, <1>4, ZenonT(40) DEF GoesOn
<1>8. PICK h \in [0..n -> R] : Steps(h, a, g, n, iter[1..n])
  BY <1>1, <1>6, <1>7, Stepped, Zenon
<1>9. ASSUME NEW k \in 1..n
      PROVE  h[k] = CallDelta(h[k - 1], s[k], finish)
  <2>1. h[k - 1] \in R
    OBVIOUS
  <2> QED
    BY <1>2, <1>8, <2>1, Zenon DEF Steps
<1> QED
  BY <1>5, <1>8, <1>9, Zenon DEF Steps, Takings

Stoppings(h, a, s, n) ==
  /\ h[0] = a
  /\ \A k \in 1..n : h[k] = StopCall(h[k - 1], s[k])
  /\ h[n] = FoldLeft(StopCall, a, s)

\* The calls are stopped one after another.
LEMMA StoppingIsStepwise ==
  ASSUME NEW R, NEW a \in R, NEW n \in Nat, NEW s, DOMAIN s = 1..n,
         \A x \in R, k \in 1..n : StopCall(x, s[k]) \in R
  PROVE  \E h \in [0..n -> R] : Stoppings(h, a, s, n)
<1> DEFINE E(f) == f = [r \in SUBSET (1..n) |->
                          IF r = {} THEN a ELSE StopCall(f[r \ {Greatest(r)}], s[Greatest(r)])]
           iter == CHOOSE f : E(f)
           g == [k \in Nat |-> [x \in R |-> IF k \in 1..n THEN StopCall(x, s[k]) ELSE x]]
<1>1. g \in [Nat -> [R -> R]]
  OBVIOUS
<1>2. \A k \in 1..n : \A x \in R : g[k][x] = StopCall(x, s[k])
  OBVIOUS
<1> HIDE DEF g
<1>3. ASSUME NEW r \in SUBSET (1..n), r # {}
      PROVE  Greatest(r) \in 1..n
  BY <1>3, GreatestIn
<1>4. E(iter)
  <2>1. PICK f \in [SUBSET (1..n) -> R] : Recurs(f, a, g, n)
    BY <1>1, RecursionExists
  <2>2. \A r \in SUBSET (1..n) : f[r \ {Greatest(r)}] \in R
    OBVIOUS
  <2>3. ASSUME NEW r \in SUBSET (1..n), r # {}
        PROVE  g[Greatest(r)][f[r \ {Greatest(r)}]] = StopCall(f[r \ {Greatest(r)}], s[Greatest(r)])
    BY <1>2, <1>3, <2>2, <2>3, Zenon
  <2>4. E(f)
    BY <2>1, <2>3, Zenon DEF Recurs
  <2> QED
    BY <2>4, Zenon
<1>5. FoldLeft(StopCall, a, s) = iter[1..n]
  BY Zenon DEF FoldLeft, MapThenFoldSet, Max, Greatest
<1> HIDE DEF iter
<1>6. iter[{}] = a
  <2>1. {} \in SUBSET (1..n)
    OBVIOUS
  <2> QED
    BY <1>4, <2>1, Zenon
<1>7. GoesOn(iter, R, g, n)
  BY <1>2, <1>3, <1>4, ZenonT(40) DEF GoesOn
<1>8. PICK h \in [0..n -> R] : Steps(h, a, g, n, iter[1..n])
  BY <1>1, <1>6, <1>7, Stepped, Zenon
<1>9. ASSUME NEW k \in 1..n
      PROVE  h[k] = StopCall(h[k - 1], s[k])
  <2>1. h[k - 1] \in R
    OBVIOUS
  <2> QED
    BY <1>2, <1>8, <2>1, Zenon DEF Steps
<1> QED
  BY <1>5, <1>8, <1>9, Zenon DEF Steps, Stoppings

Closings(h, a, s, n) ==
  /\ h[0] = a
  /\ \A k \in 1..n : h[k] = CloseCall(h[k - 1], s[k])
  /\ h[n] = FoldLeft(CloseCall, a, s)

\* The calls are closed one after another.
LEMMA ClosingIsStepwise ==
  ASSUME NEW R, NEW a \in R, NEW n \in Nat, NEW s, DOMAIN s = 1..n,
         \A x \in R, k \in 1..n : CloseCall(x, s[k]) \in R
  PROVE  \E h \in [0..n -> R] : Closings(h, a, s, n)
<1> DEFINE E(f) == f = [r \in SUBSET (1..n) |->
                          IF r = {} THEN a ELSE CloseCall(f[r \ {Greatest(r)}], s[Greatest(r)])]
           iter == CHOOSE f : E(f)
           g == [k \in Nat |-> [x \in R |-> IF k \in 1..n THEN CloseCall(x, s[k]) ELSE x]]
<1>1. g \in [Nat -> [R -> R]]
  OBVIOUS
<1>2. \A k \in 1..n : \A x \in R : g[k][x] = CloseCall(x, s[k])
  OBVIOUS
<1> HIDE DEF g
<1>3. ASSUME NEW r \in SUBSET (1..n), r # {}
      PROVE  Greatest(r) \in 1..n
  BY <1>3, GreatestIn
<1>4. E(iter)
  <2>1. PICK f \in [SUBSET (1..n) -> R] : Recurs(f, a, g, n)
    BY <1>1, RecursionExists
  <2>2. \A r \in SUBSET (1..n) : f[r \ {Greatest(r)}] \in R
    OBVIOUS
  <2>3. ASSUME NEW r \in SUBSET (1..n), r # {}
        PROVE  g[Greatest(r)][f[r \ {Greatest(r)}]] = CloseCall(f[r \ {Greatest(r)}], s[Greatest(r)])
    BY <1>2, <1>3, <2>2, <2>3, Zenon
  <2>4. E(f)
    BY <2>1, <2>3, Zenon DEF Recurs
  <2> QED
    BY <2>4, Zenon
<1>5. FoldLeft(CloseCall, a, s) = iter[1..n]
  BY Zenon DEF FoldLeft, MapThenFoldSet, Max, Greatest
<1> HIDE DEF iter
<1>6. iter[{}] = a
  <2>1. {} \in SUBSET (1..n)
    OBVIOUS
  <2> QED
    BY <1>4, <2>1, Zenon
<1>7. GoesOn(iter, R, g, n)
  BY <1>2, <1>3, <1>4, ZenonT(40) DEF GoesOn
<1>8. PICK h \in [0..n -> R] : Steps(h, a, g, n, iter[1..n])
  BY <1>1, <1>6, <1>7, Stepped, Zenon
<1>9. ASSUME NEW k \in 1..n
      PROVE  h[k] = CloseCall(h[k - 1], s[k])
  <2>1. h[k - 1] \in R
    OBVIOUS
  <2> QED
    BY <1>2, <1>8, <2>1, Zenon DEF Steps
<1> QED
  BY <1>5, <1>8, <1>9, Zenon DEF Steps, Closings

Readings(h, by, a, s, n) ==
  /\ h[0] = a
  /\ \A k \in 1..n : h[k] = Read(by, h[k - 1], s[k])
  /\ h[n] = ReadAll(by, a, s)

\* Events are read one after another.
LEMMA ReadingIsStepwise ==
  ASSUME NEW by, NEW R, NEW a \in R, NEW n \in Nat, NEW s, DOMAIN s = 1..n,
         \A x \in R, k \in 1..n : Read(by, x, s[k]) \in R
  PROVE  \E h \in [0..n -> R] : Readings(h, by, a, s, n)
<1> DEFINE E(f) == f = [r \in SUBSET (1..n) |->
                          IF r = {} THEN a ELSE Read(by, f[r \ {Greatest(r)}], s[Greatest(r)])]
           iter == CHOOSE f : E(f)
           g == [k \in Nat |-> [x \in R |-> IF k \in 1..n THEN Read(by, x, s[k]) ELSE x]]
<1>1. g \in [Nat -> [R -> R]]
  OBVIOUS
<1>2. \A k \in 1..n : \A x \in R : g[k][x] = Read(by, x, s[k])
  OBVIOUS
<1> HIDE DEF g
<1>3. ASSUME NEW r \in SUBSET (1..n), r # {}
      PROVE  Greatest(r) \in 1..n
  BY <1>3, GreatestIn
<1>4. E(iter)
  <2>1. PICK f \in [SUBSET (1..n) -> R] : Recurs(f, a, g, n)
    BY <1>1, RecursionExists
  <2>2. \A r \in SUBSET (1..n) : f[r \ {Greatest(r)}] \in R
    OBVIOUS
  <2>3. ASSUME NEW r \in SUBSET (1..n), r # {}
        PROVE  g[Greatest(r)][f[r \ {Greatest(r)}]] = Read(by, f[r \ {Greatest(r)}], s[Greatest(r)])
    BY <1>2, <1>3, <2>2, <2>3, Zenon
  <2>4. E(f)
    BY <2>1, <2>3, Zenon DEF Recurs
  <2> QED
    BY <2>4, Zenon
<1>5. ReadAll(by, a, s) = iter[1..n]
  BY Zenon DEF ReadAll, FoldLeft, MapThenFoldSet, Max, Greatest
<1> HIDE DEF iter
<1>6. iter[{}] = a
  <2>1. {} \in SUBSET (1..n)
    OBVIOUS
  <2> QED
    BY <1>4, <2>1, Zenon
<1>7. GoesOn(iter, R, g, n)
  BY <1>2, <1>3, <1>4, ZenonT(40) DEF GoesOn
<1>8. PICK h \in [0..n -> R] : Steps(h, a, g, n, iter[1..n])
  BY <1>1, <1>6, <1>7, Stepped, Zenon
<1>9. ASSUME NEW k \in 1..n
      PROVE  h[k] = Read(by, h[k - 1], s[k])
  <2>1. h[k - 1] \in R
    OBVIOUS
  <2> QED
    BY <1>2, <1>8, <2>1, Zenon DEF Steps
<1> QED
  BY <1>5, <1>8, <1>9, Zenon DEF Steps, Readings

Pushings(h, by, a, s, n) ==
  /\ h[0] = a
  /\ \A k \in 1..n : h[k] = PushOutputBlock(by, h[k - 1], s[k].block, s[k].args)
  /\ h[n] = PushAll(by, a, s)

\* The content of a message is taken up block by block.
LEMMA PushingIsStepwise ==
  ASSUME NEW by, NEW R, NEW a \in R, NEW n \in Nat, NEW s, DOMAIN s = 1..n,
         \A x \in R, k \in 1..n : PushOutputBlock(by, x, s[k].block, s[k].args) \in R
  PROVE  \E h \in [0..n -> R] : Pushings(h, by, a, s, n)
<1> DEFINE E(f) == f = [r \in SUBSET (1..n) |->
                          IF r = {} THEN a ELSE PushOutputBlock(by, f[r \ {Greatest(r)}], s[Greatest(r)].block, s[Greatest(r)].args)]
           iter == CHOOSE f : E(f)
           g == [k \in Nat |-> [x \in R |-> IF k \in 1..n THEN PushOutputBlock(by, x, s[k].block, s[k].args) ELSE x]]
<1>1. g \in [Nat -> [R -> R]]
  OBVIOUS
<1>2. \A k \in 1..n : \A x \in R : g[k][x] = PushOutputBlock(by, x, s[k].block, s[k].args)
  OBVIOUS
<1> HIDE DEF g
<1>3. ASSUME NEW r \in SUBSET (1..n), r # {}
      PROVE  Greatest(r) \in 1..n
  BY <1>3, GreatestIn
<1>4. E(iter)
  <2>1. PICK f \in [SUBSET (1..n) -> R] : Recurs(f, a, g, n)
    BY <1>1, RecursionExists
  <2>2. \A r \in SUBSET (1..n) : f[r \ {Greatest(r)}] \in R
    OBVIOUS
  <2>3. ASSUME NEW r \in SUBSET (1..n), r # {}
        PROVE  g[Greatest(r)][f[r \ {Greatest(r)}]] = PushOutputBlock(by, f[r \ {Greatest(r)}], s[Greatest(r)].block, s[Greatest(r)].args)
    BY <1>2, <1>3, <2>2, <2>3, Zenon
  <2>4. E(f)
    BY <2>1, <2>3, Zenon DEF Recurs
  <2> QED
    BY <2>4, Zenon
<1>5. PushAll(by, a, s) = iter[1..n]
  BY Zenon DEF PushAll, FoldLeft, MapThenFoldSet, Max, Greatest
<1> HIDE DEF iter
<1>6. iter[{}] = a
  <2>1. {} \in SUBSET (1..n)
    OBVIOUS
  <2> QED
    BY <1>4, <2>1, Zenon
<1>7. GoesOn(iter, R, g, n)
  BY <1>2, <1>3, <1>4, ZenonT(40) DEF GoesOn
<1>8. PICK h \in [0..n -> R] : Steps(h, a, g, n, iter[1..n])
  BY <1>1, <1>6, <1>7, Stepped, Zenon
<1>9. ASSUME NEW k \in 1..n
      PROVE  h[k] = PushOutputBlock(by, h[k - 1], s[k].block, s[k].args)
  <2>1. h[k - 1] \in R
    OBVIOUS
  <2> QED
    BY <1>2, <1>8, <2>1, Zenon DEF Steps
<1> QED
  BY <1>5, <1>8, <1>9, Zenon DEF Steps, Pushings

-----------------------------------------------------------------------------
(* The readers.                                                            *)

Blocks == Calls \cup Talk
KeptCalls == [block : Calls, args : Seq(Nat)]
ContentBlocks == [block : Blocks, args : Seq(Nat)]

CallReaders == [open : SUBSET KeptCalls, uses : Seq(KeptCalls), saw_stop : BOOLEAN,
                blocks : SUBSET Calls, crowded : BOOLEAN]

\* The readers in which each slot holds one call.
SlotReaders(by) ==
  {r \in CallReaders : \A u, v \in r.open : Slot(by, u.block) = Slot(by, v.block) => u = v}

StreamEvents ==
  [kind : {"message_start"}, content : Seq(ContentBlocks)]
    \cup [kind : {"start", "delta"}, block : Blocks, args : Seq(Nat)]
    \cup [kind : {"stop"}, block : Blocks] \cup {MessageStop}

\* What was taken from one slot is at most one call.
LEMMA OneAtMost ==
  ASSUME NEW S, \A u, v \in S : u = v
  PROVE  \/ S = {} /\ SetToSeq(S) = <<>>
         \/ \E u \in S : S = {u} /\ SetToSeq(S) = <<u>>
<1>1. CASE S = {}
  <2>1. Cardinality(S) = 0
    BY <1>1, FS_EmptySet
  <2>2. SetToSeq(S) = CHOOSE f \in [1..0 -> S] : IsInjective(f)
    BY <2>1, Zenon DEF SetToSeq
  <2>3. \A f \in [1..0 -> S] : f = <<>>
    BY SMT
  <2>4. <<>> \in [1..0 -> S] /\ IsInjective(<<>>)
    BY SMT DEF IsInjective
  <2>5. SetToSeq(S) \in [1..0 -> S]
    BY <2>2, <2>4, Zenon
  <2> QED
    BY <1>1, <2>3, <2>5, Zenon
<1>2. CASE S # {}
  <2>1. PICK u \in S : S = {u}
    BY <1>2
  <2>2. Cardinality(S) = 1
    BY <2>1, FS_Singleton
  <2>3. SetToSeq(S) = CHOOSE f \in [1..1 -> S] : IsInjective(f)
    BY <2>2, Zenon DEF SetToSeq
  <2>4. \A f \in [1..1 -> S] : f = <<u>>
    BY <2>1, SMT
  <2>5. <<u>> \in [1..1 -> S] /\ IsInjective(<<u>>)
    BY <2>1, SMT DEF IsInjective
  <2>6. SetToSeq(S) \in [1..1 -> S]
    BY <2>3, <2>5, Zenon
  <2> QED
    BY <2>1, <2>4, <2>6, Zenon
<1> QED
  BY <1>1, <1>2

\* A call that is pushed keeps one call to a slot, and touches only the slots.
LEMMA PushKeeps ==
  ASSUME NEW by, NEW r \in SlotReaders(by), NEW b \in Blocks, NEW args \in Seq(Nat)
  PROVE  /\ PushOutputBlock(by, r, b, args) \in SlotReaders(by)
         /\ b \in Talk => PushOutputBlock(by, r, b, args) = r
         /\ b \notin Talk =>
              PushOutputBlock(by, r, b, args)
                = [r EXCEPT !.open = {u \in r.open : Slot(by, u.block) # Slot(by, b)}
                                        \cup {[block |-> b, args |-> args]}]
<1>1. CASE b \in Talk
  BY <1>1, Zenon DEF PushOutputBlock
<1>2. CASE b \notin Talk
  <2> DEFINE new == [block |-> b, args |-> args]
             others == {u \in r.open : Slot(by, u.block) # Slot(by, b)}
             x == [r EXCEPT !.open = others \cup {new}]
  <2>1. PushOutputBlock(by, r, b, args) = x
    BY <1>2, Zenon DEF PushOutputBlock
  <2>2. r \in CallReaders /\ \A u, v \in r.open : Slot(by, u.block) = Slot(by, v.block) => u = v
    BY Zenon DEF SlotReaders
  <2>3. new \in KeptCalls /\ new.block = b
    BY <1>2 DEF KeptCalls, Blocks
  <2>4. x \in CallReaders /\ x.open = others \cup {new}
    <3> HIDE DEF new
    <3> QED
      BY <2>2, <2>3 DEF CallReaders
  <2>5. \A u \in others : Slot(by, u.block) # Slot(by, b) /\ u \in r.open
    OBVIOUS
  <2> HIDE DEF x, others, new
  <2>6. \A u, v \in x.open : Slot(by, u.block) = Slot(by, v.block) => u = v
    BY <2>2, <2>3, <2>4, <2>5, Zenon
  <2>7. x \in SlotReaders(by)
    BY <2>4, <2>6, Zenon DEF SlotReaders
  <2> QED
    BY <1>2, <2>1, <2>7, Zenon DEF x, others, new
<1> QED
  BY <1>1, <1>2

\* Reading keeps one call to a slot.
LEMMA ReadKeeps ==
  ASSUME NEW by, NEW r \in SlotReaders(by), NEW e \in StreamEvents
  PROVE  Read(by, r, e) \in SlotReaders(by)
<1>0. r \in CallReaders /\ \A u, v \in r.open : Slot(by, u.block) = Slot(by, v.block) => u = v
  BY Zenon DEF SlotReaders
<1>1. CASE e.kind = "message_start"
  <2>1. e.content \in Seq(ContentBlocks)
    BY <1>1 DEF StreamEvents, MessageStop
  <2> DEFINE s == e.content
             n == Len(s)
  <2>2. n \in Nat /\ DOMAIN s = 1..n /\ \A k \in 1..n : s[k] \in ContentBlocks
    BY <2>1
  <2>3. Read(by, r, e) = PushAll(by, r, s)
    BY <1>1, Zenon DEF Read, PushAll
  <2> HIDE DEF s, n
  <2>4. \A x \in SlotReaders(by), k \in 1..n : PushOutputBlock(by, x, s[k].block, s[k].args) \in SlotReaders(by)
    <3>1. \A c \in ContentBlocks : c.block \in Blocks /\ c.args \in Seq(Nat)
      BY DEF ContentBlocks
    <3> QED
      BY <2>2, <3>1, PushKeeps, Zenon
  <2>5. PICK h \in [0..n -> SlotReaders(by)] : Pushings(h, by, r, s, n)
    BY <2>2, <2>4, PushingIsStepwise
  <2>6. h[n] \in SlotReaders(by)
    BY <2>2
  <2> QED
    BY <2>3, <2>5, <2>6, Zenon DEF Pushings
<1>2. CASE e.kind = "start"
  <2>1. e.block \in Blocks /\ e.args \in Seq(Nat)
    BY <1>2 DEF StreamEvents, MessageStop
  <2> DEFINE x == PushOutputBlock(by, r, e.block, e.args)
  <2>2. x \in SlotReaders(by)
    BY <2>1, PushKeeps, Zenon
  <2>3. Read(by, r, e) = [x EXCEPT !.crowded = x.crowded \/ (e.block \notin Talk /\ r.blocks # {}),
                                   !.blocks = x.blocks \cup ({e.block} \ Talk)]
    BY <1>2, Zenon DEF Read
  <2> HIDE DEF x
  <2>4. x \in CallReaders
    BY <2>2, Zenon DEF SlotReaders
  <2>5. {e.block} \ Talk \subseteq Calls
    BY <2>1 DEF Blocks
  <2>6. Read(by, r, e) \in CallReaders /\ Read(by, r, e).open = x.open
    BY <2>3, <2>4, <2>5 DEF CallReaders
  <2> QED
    BY <2>2, <2>6, Zenon DEF SlotReaders
<1>3. CASE e.kind = "delta" /\ e.block \in Talk
  BY <1>3, SMT DEF Read
<1>4. CASE e.kind = "delta" /\ e.block \notin Talk
  <2>1. e.args \in Seq(Nat)
    BY <1>4 DEF StreamEvents, MessageStop
  <2> DEFINE f(u) == IF Slot(by, u.block) = Slot(by, e.block) THEN [u EXCEPT !.args = u.args \o e.args] ELSE u
             open == {f(u) : u \in r.open}
  <2>2. Read(by, r, e) = [r EXCEPT !.open = open]
    BY <1>4, Zenon DEF Read
  <2>3. ASSUME NEW u \in r.open
        PROVE  f(u) \in KeptCalls /\ f(u).block = u.block
    <3>1. u \in KeptCalls
      BY <1>0 DEF CallReaders
    <3>2. u.args \o e.args \in Seq(Nat)
      BY <2>1, <3>1 DEF KeptCalls
    <3> QED
      BY <3>1, <3>2 DEF KeptCalls
  <2> HIDE DEF f
  <2>4. open \in SUBSET KeptCalls
    BY <2>3
  <2>5. \A u, v \in open : Slot(by, u.block) = Slot(by, v.block) => u = v
    BY <1>0, <2>3, ZenonT(40)
  <2> HIDE DEF open
  <2>6. Read(by, r, e) \in CallReaders /\ Read(by, r, e).open = open
    BY <1>0, <2>2, <2>4 DEF CallReaders
  <2> QED
    BY <2>5, <2>6, Zenon DEF SlotReaders
<1>5. CASE e.kind = "stop"
  <2> DEFINE taken == {u \in r.open : Slot(by, u.block) = Slot(by, e.block)}
             q == SetToSeq(taken)
  <2>1. Read(by, r, e) = [r EXCEPT !.open = r.open \ taken, !.uses = r.uses \o q,
                                   !.blocks = r.blocks \ {e.block}]
    BY <1>5, Zenon DEF Read
  <2>2. \A u, v \in taken : u = v
    BY <1>0, Zenon
  <2>3. taken \subseteq r.open /\ taken \subseteq KeptCalls
    BY <1>0 DEF CallReaders
  <2> HIDE DEF taken
  <2>4. q \in Seq(KeptCalls)
    <3>1. CASE q = <<>>
      BY <3>1
    <3>2. ASSUME NEW u \in taken, q = <<u>>
          PROVE  q \in Seq(KeptCalls)
      BY <2>3, <3>2
    <3>3. q = <<>> \/ \E u \in taken : q = <<u>>
      BY <2>2, OneAtMost, Zenon
    <3> QED
      BY <3>1, <3>2, <3>3, Zenon
  <2> HIDE DEF q
  <2>5. r.uses \o q \in Seq(KeptCalls)
    BY <1>0, <2>4 DEF CallReaders
  <2>6. Read(by, r, e) \in CallReaders /\ Read(by, r, e).open = r.open \ taken
    BY <1>0, <2>1, <2>5 DEF CallReaders
  <2> QED
    BY <1>0, <2>6 DEF SlotReaders
<1>6. CASE e.kind = "message_stop"
  <2>1. Read(by, r, e) = [r EXCEPT !.saw_stop = TRUE]
    BY <1>6, Zenon DEF Read
  <2>2. Read(by, r, e) \in CallReaders /\ Read(by, r, e).open = r.open
    BY <1>0, <2>1 DEF CallReaders
  <2> QED
    BY <1>0, <2>2, Zenon DEF SlotReaders
<1>7. e.kind \in {"message_start", "start", "delta", "stop", "message_stop"}
  BY DEF StreamEvents, MessageStop
<1> QED
  BY <1>1, <1>2, <1>3, <1>4, <1>5, <1>6, <1>7, Zenon

\* To read one event more is to read it after all the others.
LEMMA ReadOneMore ==
  ASSUME NEW by, NEW r \in SlotReaders(by), NEW s \in Seq(StreamEvents), NEW e \in StreamEvents
  PROVE  /\ ReadAll(by, r, s) \in SlotReaders(by)
         /\ ReadAll(by, r, <<>>) = r
         /\ ReadAll(by, r, Append(s, e)) = Read(by, ReadAll(by, r, s), e)
<1> DEFINE R == SlotReaders(by)
           n == Len(s)
           t == Append(s, e)
<1>1. /\ n \in Nat /\ DOMAIN s = 1..n /\ \A k \in 1..n : s[k] \in StreamEvents
      /\ n + 1 \in Nat /\ DOMAIN t = 1..(n + 1) /\ \A k \in 1..(n + 1) : t[k] \in StreamEvents
      /\ t[n + 1] = e /\ \A k \in 1..n : t[k] = s[k]
      /\ 1..n \subseteq 1..(n + 1) /\ n \in 0..n /\ 0 \in 0..0 /\ n + 1 \in 1..(n + 1) /\ (n + 1) - 1 = n
      /\ \A k \in 1..n : k - 1 \in 0..n
  OBVIOUS
<1>2. DOMAIN <<>> = 1..0 /\ 0 \in Nat /\ 1..0 = {}
  OBVIOUS
<1> HIDE DEF n, t, R
<1>3. PICK h \in [0..n -> R] : Readings(h, by, r, s, n)
  <2>1. \A x \in R, k \in 1..n : Read(by, x, s[k]) \in R
    BY <1>1, ReadKeeps, Zenon DEF R
  <2> QED
    BY <1>1, <2>1, ReadingIsStepwise DEF R
<1>4. PICK h1 \in [0..(n + 1) -> R] : Readings(h1, by, r, t, n + 1)
  <2>1. \A x \in R, k \in 1..(n + 1) : Read(by, x, t[k]) \in R
    BY <1>1, ReadKeeps, Zenon DEF R
  <2> QED
    BY <1>1, <2>1, ReadingIsStepwise DEF R
<1>5. \E h2 \in [0..0 -> R] : Readings(h2, by, r, <<>>, 0)
  <2>1. \A x \in R, k \in 1..0 : Read(by, x, <<>>[k]) \in R
    BY <1>2, Zenon
  <2> QED
    BY <1>2, <2>1, ReadingIsStepwise DEF R
<1>6. h1[n] = h[n]
  <2> DEFINE T == {k \in 0..n : h1[k] = h[k]}
  <2>1. 0 \in T
    BY <1>1, <1>3, <1>4 DEF Readings
  <2>2. ASSUME NEW k \in 1..n, k - 1 \in T
        PROVE  k \in T
    <3>1. h1[k - 1] = h[k - 1] /\ k \in 1..(n + 1) /\ k \in 0..n
      BY <1>1, <2>2
    <3>2. h1[k] = Read(by, h1[k - 1], t[k]) /\ h[k] = Read(by, h[k - 1], s[k]) /\ t[k] = s[k]
      BY <1>1, <1>3, <1>4, <3>1, Zenon DEF Readings
    <3> QED
      BY <3>1, <3>2, Zenon
  <2> HIDE DEF T
  <2>3. n \in T
    BY <1>1, <2>1, <2>2, Along
  <2> QED
    BY <2>3 DEF T
<1>7. h[n] \in R
  BY <1>1
<1> QED
  BY <1>1, <1>3, <1>4, <1>5, <1>6, <1>7, Zenon DEF R, t, Readings

-----------------------------------------------------------------------------
(* What the calls of a stream and those of its reader have to do with each *)
(* other.                                                                  *)

CallStates == [named : BOOLEAN, args : Seq(Nat), emitted : Nat, started : BOOLEAN, stopped : BOOLEAN]

\* A call is begun under its name, and passes on what came from its beginning.
Sound(k) ==
  \A c \in Calls :
    /\ k[c].args = Pieces(Len(k[c].args)) /\ k[c].emitted <= Len(k[c].args)
    /\ k[c].stopped => k[c].started
    /\ k[c].started => k[c].named
    /\ ~k[c].started => k[c].emitted = 0

Live(k) == {c \in Calls : k[c].started /\ ~k[c].stopped}
Holds(k, u) == k[u.block].started /\ u.args = Pieces(k[u.block].emitted)
IsOpen(r, c) == \E u \in r.open : u.block = c
IsUsed(r, c) == \E i \in DOMAIN r.uses : r.uses[i].block = c

\* The reader has each call that was begun, once, with what was passed on.
Told(by, k, r) ==
  /\ \A u \in r.open : Holds(k, u)
  /\ \A i \in DOMAIN r.uses : Holds(k, r.uses[i]) /\ ~IsOpen(r, r.uses[i].block)
  /\ \A i, j \in DOMAIN r.uses : r.uses[i].block = r.uses[j].block => i = j
  /\ \A c \in Calls : k[c].started => IsOpen(r, c) \/ IsUsed(r, c)
  /\ \A c \in Calls : k[c].stopped => IsUsed(r, c)
  /\ by = "slot" => \A c, d \in Live(k) : c = d

\* The terminal has one slot, and tells nothing for sure once two calls were open.
Clear(by, r) == by = "map" \/ ~r.crowded

Matches(by, k, r) == r.blocks = Live(k) /\ (Clear(by, r) => Told(by, k, r))

\* No call is passed on before it ends.
Untaken(by, k, r) == Clear(by, r) => \A c \in Live(k) : ~IsUsed(r, c)

\* Whether calls can be told apart by their slots.
LEMMA SlotIs ==
  ASSUME NEW by \in {"slot", "map"}, NEW b, NEW c
  PROVE  Slot(by, b) = Slot(by, c) <=> (by = "slot" \/ b = c)
  BY DEF Slot, Nothing

\* What a reader has are calls.
LEMMA ReaderTypes ==
  ASSUME NEW by, NEW r \in SlotReaders(by)
  PROVE  /\ \A u \in r.open : u \in KeptCalls /\ u.block \in Calls
         /\ \A i \in DOMAIN r.uses : r.uses[i] \in KeptCalls /\ r.uses[i].block \in Calls
         /\ r.uses \in Seq(KeptCalls)
         /\ \A u, v \in r.open : Slot(by, u.block) = Slot(by, v.block) => u = v
<1>1. r \in CallReaders /\ \A u, v \in r.open : Slot(by, u.block) = Slot(by, v.block) => u = v
  BY Zenon DEF SlotReaders
<1>2. \A u \in KeptCalls : u.block \in Calls
  BY DEF KeptCalls
<1>3. r.open \subseteq KeptCalls /\ r.uses \in Seq(KeptCalls)
  BY <1>1 DEF CallReaders
<1>4. \A i \in DOMAIN r.uses : r.uses[i] \in KeptCalls
  BY <1>3
<1> QED
  BY <1>1, <1>2, <1>3, <1>4, Zenon

\* What each event does to a reader.
Starts(by, r, c, args, x) ==
  /\ x.open = {u \in r.open : Slot(by, u.block) # Slot(by, c)} \cup {[block |-> c, args |-> args]}
  /\ x.uses = r.uses /\ x.saw_stop = r.saw_stop
  /\ x.blocks = r.blocks \cup {c}
  /\ x.crowded = (r.crowded \/ r.blocks # {})

\* A reader that hears a call start has the call open, in the place of what its
\* slot held.
LEMMA ReadsStart ==
  ASSUME NEW by, NEW r \in SlotReaders(by), NEW c \in Calls, c \notin Talk, NEW args \in Seq(Nat)
  PROVE  Starts(by, r, c, args, Read(by, r, Start(c, args)))
<1> DEFINE e == Start(c, args)
           new == [block |-> c, args |-> args]
           y == PushOutputBlock(by, r, c, args)
           x == Read(by, r, e)
<1>1. e.kind = "start" /\ e.block = c /\ e.args = args
  BY DEF Start
<1>2. c \in Blocks /\ args \in Seq(Nat)
  BY DEF Blocks
<1>3. y = [r EXCEPT !.open = {u \in r.open : Slot(by, u.block) # Slot(by, c)} \cup {new}]
  BY Zenon DEF PushOutputBlock
<1>4. r \in CallReaders
  BY Zenon DEF SlotReaders
<1>5. x = [y EXCEPT !.crowded = y.crowded \/ (c \notin Talk /\ r.blocks # {}),
                    !.blocks = y.blocks \cup ({c} \ Talk)]
  BY <1>1, Zenon DEF Read
<1> HIDE DEF y, e, x
<1>6. /\ x.open = {u \in r.open : Slot(by, u.block) # Slot(by, c)} \cup {new}
      /\ x.uses = r.uses /\ x.saw_stop = r.saw_stop
      /\ x.blocks = r.blocks \cup {c}
      /\ x.crowded = (r.crowded \/ r.blocks # {})
  BY <1>3, <1>4, <1>5 DEF CallReaders
<1> QED
  BY <1>6, Zenon DEF Starts, x, e

\* A call of the slot of block c with more arguments.
Longer(by, c, args, u) ==
  IF Slot(by, u.block) = Slot(by, c) THEN [u EXCEPT !.args = u.args \o args] ELSE u

\* A reader that hears more of a call adds it to the open call of the slot.
LEMMA ReadsDelta ==
  ASSUME NEW by, NEW r \in SlotReaders(by), NEW c \in Calls, c \notin Talk, NEW args
  PROVE  LET x == Read(by, r, Delta(c, args))
         IN /\ x.open = {Longer(by, c, args, u) : u \in r.open}
            /\ x.uses = r.uses /\ x.saw_stop = r.saw_stop
            /\ x.blocks = r.blocks /\ x.crowded = r.crowded
<1> DEFINE e == Delta(c, args)
<1>1. e.kind = "delta" /\ e.block = c /\ e.args = args
  BY DEF Delta
<1>2. r \in CallReaders
  BY Zenon DEF SlotReaders
<1> DEFINE open == {Longer(by, c, args, u) : u \in r.open}
<1>3. Read(by, r, e) = [r EXCEPT !.open = open]
  BY <1>1, Zenon DEF Read, Longer
<1> HIDE DEF open
<1>4. [r EXCEPT !.open = open].open = open
  BY <1>2 DEF CallReaders
<1> HIDE DEF e
<1> QED
  BY <1>2, <1>3, <1>4 DEF CallReaders, open, e

\* x is the reader r once it heard the block b stop.
Stops(by, r, b, x) ==
  /\ x.saw_stop = r.saw_stop /\ x.blocks = r.blocks \ {b} /\ x.crowded = r.crowded
  /\ \/ /\ \A u \in r.open : Slot(by, u.block) # Slot(by, b)
        /\ x.open = r.open /\ x.uses = r.uses
     \/ \E u \in r.open : /\ Slot(by, u.block) = Slot(by, b)
                          /\ x.open = r.open \ {u} /\ x.uses = Append(r.uses, u)

\* A reader that hears a block stop passes on the open call of the slot, if there
\* is one.
LEMMA ReadsStop ==
  ASSUME NEW by, NEW r \in SlotReaders(by), NEW b
  PROVE  Stops(by, r, b, Read(by, r, BlockStop(b)))
<1> DEFINE e == BlockStop(b)
           taken == {u \in r.open : Slot(by, u.block) = Slot(by, b)}
           q == SetToSeq(taken)
           x == Read(by, r, e)
<1>1. e.kind = "stop" /\ e.block = b
  BY DEF BlockStop
<1>2. r \in CallReaders /\ \A u, v \in r.open : Slot(by, u.block) = Slot(by, v.block) => u = v
  BY Zenon DEF SlotReaders
<1>3. x = [r EXCEPT !.open = r.open \ taken, !.uses = r.uses \o q, !.blocks = r.blocks \ {b}]
  BY <1>1, Zenon DEF Read
<1>4. \A u \in taken : u \in r.open /\ Slot(by, u.block) = Slot(by, b)
  OBVIOUS
<1>5. \A u \in r.open : Slot(by, u.block) = Slot(by, b) => u \in taken
  OBVIOUS
<1>6. \A u, v \in taken : u = v
  BY <1>2, <1>4, Zenon
<1>7. r.uses \in Seq(KeptCalls)
  BY <1>2 DEF CallReaders
<1> HIDE DEF taken
<1>8. \/ taken = {} /\ q = <<>>
      \/ \E u \in taken : taken = {u} /\ q = <<u>>
  BY <1>6, OneAtMost, Zenon
<1> HIDE DEF q, e, x
<1>9. /\ x.open = r.open \ taken /\ x.uses = r.uses \o q /\ x.blocks = r.blocks \ {b}
      /\ x.saw_stop = r.saw_stop /\ x.crowded = r.crowded
  BY <1>2, <1>3 DEF CallReaders
<1>10. CASE taken = {} /\ q = <<>>
  <2>1. x.open = r.open /\ x.uses = r.uses
    BY <1>7, <1>9, <1>10
  <2>2. \A u \in r.open : Slot(by, u.block) # Slot(by, b)
    BY <1>5, <1>10, Zenon
  <2> QED
    BY <1>9, <2>1, <2>2, Zenon DEF Stops, x, e
<1>11. ASSUME NEW u \in taken, taken = {u}, q = <<u>>
       PROVE  \E v \in r.open : /\ Slot(by, v.block) = Slot(by, b)
                                /\ x.open = r.open \ {v} /\ x.uses = Append(r.uses, v)
  <2>1. r.uses \o <<u>> = Append(r.uses, u)
    BY <1>7
  <2> QED
    BY <1>4, <1>9, <1>11, <2>1, Zenon
<1> QED
  BY <1>8, <1>9, <1>10, <1>11, Zenon DEF Stops, x, e

\* Messages that start and text change nothing, the end of a message is noted.
LEMMA ReadsOther ==
  ASSUME NEW by, NEW r \in SlotReaders(by)
  PROVE  /\ Read(by, r, MessageStart(<<>>)) = r
         /\ \A b \in Talk : Read(by, r, Start(b, <<>>)) = r /\ Read(by, r, Delta(b, <<>>)) = r
         /\ Read(by, r, MessageStop) = [r EXCEPT !.saw_stop = TRUE]
<1>1. r \in CallReaders
  BY Zenon DEF SlotReaders
<1>2. Read(by, r, MessageStart(<<>>)) = r
  <2>1. Read(by, r, MessageStart(<<>>)) = PushAll(by, r, <<>>)
    <3> DEFINE e == MessageStart(<<>>)
    <3>1. e.kind = "message_start" /\ e.content = <<>>
      BY DEF MessageStart
    <3> HIDE DEF e
    <3>2. Read(by, r, e) = PushAll(by, r, <<>>)
      BY <3>1, Zenon DEF Read, PushAll
    <3> QED
      BY <3>2 DEF e
  <2>2. DOMAIN <<>> = 1..0 /\ 0 \in Nat /\ 1..0 = {}
    OBVIOUS
  <2>3. \A x \in SlotReaders(by), k \in 1..0 : PushOutputBlock(by, x, <<>>[k].block, <<>>[k].args) \in SlotReaders(by)
    BY <2>2, Zenon
  <2>4. \E h \in [0..0 -> SlotReaders(by)] : Pushings(h, by, r, <<>>, 0)
    BY <2>2, <2>3, PushingIsStepwise
  <2> QED
    BY <2>1, <2>4, Zenon DEF Pushings
<1>3. ASSUME NEW b \in Talk
      PROVE  Read(by, r, Start(b, <<>>)) = r /\ Read(by, r, Delta(b, <<>>)) = r
  <2> DEFINE e == Start(b, <<>>)
             d == Delta(b, <<>>)
  <2>1. e.kind = "start" /\ e.block = b /\ e.args = <<>> /\ d.kind = "delta" /\ d.block = b
    BY DEF Start, Delta
  <2>2. PushOutputBlock(by, r, b, <<>>) = r
    BY Zenon DEF PushOutputBlock
  <2> HIDE DEF e, d
  <2>3. Read(by, r, e) = [r EXCEPT !.crowded = r.crowded \/ (b \notin Talk /\ r.blocks # {}),
                                   !.blocks = r.blocks \cup ({b} \ Talk)]
    BY <2>1, <2>2, Zenon DEF Read
  <2>4. (r.crowded \/ (b \notin Talk /\ r.blocks # {})) = r.crowded /\ r.blocks \cup ({b} \ Talk) = r.blocks
    BY <1>1 DEF CallReaders
  <2>5. Read(by, r, e) = r
    BY <1>1, <2>3, <2>4 DEF CallReaders
  <2>6. Read(by, r, d) = r
    BY <2>1, SMT DEF Read
  <2> QED
    BY <2>5, <2>6 DEF e, d
<1>4. Read(by, r, MessageStop) = [r EXCEPT !.saw_stop = TRUE]
  <2>1. MessageStop.kind = "message_stop"
    BY DEF MessageStop
  <2> QED
    BY <2>1, Zenon DEF Read
<1> QED
  BY <1>2, <1>3, <1>4

\* A step on the calls: of all, only c changes.
Only(c, k, k1) == \A d \in Calls : d # c => k1[d] = k[d]

CallTables == [Calls -> CallStates]

\* A call that begins is the newest one the reader has open.
LEMMA BeginningMatches ==
  ASSUME Numbered, NEW by \in {"slot", "map"}, NEW k \in CallTables, NEW k1 \in CallTables,
         NEW r \in SlotReaders(by), NEW c \in Calls,
         Sound(k), Matches(by, k, r), k[c].named, ~k[c].started,
         Only(c, k, k1), k1[c].named, k1[c].started, (k1[c].stopped <=> k[c].stopped),
         k1[c].args = k[c].args, k1[c].emitted = k[c].emitted
  PROVE  LET x == Read(by, r, Start(c, <<>>))
         IN Sound(k1) /\ Matches(by, k1, x) /\ (Untaken(by, k, r) => Untaken(by, k1, x))
<1> DEFINE new == [block |-> c, args |-> <<>>]
           x == Read(by, r, Start(c, <<>>))
<1>1. c \notin Talk
  BY DEF Numbered
<1>2. /\ x.open = {u \in r.open : Slot(by, u.block) # Slot(by, c)} \cup {new}
      /\ x.uses = r.uses /\ x.blocks = r.blocks \cup {c}
      /\ x.crowded = (r.crowded \/ r.blocks # {})
  <2>1. <<>> \in Seq(Nat)
    OBVIOUS
  <2>2. Starts(by, r, c, <<>>, x)
    BY <1>1, <2>1, ReadsStart, Zenon
  <2> QED
    BY <2>2, Zenon DEF Starts
<1>3. r \in CallReaders
  BY Zenon DEF SlotReaders
<1>4. /\ \A u \in r.open : u.block \in Calls
      /\ \A i \in DOMAIN r.uses : r.uses[i].block \in Calls
  BY ReaderTypes, Zenon
<1>5. Pieces(0) = <<>>
  BY DEF Pieces
<1>6. new.block = c /\ new.args = <<>>
  OBVIOUS
<1> HIDE DEF x, new
<1>7. ~k[c].stopped /\ k[c].emitted = 0 /\ ~k1[c].stopped /\ k1[c].emitted = 0
  BY Zenon DEF Sound
<1>8. Sound(k1)
  BY <1>7, Zenon DEF Sound, Only
<1>9. Live(k1) = Live(k) \cup {c} /\ c \notin Live(k)
  BY <1>7, Zenon DEF Live, Only
<1>10. x.blocks = Live(k1)
  BY <1>2, <1>9, Zenon DEF Matches
<1>11. ASSUME Clear(by, x)
       PROVE  Told(by, k1, x)
  <2>1. Clear(by, r) /\ (by = "slot" => Live(k) = {})
    BY <1>2, <1>11, Zenon DEF Clear, Matches
  <2>2. Told(by, k, r)
    BY <2>1, Zenon DEF Matches
  <2>3. \A u \in r.open : u.block # c /\ k1[u.block] = k[u.block]
    BY <1>4, <2>2, Zenon DEF Told, Holds, Only
  <2>4. \A i \in DOMAIN r.uses : r.uses[i].block # c /\ k1[r.uses[i].block] = k[r.uses[i].block]
    BY <1>4, <2>2, Zenon DEF Told, Holds, Only
  <2>5. \A u \in x.open : u \in r.open \/ u = new
    BY <1>2, Zenon
  <2>6. r.open \subseteq x.open
    <3>1. CASE by = "slot"
      <4>1. r.open = {}
        <5> SUFFICES ASSUME NEW u \in r.open
                     PROVE  FALSE
          OBVIOUS
        <5>1. u.block \in Calls /\ k[u.block].started /\ u.block \notin Live(k)
          BY <1>4, <2>1, <2>2, <3>1, Zenon DEF Told, Holds
        <5>2. IsUsed(r, u.block)
          BY <2>2, <5>1, Zenon DEF Told, Live
        <5> QED
          BY <2>2, <5>2, Zenon DEF Told, IsUsed, IsOpen
      <4> QED
        BY <4>1
    <3>2. CASE by = "map"
      <4>1. \A u \in r.open : Slot(by, u.block) # Slot(by, c)
        BY <2>3, <3>2, SlotIs, Zenon
      <4> QED
        BY <1>2, <4>1, Zenon
    <3> QED
      BY <3>1, <3>2
  <2>7. new \in x.open
    BY <1>2, Zenon
  <2>8. \A u \in x.open : Holds(k1, u)
    BY <1>5, <1>6, <1>7, <2>2, <2>3, <2>5, ZenonT(40) DEF Told, Holds
  <2>9. \A d : IsUsed(x, d) <=> IsUsed(r, d)
    BY <1>2, Zenon DEF IsUsed
  <2>10. \A d : IsOpen(x, d) <=> IsOpen(r, d) \/ d = c
    BY <1>6, <2>5, <2>6, <2>7, Zenon DEF IsOpen
  <2>11. \A i \in DOMAIN x.uses : Holds(k1, x.uses[i]) /\ ~IsOpen(x, x.uses[i].block)
    <3>1. \A i \in DOMAIN r.uses : Holds(k1, r.uses[i]) /\ ~IsOpen(x, r.uses[i].block)
      BY <2>2, <2>4, <2>10, Zenon DEF Told, Holds
    <3> QED
      BY <1>2, <3>1, Zenon
  <2>12. \A i, j \in DOMAIN x.uses : x.uses[i].block = x.uses[j].block => i = j
    BY <1>2, <2>2, Zenon DEF Told
  <2>13. \A d \in Calls : k1[d].started => IsOpen(x, d) \/ IsUsed(x, d)
    BY <2>2, <2>9, <2>10, Zenon DEF Told, Only
  <2>14. \A d \in Calls : k1[d].stopped => IsUsed(x, d)
    BY <1>7, <2>2, <2>9, Zenon DEF Told, Only
  <2>15. by = "slot" => \A d, e \in Live(k1) : d = e
    BY <1>9, <2>1, Zenon
  <2> QED
    BY <2>8, <2>11, <2>12, <2>13, <2>14, <2>15, Zenon DEF Told
<1>12. ASSUME Untaken(by, k, r), Clear(by, x)
       PROVE  \A d \in Live(k1) : ~IsUsed(x, d)
  <2>1. Clear(by, r)
    BY <1>2, <1>12, Zenon DEF Clear
  <2>2. \A d : IsUsed(x, d) <=> IsUsed(r, d)
    BY <1>2, Zenon DEF IsUsed
  <2>3. ~IsUsed(r, c)
    BY <2>1, Zenon DEF Matches, Told, Holds, IsUsed
  <2> QED
    BY <1>9, <1>12, <2>1, <2>2, <2>3, Zenon DEF Untaken
<1> QED
  BY <1>8, <1>10, <1>11, <1>12, Zenon DEF Matches, Untaken, x

\* What only comes in is not yet to be told.
LEMMA GrowingMatches ==
  ASSUME NEW by \in {"slot", "map"}, NEW k \in CallTables, NEW k1 \in CallTables,
         NEW r \in SlotReaders(by), NEW c \in Calls,
         Sound(k), Matches(by, k, r), Only(c, k, k1),
         k[c].named => k1[c].named, (k1[c].started <=> k[c].started), (k1[c].stopped <=> k[c].stopped),
         k1[c].emitted = k[c].emitted, k1[c].args = Pieces(Len(k1[c].args)),
         Len(k[c].args) <= Len(k1[c].args)
  PROVE  Sound(k1) /\ Matches(by, k1, r) /\ (Untaken(by, k, r) => Untaken(by, k1, r))
<1>1. r \in CallReaders
  BY Zenon DEF SlotReaders
<1>2. /\ \A u \in r.open : u.block \in Calls
      /\ \A i \in DOMAIN r.uses : r.uses[i].block \in Calls
  BY ReaderTypes, Zenon
<1>3. \A d \in Calls : /\ (k1[d].started <=> k[d].started) /\ (k1[d].stopped <=> k[d].stopped)
                       /\ k1[d].emitted = k[d].emitted
  BY Zenon DEF Only
<1>4. k1[c].emitted <= Len(k1[c].args)
  <2>1. k[c].emitted \in Nat /\ Len(k[c].args) \in Nat /\ Len(k1[c].args) \in Nat
    BY DEF CallTables, CallStates
  <2>2. k[c].emitted <= Len(k[c].args)
    BY DEF Sound
  <2> QED
    BY <2>1, <2>2
<1>5. Sound(k1)
  BY <1>3, <1>4, Zenon DEF Sound, Only
<1>6. Live(k1) = Live(k)
  BY <1>3, Zenon DEF Live
<1>7. \A u \in KeptCalls : Holds(k1, u) <=> Holds(k, u)
  <2>1. \A u \in KeptCalls : u.block \in Calls
    BY DEF KeptCalls
  <2> QED
    BY <1>3, <2>1, Zenon DEF Holds
<1>8. (\A u \in r.open : u \in KeptCalls) /\ \A i \in DOMAIN r.uses : r.uses[i] \in KeptCalls
  BY <1>1 DEF CallReaders
<1>9. Told(by, k, r) => Told(by, k1, r)
  BY <1>3, <1>6, <1>7, <1>8, Zenon DEF Told
<1> QED
  BY <1>5, <1>6, <1>9, Zenon DEF Matches, Untaken

\* A call that is open is told the pieces it has not had.
LEMMA TellingMatches ==
  ASSUME Numbered, NEW by \in {"slot", "map"}, NEW k \in CallTables, NEW k1 \in CallTables,
         NEW r \in SlotReaders(by), NEW c \in Calls,
         Sound(k), Matches(by, k, r), Untaken(by, k, r), k[c].started, ~k[c].stopped,
         Only(c, k, k1), (k1[c].named <=> k[c].named), k1[c].started, ~k1[c].stopped,
         k1[c].args = k[c].args, k1[c].emitted = Len(k[c].args)
  PROVE  LET x == Read(by, r, Delta(c, SubSeq(k[c].args, k[c].emitted + 1, Len(k[c].args))))
         IN Sound(k1) /\ Matches(by, k1, x) /\ Untaken(by, k1, x)
<1> DEFINE args == SubSeq(k[c].args, k[c].emitted + 1, Len(k[c].args))
           f(u) == Longer(by, c, args, u)
           x == Read(by, r, Delta(c, args))
<1>1. c \notin Talk
  BY DEF Numbered
<1>2. /\ x.open = {f(u) : u \in r.open}
      /\ x.uses = r.uses /\ x.blocks = r.blocks /\ x.crowded = r.crowded
  <2> HIDE DEF args
  <2> QED
    BY <1>1, ReadsDelta
<1>3. r \in CallReaders /\ \A u, v \in r.open : Slot(by, u.block) = Slot(by, v.block) => u = v
  BY Zenon DEF SlotReaders
<1>4. /\ \A u \in r.open : u \in KeptCalls /\ u.block \in Calls
      /\ \A i \in DOMAIN r.uses : r.uses[i].block \in Calls
  BY ReaderTypes, Zenon
<1>5. \A u \in r.open : f(u).block = u.block
  BY <1>4 DEF KeptCalls, Longer
<1>6. /\ k[c].emitted \in Nat /\ Len(k[c].args) \in Nat /\ k[c].emitted <= Len(k[c].args)
      /\ k[c].args = Pieces(Len(k[c].args)) /\ k[c].args \in Seq(Nat)
  BY DEF CallTables, CallStates, Sound
<1>7. Pieces(k[c].emitted) \o args = Pieces(Len(k[c].args))
  <2> DEFINE m == k[c].emitted
             n == Len(k[c].args)
  <2>1. m \in Nat /\ n \in Nat /\ m <= n
    BY <1>6
  <2>2. args = SubSeq(Pieces(n), m + 1, n)
    BY <1>6
  <2> HIDE DEF m, n, args
  <2>3. Pieces(m) \in Seq(Nat) /\ Len(Pieces(m)) = m
    BY <2>1 DEF Pieces
  <2>4. Pieces(n) \in Seq(Nat) /\ Len(Pieces(n)) = n
    BY <2>1 DEF Pieces
  <2>5. args \in Seq(Nat) /\ Len(args) = n - m /\ \A i \in 1..(n - m) : args[i] = m + i
    BY <2>1, <2>2, <2>4 DEF Pieces
  <2> DEFINE p == Pieces(m) \o args
  <2>6. p \in Seq(Nat) /\ Len(p) = n
    BY <2>1, <2>3, <2>5
  <2>7. \A i \in 1..n : p[i] = i
    <3> TAKE i \in 1..n
    <3>1. CASE i <= m
      BY <2>1, <2>3, <2>5, <3>1 DEF Pieces
    <3>2. CASE ~(i <= m)
      <4>1. i - m \in 1..(n - m) /\ m + (i - m) = i
        BY <2>1, <3>2
      <4>2. p[i] = args[i - m]
        BY <2>1, <2>3, <2>5, <3>2
      <4> QED
        BY <2>5, <4>1, <4>2
    <3> QED
      BY <3>1, <3>2, Zenon
  <2> HIDE DEF p
  <2>8. p = Pieces(n)
    BY <2>4, <2>6, <2>7 DEF Pieces
  <2> QED
    BY <2>8 DEF p, m, n
<1>8. \A u \in r.open : u.block = c /\ u.args = Pieces(k[c].emitted) => f(u).args = Pieces(Len(k[c].args))
  <2> TAKE u \in r.open
  <2> HAVE u.block = c /\ u.args = Pieces(k[c].emitted)
  <2>1. u \in KeptCalls
    BY <1>4
  <2> HIDE DEF args
  <2>2. f(u).args = u.args \o args
    BY <2>1 DEF KeptCalls, Longer
  <2> QED
    BY <1>7, <2>2, Zenon
<1>9. \A u \in r.open : Slot(by, u.block) # Slot(by, c) => f(u) = u
  BY Zenon DEF Longer
<1> HIDE DEF x, f
<1>10. Sound(k1)
  <2>1. k1[c].emitted <= Len(k1[c].args)
    BY <1>6
  <2> QED
    BY <2>1, Zenon DEF Sound, Only
<1>11. Live(k1) = Live(k) /\ c \in Live(k)
  BY Zenon DEF Live, Only
<1>12. ASSUME Clear(by, x)
       PROVE  Told(by, k1, x) /\ \A d \in Live(k1) : ~IsUsed(x, d)
  <2>1. Clear(by, r)
    BY <1>2, <1>12, Zenon DEF Clear
  <2>2. Told(by, k, r) /\ \A d \in Live(k) : ~IsUsed(r, d)
    BY <2>1, Zenon DEF Matches, Untaken
  <2>3. PICK v \in r.open : v.block = c
    BY <1>11, <2>2, Zenon DEF Told, IsOpen
  <2>4. ASSUME NEW u \in r.open
        PROVE  Holds(k1, f(u))
    <3>1. CASE Slot(by, u.block) = Slot(by, c)
      <4>1. u.block = c
        BY <1>3, <2>3, <3>1, Zenon
      <4>2. f(u).args = Pieces(Len(k[c].args))
        BY <1>8, <2>2, <4>1, Zenon DEF Told, Holds
      <4> QED
        BY <1>5, <4>1, <4>2, Zenon DEF Holds
    <3>2. CASE Slot(by, u.block) # Slot(by, c)
      <4>1. u.block # c /\ f(u) = u
        BY <1>9, <3>2, Zenon
      <4> QED
        BY <1>4, <2>2, <4>1, ZenonT(40) DEF Told, Holds, Only
    <3> QED
      BY <3>1, <3>2
  <2>5. \A d : IsUsed(x, d) <=> IsUsed(r, d)
    BY <1>2, Zenon DEF IsUsed
  <2>6. \A d : IsOpen(x, d) <=> IsOpen(r, d)
    BY <1>2, <1>5, ZenonT(40) DEF IsOpen
  <2>7. \A u \in x.open : Holds(k1, u)
    BY <1>2, <2>4, Zenon
  <2>8. \A i \in DOMAIN r.uses : r.uses[i].block # c
    BY <1>11, <2>2, Zenon DEF IsUsed
  <2>9. \A i \in DOMAIN x.uses : Holds(k1, x.uses[i]) /\ ~IsOpen(x, x.uses[i].block)
    <3>1. \A i \in DOMAIN r.uses : k1[r.uses[i].block] = k[r.uses[i].block]
      BY <1>4, <2>8, Zenon DEF Only
    <3>2. \A i \in DOMAIN r.uses : Holds(k1, r.uses[i]) /\ ~IsOpen(x, r.uses[i].block)
      BY <2>2, <2>6, <3>1, Zenon DEF Told, Holds
    <3> QED
      BY <1>2, <3>2, Zenon
  <2>10. \A i, j \in DOMAIN x.uses : x.uses[i].block = x.uses[j].block => i = j
    BY <1>2, <2>2, Zenon DEF Told
  <2>11. \A d \in Calls : k1[d].started => IsOpen(x, d) \/ IsUsed(x, d)
    BY <2>2, <2>5, <2>6, Zenon DEF Told, Only
  <2>12. \A d \in Calls : k1[d].stopped => IsUsed(x, d)
    BY <2>2, <2>5, Zenon DEF Told, Only
  <2>13. by = "slot" => \A d, e \in Live(k1) : d = e
    BY <1>11, <2>2, Zenon DEF Told
  <2> QED
    BY <1>11, <2>2, <2>5, <2>7, <2>9, <2>10, <2>11, <2>12, <2>13, Zenon DEF Told
<1>13. x.blocks = Live(k1)
  BY <1>2, <1>11, Zenon DEF Matches
<1> QED
  BY <1>10, <1>12, <1>13, Zenon DEF Matches, Untaken, x

\* Only the open and the finished calls of a reader matter to what it was told.
LEMMA SameTold ==
  ASSUME NEW by, NEW k, NEW r, NEW x, Told(by, k, r), x.open = r.open, x.uses = r.uses
  PROVE  Told(by, k, x)
<1>1. \A c : (IsOpen(x, c) <=> IsOpen(r, c)) /\ (IsUsed(x, c) <=> IsUsed(r, c))
  BY Zenon DEF IsOpen, IsUsed
<1> QED
  BY <1>1, Zenon DEF Told

\* Whatever call is taken from the open ones is told among the finished ones.
LEMMA TakingKeeps ==
  ASSUME NEW by \in {"slot", "map"}, NEW k \in CallTables, NEW r \in SlotReaders(by), Told(by, k, r),
         NEW u \in r.open, NEW x, x.open = r.open \ {u}, x.uses = Append(r.uses, u)
  PROVE  /\ Told(by, k, x)
         /\ \A d : IsUsed(x, d) <=> IsUsed(r, d) \/ d = u.block
<1>1. /\ \A v \in r.open : v \in KeptCalls
      /\ r.uses \in Seq(KeptCalls)
      /\ \A v \in r.open : v.block = u.block => v = u
  BY ReaderTypes, Zenon
<1> DEFINE n == Len(r.uses)
<1>2. /\ n \in Nat /\ DOMAIN r.uses = 1..n /\ DOMAIN x.uses = 1..(n + 1)
      /\ \A i \in 1..n : x.uses[i] = r.uses[i]
      /\ x.uses[n + 1] = u
      /\ \A i \in 1..(n + 1) : i \in 1..n \/ i = n + 1
      /\ \A i \in 1..n : i \in 1..(n + 1) /\ i # n + 1
      /\ n + 1 \in 1..(n + 1)
  BY <1>1
<1> HIDE DEF n
<1>3. \A d : IsUsed(x, d) <=> IsUsed(r, d) \/ d = u.block
  BY <1>2, Zenon DEF IsUsed
<1>4. \A d : IsOpen(x, d) <=> IsOpen(r, d) /\ d # u.block
  <2>1. \A v \in x.open : v \in r.open /\ v # u
    BY Zenon
  <2>2. \A v \in r.open : v # u => v \in x.open
    BY Zenon
  <2> QED
    BY <1>1, <2>1, <2>2, Zenon DEF IsOpen
<1>5. \A v \in x.open : Holds(k, v)
  BY Zenon DEF Told
<1>6. IsOpen(r, u.block)
  BY Zenon DEF IsOpen
<1>7. \A i \in DOMAIN x.uses : Holds(k, x.uses[i]) /\ ~IsOpen(x, x.uses[i].block)
  BY <1>2, <1>4, Zenon DEF Told
<1>8. \A i, j \in DOMAIN x.uses : x.uses[i].block = x.uses[j].block => i = j
  BY <1>2, <1>6, ZenonT(40) DEF Told
<1> QED
  BY <1>3, <1>4, <1>5, <1>7, <1>8, Zenon DEF Told

\* A call that is stopped is finished, be it that it was taken before.
LEMMA StoppingMatches ==
  ASSUME NEW by \in {"slot", "map"}, NEW k \in CallTables, NEW k1 \in CallTables,
         NEW r \in SlotReaders(by), NEW c \in Calls,
         Sound(k), Matches(by, k, r), k[c].started, ~k[c].stopped, Only(c, k, k1),
         (k1[c].named <=> k[c].named), k1[c].started, k1[c].stopped,
         k1[c].args = k[c].args, k1[c].emitted = k[c].emitted
  PROVE  LET x == Read(by, r, BlockStop(c))
         IN Sound(k1) /\ Matches(by, k1, x) /\ (Untaken(by, k, r) => Untaken(by, k1, x))
<1> DEFINE x == Read(by, r, BlockStop(c))
<1>1. /\ x.blocks = r.blocks \ {c} /\ x.crowded = r.crowded
      /\ \/ /\ \A u \in r.open : Slot(by, u.block) # Slot(by, c)
            /\ x.open = r.open /\ x.uses = r.uses
         \/ \E u \in r.open : /\ Slot(by, u.block) = Slot(by, c)
                              /\ x.open = r.open \ {u} /\ x.uses = Append(r.uses, u)
  <2>1. Stops(by, r, c, x)
    BY ReadsStop, Zenon
  <2> QED
    BY <2>1, Zenon DEF Stops
<1> HIDE DEF x
<1>2. Sound(k1)
  BY Zenon DEF Sound, Only
<1>3. ASSUME NEW d \in Calls
      PROVE  /\ k1[d].started <=> k[d].started
             /\ k1[d].emitted = k[d].emitted
             /\ k1[d].stopped <=> k[d].stopped \/ d = c
  <2>1. CASE d = c
    BY <2>1, Zenon
  <2>2. CASE d # c
    BY <2>2, Zenon DEF Only
  <2> QED
    BY <2>1, <2>2
<1>4. Live(k1) = Live(k) \ {c} /\ c \in Live(k)
  BY <1>3, Zenon DEF Live
<1>5. /\ \A u \in r.open : u.block \in Calls
      /\ \A i \in DOMAIN r.uses : r.uses[i].block \in Calls
      /\ \A u \in KeptCalls : u.block \in Calls
      /\ \A u \in r.open : u \in KeptCalls
      /\ r.uses \in Seq(KeptCalls)
  <2>1. \A u \in KeptCalls : u.block \in Calls
    BY DEF KeptCalls
  <2> QED
    BY <2>1, ReaderTypes, Zenon
<1>6. ASSUME Clear(by, x)
      PROVE  Told(by, k1, x) /\ \A d : IsUsed(x, d) => IsUsed(r, d) \/ d = c
  <2>1. Told(by, k, r)
    BY <1>1, <1>6, Zenon DEF Clear, Matches
  <2> DEFINE Taken == /\ Told(by, k, x) /\ IsUsed(x, c)
                      /\ \A d : IsUsed(x, d) => IsUsed(r, d) \/ d = c
                      /\ x.open \subseteq r.open /\ x.uses \in Seq(KeptCalls)
  <2>2. Taken
    <3>1. CASE (\A u \in r.open : Slot(by, u.block) # Slot(by, c)) /\ x.open = r.open /\ x.uses = r.uses
      <4>0. x.open = r.open /\ x.uses = r.uses
        BY <3>1
      <4>1. Told(by, k, x)
        BY <2>1, <4>0, SameTold, Zenon
      <4>2. ~IsOpen(r, c)
        BY <3>1, Zenon DEF IsOpen
      <4>3. IsUsed(r, c)
        BY <2>1, <4>2, Zenon DEF Told
      <4>4. \A d : IsUsed(x, d) <=> IsUsed(r, d)
        BY <3>1, Zenon DEF IsUsed
      <4> QED
        BY <1>5, <3>1, <4>1, <4>3, <4>4, Zenon
    <3>2. ASSUME NEW u \in r.open, Slot(by, u.block) = Slot(by, c),
                 x.open = r.open \ {u}, x.uses = Append(r.uses, u)
          PROVE  Taken
      <4>1. u.block = c
        <5>1. CASE by = "map"
          BY <3>2, <5>1, SlotIs
        <5>2. CASE by = "slot"
          <6>1. k[u.block].started /\ ~IsUsed(r, u.block)
            BY <2>1, Zenon DEF Told, Holds, IsUsed, IsOpen
          <6>2. u.block \in Live(k)
            BY <1>5, <2>1, <6>1, Zenon DEF Told, Live
          <6> QED
            BY <1>4, <2>1, <5>2, <6>2, Zenon DEF Told
        <5> QED
          BY <5>1, <5>2
      <4>2. Told(by, k, x) /\ \A d : IsUsed(x, d) <=> IsUsed(r, d) \/ d = u.block
        BY <2>1, <3>2, TakingKeeps, Zenon
      <4>3. x.uses \in Seq(KeptCalls)
        BY <1>5, <3>2
      <4>4. x.open \subseteq r.open
        BY <3>2
      <4> QED
        BY <4>1, <4>2, <4>3, <4>4, Zenon
    <3> QED
      BY <1>1, <3>1, <3>2, Zenon
  <2>3. /\ \A u \in x.open : u.block \in Calls
        /\ \A i \in DOMAIN x.uses : x.uses[i].block \in Calls
    <3>1. \A i \in DOMAIN x.uses : x.uses[i] \in KeptCalls
      BY <2>2
    <3> QED
      BY <1>5, <2>2, <3>1, Zenon
  <2>4. \A u \in x.open : Holds(k1, u)
    BY <1>3, <2>2, <2>3, Zenon DEF Told, Holds
  <2>5. \A i \in DOMAIN x.uses : Holds(k1, x.uses[i])
    BY <1>3, <2>2, <2>3, ZenonT(40) DEF Told, Holds
  <2>6. Told(by, k1, x)
    BY <1>3, <1>4, <2>2, <2>4, <2>5, Zenon DEF Told
  <2> QED
    BY <2>2, <2>6, Zenon
<1>7. x.blocks = Live(k1)
  BY <1>1, <1>4, Zenon DEF Matches
<1>8. Clear(by, x) <=> Clear(by, r)
  BY <1>1, Zenon DEF Clear
<1> QED
  BY <1>2, <1>4, <1>6, <1>7, <1>8, Zenon DEF Matches, Untaken, x

\* The end of text or thinking ends whatever call the terminal has in its slot.
LEMMA TalkStoppingMatches ==
  ASSUME Numbered, NEW by \in {"slot", "map"}, NEW k \in CallTables,
         NEW r \in SlotReaders(by), NEW b \in Talk, Matches(by, k, r)
  PROVE  LET x == Read(by, r, BlockStop(b)) IN Matches(by, k, x)
<1> DEFINE x == Read(by, r, BlockStop(b))
<1>1. /\ x.blocks = r.blocks \ {b} /\ x.crowded = r.crowded
      /\ \/ /\ \A u \in r.open : Slot(by, u.block) # Slot(by, b)
            /\ x.open = r.open /\ x.uses = r.uses
         \/ \E u \in r.open : /\ Slot(by, u.block) = Slot(by, b)
                              /\ x.open = r.open \ {u} /\ x.uses = Append(r.uses, u)
  <2>1. Stops(by, r, b, x)
    BY ReadsStop, Zenon
  <2> QED
    BY <2>1, Zenon DEF Stops
<1> HIDE DEF x
<1>2. b \notin Calls
  BY DEF Numbered
<1>3. x.blocks = Live(k)
  BY <1>1, <1>2, Zenon DEF Matches, Live
<1>4. ASSUME Clear(by, x)
      PROVE  Told(by, k, x)
  <2>1. Told(by, k, r)
    BY <1>1, <1>4, Zenon DEF Clear, Matches
  <2>2. CASE x.open = r.open /\ x.uses = r.uses
    BY <2>1, <2>2, SameTold, Zenon
  <2>3. ASSUME NEW u \in r.open, x.open = r.open \ {u}, x.uses = Append(r.uses, u)
        PROVE  Told(by, k, x)
    BY <2>1, <2>3, TakingKeeps, Zenon
  <2> QED
    BY <1>1, <2>2, <2>3, Zenon
<1> QED
  BY <1>3, <1>4, Zenon DEF Matches, x

-----------------------------------------------------------------------------
(* The operations of a stream, with the reader that reads its events.      *)

StreamStates ==
  [message_started : BOOLEAN, phase : [Talk -> {"Idle", "Active", "Closed"}], calls : CallTables,
   stop_reason : {"none", "tool_calls", "stop"}, events : Seq(StreamEvents)]

\* The reader when it has read what is to be read.
After(by, a, s) == ReadAll(by, a, s.events)

Fine(by, a, s) ==
  s \in StreamStates /\ Sound(s.calls) /\ Matches(by, s.calls, After(by, a, s))

StillOpen(by, a, s) == Untaken(by, s.calls, After(by, a, s))

\* All that came of a call with a name was told.
SettledCall(v) == (v.named => v.started) /\ (v.started => v.emitted = Len(v.args))
Settled(k) == \A c \in Calls : SettledCall(k[c])

\* The empty sequence is one of pieces and one of blocks.
LEMMA NoPieces == <<>> \in Seq(Nat) /\ <<>> \in Seq(ContentBlocks)
  OBVIOUS

\* What the stream pushes are events.
LEMMA EventTypes ==
  /\ \A b \in Blocks, args \in Seq(Nat) : Start(b, args) \in StreamEvents /\ Delta(b, args) \in StreamEvents
  /\ \A b \in Blocks : BlockStop(b) \in StreamEvents
  /\ \A content \in Seq(ContentBlocks) : MessageStart(content) \in StreamEvents
  /\ MessageStop \in StreamEvents
<1>1. \A b \in Blocks, args \in Seq(Nat) : Start(b, args) \in StreamEvents
  BY DEF StreamEvents, Start
<1>2. \A b \in Blocks, args \in Seq(Nat) : Delta(b, args) \in StreamEvents
  BY DEF StreamEvents, Delta
<1>3. \A b \in Blocks : BlockStop(b) \in StreamEvents
  BY DEF StreamEvents, BlockStop
<1>4. \A content \in Seq(ContentBlocks) : MessageStart(content) \in StreamEvents
  BY DEF StreamEvents, MessageStart
<1>5. MessageStop \in StreamEvents
  BY Zenon DEF StreamEvents
<1> QED
  BY <1>1, <1>2, <1>3, <1>4, <1>5

\* An event that is emitted is the next one to be read.
LEMMA EmitReads ==
  ASSUME NEW by, NEW a \in SlotReaders(by), NEW s \in StreamStates, NEW e \in StreamEvents,
         NEW t, t = Emit(s, e)
  PROVE  /\ t \in StreamStates /\ t.calls = s.calls /\ t.phase = s.phase
         /\ t.stop_reason = s.stop_reason /\ t.message_started = s.message_started
         /\ After(by, a, s) \in SlotReaders(by)
         /\ After(by, a, t) = Read(by, After(by, a, s), e)
<1>1. s.events \in Seq(StreamEvents)
  BY DEF StreamStates
<1>2. Append(s.events, e) \in Seq(StreamEvents)
  BY <1>1
<1>3. /\ t \in StreamStates /\ t.calls = s.calls /\ t.phase = s.phase
      /\ t.stop_reason = s.stop_reason /\ t.message_started = s.message_started
      /\ t.events = Append(s.events, e)
  BY <1>2 DEF StreamStates, Emit
<1>4. /\ ReadAll(by, a, s.events) \in SlotReaders(by)
      /\ ReadAll(by, a, Append(s.events, e)) = Read(by, ReadAll(by, a, s.events), e)
  BY <1>1, ReadOneMore, Zenon
<1> QED
  BY <1>3, <1>4, Zenon DEF After

\* The start of a message tells nothing of calls.
LEMMA StartMessageKeeps ==
  ASSUME NEW by, NEW a \in SlotReaders(by), NEW s \in StreamStates
  PROVE  LET t == StartMessage(s)
         IN /\ t \in StreamStates /\ t.calls = s.calls /\ t.phase = s.phase
            /\ t.stop_reason = s.stop_reason
            /\ After(by, a, t) = After(by, a, s)
<1>1. CASE s.message_started
  BY <1>1, Zenon DEF StartMessage
<1>2. CASE ~s.message_started
  <2> DEFINE m == [s EXCEPT !.message_started = TRUE]
             e == MessageStart(<<>>)
  <2>1. /\ m \in StreamStates /\ m.calls = s.calls /\ m.phase = s.phase
        /\ m.stop_reason = s.stop_reason /\ m.events = s.events
    BY DEF StreamStates
  <2>2. e \in StreamEvents
    BY NoPieces, EventTypes, Zenon
  <2>3. StartMessage(s) = Emit(m, e)
    BY <1>2, Zenon DEF StartMessage
  <2> HIDE DEF m
  <2>4. After(by, a, m) = After(by, a, s)
    BY <2>1, Zenon DEF After
  <2>5. After(by, a, m) \in SlotReaders(by) /\ Read(by, After(by, a, m), e) = After(by, a, m)
    BY <2>1, <2>2, EmitReads, ReadsOther, Zenon
  <2> HIDE DEF e
  <2> DEFINE t == StartMessage(s)
  <2>6. t = Emit(m, e)
    BY <2>3
  <2> HIDE DEF t
  <2>7. /\ t \in StreamStates /\ t.calls = m.calls /\ t.phase = m.phase
        /\ t.stop_reason = m.stop_reason
        /\ After(by, a, t) = Read(by, After(by, a, m), e)
    BY <2>1, <2>2, <2>6, EmitReads
  <2> QED
    BY <2>1, <2>4, <2>5, <2>7, Zenon DEF t
<1> QED
  BY <1>1, <1>2

\* Neither does what is said.
LEMMA SayKeeps ==
  ASSUME NEW by, NEW a \in SlotReaders(by), NEW s \in StreamStates, NEW b \in Talk
  PROVE  LET t == Say(s, b)
         IN /\ t \in StreamStates /\ t.calls = s.calls
            /\ t.stop_reason = s.stop_reason
            /\ After(by, a, t) = After(by, a, s)
<1> DEFINE m == [s EXCEPT !.phase[b] = "Active"]
           e == Start(b, <<>>)
           d == Delta(b, <<>>)
           opened == IF s.phase[b] = "Idle" THEN Emit(m, e) ELSE s
<1>1. /\ m \in StreamStates /\ m.calls = s.calls
      /\ m.stop_reason = s.stop_reason /\ m.events = s.events
  BY DEF StreamStates
<1>2. e \in StreamEvents /\ d \in StreamEvents
  BY NoPieces, EventTypes, Zenon DEF Blocks
<1>3. Say(s, b) = Emit(opened, d)
  BY Zenon DEF Say
<1>4. \A r \in SlotReaders(by) : Read(by, r, e) = r /\ Read(by, r, d) = r
  BY ReadsOther
<1> HIDE DEF m, e, d
<1>5. /\ opened \in StreamStates /\ opened.calls = s.calls
      /\ opened.stop_reason = s.stop_reason
      /\ After(by, a, opened) = After(by, a, s)
  <2>1. CASE s.phase[b] = "Idle"
    <3>1. After(by, a, m) = After(by, a, s)
      BY <1>1, Zenon DEF After
    <3>2. opened = Emit(m, e)
      BY <2>1, Zenon
    <3>3. After(by, a, m) \in SlotReaders(by)
      BY <1>1, <1>2, EmitReads, Zenon
    <3> HIDE DEF opened
    <3>4. /\ opened \in StreamStates /\ opened.calls = m.calls /\ opened.stop_reason = m.stop_reason
          /\ After(by, a, opened) = Read(by, After(by, a, m), e)
      BY <1>1, <1>2, <3>2, EmitReads
    <3> QED
      BY <1>1, <1>4, <3>1, <3>3, <3>4, Zenon
  <2>2. CASE s.phase[b] # "Idle"
    BY <2>2, Zenon
  <2> QED
    BY <2>1, <2>2
<1> HIDE DEF opened
<1>6. After(by, a, opened) \in SlotReaders(by)
  BY <1>2, <1>5, EmitReads
<1> DEFINE t == Say(s, b)
<1>7. t = Emit(opened, d)
  BY <1>3
<1> HIDE DEF t
<1>8. /\ t \in StreamStates /\ t.calls = opened.calls /\ t.stop_reason = opened.stop_reason
      /\ After(by, a, t) = Read(by, After(by, a, opened), d)
  BY <1>2, <1>5, <1>7, EmitReads
<1> QED
  BY <1>4, <1>5, <1>6, <1>8, Zenon DEF t

\* Of the stream, only the call c changes.
Moved(c, s, t) ==
  t.stop_reason = s.stop_reason /\ t.phase = s.phase /\ Only(c, s.calls, t.calls)

\* One call of a stream is changed at a time.
LEMMA CallChanges ==
  ASSUME NEW s \in StreamStates, NEW c \in Calls, NEW v \in CallStates
  PROVE  LET t == [s EXCEPT !.calls = [s.calls EXCEPT ![c] = v]]
         IN /\ t \in StreamStates /\ t.stop_reason = s.stop_reason /\ t.phase = s.phase
            /\ t.events = s.events /\ Only(c, s.calls, t.calls) /\ t.calls[c] = v
<1> DEFINE k == [s.calls EXCEPT ![c] = v]
           t == [s EXCEPT !.calls = k]
<1>1. s.calls \in CallTables
  BY DEF StreamStates
<1>2. k \in CallTables /\ Only(c, s.calls, k) /\ k[c] = v
  BY <1>1 DEF CallTables, Only
<1> HIDE DEF k
<1>3. t \in StreamStates /\ t.stop_reason = s.stop_reason /\ t.phase = s.phase
      /\ t.events = s.events /\ t.calls = k
  BY <1>2 DEF StreamStates
<1> QED
  BY <1>2, <1>3 DEF k

\* A call that has a name is begun.
LEMMA StartCallKeeps ==
  ASSUME Numbered, NEW by \in {"slot", "map"}, NEW a \in SlotReaders(by), NEW s, Fine(by, a, s), NEW c \in Calls,
         NEW t, t = StartCall(s, c)
  PROVE  /\ Fine(by, a, t) /\ (StillOpen(by, a, s) => StillOpen(by, a, t)) /\ Moved(c, s, t)
         /\ (t.calls[c].named <=> s.calls[c].named) /\ t.calls[c].args = s.calls[c].args
         /\ t.calls[c].emitted = s.calls[c].emitted /\ (t.calls[c].stopped <=> s.calls[c].stopped)
         /\ t.calls[c].started <=> s.calls[c].named
<1>1. /\ s \in StreamStates /\ s.calls \in CallTables /\ s.calls[c] \in CallStates
      /\ Sound(s.calls) /\ Matches(by, s.calls, After(by, a, s))
  BY DEF Fine, StreamStates, CallTables
<1>2. CASE s.calls[c].named /\ ~s.calls[c].started
  <2> DEFINE v == [s.calls[c] EXCEPT !.started = TRUE]
             m == [s EXCEPT !.calls = [s.calls EXCEPT ![c] = v]]
             e == Start(c, <<>>)
  <2>1. t = Emit(m, e)
    BY <1>2, Zenon DEF StartCall
  <2>2. /\ v \in CallStates /\ v.named = s.calls[c].named /\ v.args = s.calls[c].args
        /\ v.emitted = s.calls[c].emitted /\ v.stopped = s.calls[c].stopped /\ v.started
    BY <1>1 DEF CallStates
  <2> HIDE DEF v
  <2>3. /\ m \in StreamStates /\ m.stop_reason = s.stop_reason /\ m.phase = s.phase
        /\ m.events = s.events /\ Only(c, s.calls, m.calls) /\ m.calls[c] = v
    BY <1>1, <2>2, CallChanges
  <2>4. e \in StreamEvents
    BY NoPieces, EventTypes, Zenon DEF Blocks
  <2> HIDE DEF m, e
  <2>5. After(by, a, m) = After(by, a, s)
    BY <2>3, Zenon DEF After
  <2>6. /\ t \in StreamStates /\ t.calls = m.calls /\ t.phase = m.phase
        /\ t.stop_reason = m.stop_reason
        /\ After(by, a, m) \in SlotReaders(by)
        /\ After(by, a, t) = Read(by, After(by, a, m), e)
    BY <2>1, <2>3, <2>4, EmitReads
  <2>7. t.calls \in CallTables /\ Only(c, s.calls, t.calls) /\ t.calls[c] = v
    BY <2>3, <2>6 DEF StreamStates
  <2>8. /\ Sound(t.calls) /\ Matches(by, t.calls, After(by, a, t))
        /\ Untaken(by, s.calls, After(by, a, s)) => Untaken(by, t.calls, After(by, a, t))
    BY <1>1, <1>2, <2>2, <2>5, <2>6, <2>7, BeginningMatches DEF e
  <2> QED
    BY <1>2, <2>2, <2>3, <2>6, <2>7, <2>8, Zenon DEF Fine, StillOpen, Moved
<1>3. CASE ~(s.calls[c].named /\ ~s.calls[c].started)
  <2>1. t = s
    BY <1>3, Zenon DEF StartCall
  <2>2. s.calls[c].started <=> s.calls[c].named
    BY <1>1, <1>3, Zenon DEF Sound
  <2> QED
    BY <2>1, <2>2, Zenon DEF Moved, Only
<1> QED
  BY <1>2, <1>3

\* What follows the first n numbers of a sequence.
LEMMA Remaining ==
  ASSUME NEW q \in Seq(Nat), NEW n \in Nat
  PROVE  SubSeq(q, n + 1, Len(q)) \in Seq(Nat)
OBVIOUS

\* A call that is open is told what it has not had.
LEMMA FlushArgsKeeps ==
  ASSUME Numbered, NEW by \in {"slot", "map"}, NEW a \in SlotReaders(by), NEW s, Fine(by, a, s), NEW c \in Calls,
         StillOpen(by, a, s), s.calls[c].started, ~s.calls[c].stopped,
         NEW t, t = FlushArgs(s, c)
  PROVE  /\ Fine(by, a, t) /\ StillOpen(by, a, t) /\ Moved(c, s, t)
         /\ (t.calls[c].named <=> s.calls[c].named) /\ t.calls[c].args = s.calls[c].args
         /\ SettledCall(t.calls[c]) /\ (t.calls[c].stopped <=> s.calls[c].stopped)
         /\ (t.calls[c].started <=> s.calls[c].started)
<1>1. /\ s \in StreamStates /\ s.calls \in CallTables /\ s.calls[c] \in CallStates
      /\ Sound(s.calls) /\ Matches(by, s.calls, After(by, a, s))
  BY DEF Fine, StreamStates, CallTables
<1> DEFINE args == s.calls[c].args
           emitted == s.calls[c].emitted
<1>2. args \in Seq(Nat) /\ emitted \in Nat /\ Len(args) \in Nat /\ emitted <= Len(args)
  BY <1>1 DEF CallStates, Sound
<1>3. CASE ~(emitted >= Len(args))
  <2> DEFINE v == [s.calls[c] EXCEPT !.emitted = Len(args)]
             m == [s EXCEPT !.calls = [s.calls EXCEPT ![c] = v]]
             rest == SubSeq(args, emitted + 1, Len(args))
             e == Delta(c, rest)
  <2>1. t = Emit(m, e)
    BY <1>3, Zenon DEF FlushArgs
  <2>2. /\ v \in CallStates /\ v.named = s.calls[c].named /\ v.args = args
        /\ v.emitted = Len(args) /\ v.stopped = s.calls[c].stopped /\ v.started = s.calls[c].started
    BY <1>1, <1>2 DEF CallStates
  <2> HIDE DEF v
  <2>3. /\ m \in StreamStates /\ m.stop_reason = s.stop_reason /\ m.phase = s.phase
        /\ m.events = s.events /\ Only(c, s.calls, m.calls) /\ m.calls[c] = v
    BY <1>1, <2>2, CallChanges
  <2>4. e \in StreamEvents
    <3>1. rest \in Seq(Nat)
      BY <1>2, Remaining, Zenon
    <3> HIDE DEF rest
    <3> QED
      BY <3>1, EventTypes, Zenon DEF Blocks
  <2> HIDE DEF m, e
  <2>5. After(by, a, m) = After(by, a, s)
    BY <2>3, Zenon DEF After
  <2>6. /\ t \in StreamStates /\ t.calls = m.calls /\ t.phase = m.phase
        /\ t.stop_reason = m.stop_reason
        /\ After(by, a, m) \in SlotReaders(by)
        /\ After(by, a, t) = Read(by, After(by, a, m), e)
    BY <2>1, <2>3, <2>4, EmitReads
  <2>7. t.calls \in CallTables /\ Only(c, s.calls, t.calls) /\ t.calls[c] = v
    BY <2>3, <2>6 DEF StreamStates
  <2>8. Untaken(by, s.calls, After(by, a, s))
    BY Zenon DEF StillOpen
  <2>9. /\ Sound(t.calls) /\ Matches(by, t.calls, After(by, a, t))
        /\ Untaken(by, t.calls, After(by, a, t))
    <3>1. /\ t.calls[c].named <=> s.calls[c].named
          /\ t.calls[c].started /\ ~t.calls[c].stopped /\ t.calls[c].args = s.calls[c].args
          /\ t.calls[c].emitted = Len(s.calls[c].args)
      BY <2>2, <2>7
    <3>2. After(by, a, t) =
            Read(by, After(by, a, s),
                 Delta(c, SubSeq(s.calls[c].args, s.calls[c].emitted + 1, Len(s.calls[c].args))))
      BY <2>5, <2>6, Zenon DEF e
    <3>3. After(by, a, s) \in SlotReaders(by)
      BY <2>5, <2>6, Zenon
    <3> QED
      BY <1>1, <2>7, <2>8, <3>1, <3>2, <3>3, TellingMatches
  <2> QED
    BY <2>2, <2>3, <2>6, <2>7, <2>9, Zenon DEF Fine, StillOpen, Moved, SettledCall
<1>4. CASE emitted >= Len(args)
  <2>1. t = s
    BY <1>4, Zenon DEF FlushArgs
  <2>2. emitted = Len(args)
    BY <1>2, <1>4
  <2> QED
    BY <2>1, <2>2, Zenon DEF Moved, Only, SettledCall
<1> QED
  BY <1>3, <1>4

\* A call that was begun ends.
LEMMA StopCallKeeps ==
  ASSUME NEW by \in {"slot", "map"}, NEW a \in SlotReaders(by), NEW s, Fine(by, a, s), NEW c \in Calls,
         NEW t, t = StopCall(s, c)
  PROVE  /\ Fine(by, a, t) /\ (StillOpen(by, a, s) => StillOpen(by, a, t)) /\ Moved(c, s, t)
         /\ (t.calls[c].named <=> s.calls[c].named) /\ t.calls[c].args = s.calls[c].args
         /\ t.calls[c].emitted = s.calls[c].emitted /\ (t.calls[c].started <=> s.calls[c].started)
         /\ t.calls[c].stopped <=> s.calls[c].started
<1>1. /\ s \in StreamStates /\ s.calls \in CallTables /\ s.calls[c] \in CallStates
      /\ Sound(s.calls) /\ Matches(by, s.calls, After(by, a, s))
  BY DEF Fine, StreamStates, CallTables
<1>2. CASE s.calls[c].started /\ ~s.calls[c].stopped
  <2> DEFINE v == [s.calls[c] EXCEPT !.stopped = TRUE]
             m == [s EXCEPT !.calls = [s.calls EXCEPT ![c] = v]]
             e == BlockStop(c)
  <2>1. t = Emit(m, e)
    BY <1>2, Zenon DEF StopCall
  <2>2. /\ v \in CallStates /\ v.named = s.calls[c].named /\ v.args = s.calls[c].args
        /\ v.emitted = s.calls[c].emitted /\ v.stopped /\ v.started = s.calls[c].started
    BY <1>1 DEF CallStates
  <2> HIDE DEF v
  <2>3. /\ m \in StreamStates /\ m.stop_reason = s.stop_reason /\ m.phase = s.phase
        /\ m.events = s.events /\ Only(c, s.calls, m.calls) /\ m.calls[c] = v
    BY <1>1, <2>2, CallChanges
  <2>4. e \in StreamEvents
    BY EventTypes, Zenon DEF Blocks
  <2> HIDE DEF m, e
  <2>5. After(by, a, m) = After(by, a, s)
    BY <2>3, Zenon DEF After
  <2>6. /\ t \in StreamStates /\ t.calls = m.calls /\ t.phase = m.phase
        /\ t.stop_reason = m.stop_reason
        /\ After(by, a, m) \in SlotReaders(by)
        /\ After(by, a, t) = Read(by, After(by, a, m), e)
    BY <2>1, <2>3, <2>4, EmitReads
  <2>7. t.calls \in CallTables /\ Only(c, s.calls, t.calls) /\ t.calls[c] = v
    BY <2>3, <2>6 DEF StreamStates
  <2>8. /\ Sound(t.calls) /\ Matches(by, t.calls, After(by, a, t))
        /\ Untaken(by, s.calls, After(by, a, s)) => Untaken(by, t.calls, After(by, a, t))
    BY <1>1, <1>2, <2>2, <2>5, <2>6, <2>7, StoppingMatches DEF e
  <2> QED
    BY <1>2, <2>2, <2>3, <2>6, <2>7, <2>8, Zenon DEF Fine, StillOpen, Moved
<1>3. CASE ~(s.calls[c].started /\ ~s.calls[c].stopped)
  <2>1. t = s
    BY <1>3, Zenon DEF StopCall
  <2>2. s.calls[c].stopped <=> s.calls[c].started
    BY <1>1, <1>3, Zenon DEF Sound
  <2> QED
    BY <2>1, <2>2, Zenon DEF Moved, Only
<1> QED
  BY <1>2, <1>3

\* The end of text or of thinking.
LEMMA StopTalkKeeps ==
  ASSUME Numbered, NEW by \in {"slot", "map"}, NEW a \in SlotReaders(by), NEW s, Fine(by, a, s), NEW b \in Talk,
         NEW t, t = StopTalk(s, b)
  PROVE  /\ Fine(by, a, t) /\ t.calls = s.calls /\ t.stop_reason = s.stop_reason
         /\ \A d \in Talk : t.phase[d] = "Idle" <=> s.phase[d] = "Idle"
<1>1. s \in StreamStates /\ Sound(s.calls) /\ Matches(by, s.calls, After(by, a, s)) /\ s.calls \in CallTables
  BY DEF Fine, StreamStates
<1>2. CASE s.phase[b] = "Active"
  <2> DEFINE m == [s EXCEPT !.phase[b] = "Closed"]
             e == BlockStop(b)
  <2>1. t = Emit(m, e)
    BY <1>2, Zenon DEF StopTalk
  <2>2. /\ m \in StreamStates /\ m.calls = s.calls /\ m.stop_reason = s.stop_reason
        /\ m.events = s.events
        /\ \A d \in Talk : m.phase[d] = "Idle" <=> s.phase[d] = "Idle"
    BY <1>1, <1>2 DEF StreamStates
  <2>3. e \in StreamEvents
    BY EventTypes, Zenon DEF Blocks
  <2> HIDE DEF m, e
  <2>4. After(by, a, m) = After(by, a, s)
    BY <2>2, Zenon DEF After
  <2>5. /\ t \in StreamStates /\ t.calls = m.calls /\ t.phase = m.phase
        /\ t.stop_reason = m.stop_reason
        /\ After(by, a, m) \in SlotReaders(by)
        /\ After(by, a, t) = Read(by, After(by, a, m), e)
    BY <2>1, <2>2, <2>3, EmitReads
  <2>6. Matches(by, s.calls, After(by, a, t))
    BY <1>1, <2>4, <2>5, TalkStoppingMatches DEF e
  <2> QED
    BY <1>1, <2>2, <2>5, <2>6, Zenon DEF Fine
<1>3. CASE s.phase[b] # "Active"
  <2>1. t = s
    BY <1>3, Zenon DEF StopTalk
  <2> QED
    BY <2>1, Zenon
<1> QED
  BY <1>2, <1>3

-----------------------------------------------------------------------------
(* A chunk.                                                                *)

CallPieces == [call : Calls, names : BOOLEAN, args : Seq(Nat)]

\* The operations on calls go from states to states.
LEMMA CallsTyped ==
  ASSUME NEW s \in StreamStates, NEW c \in Calls
  PROVE  StartCall(s, c) \in StreamStates /\ FlushArgs(s, c) \in StreamStates /\ StopCall(s, c) \in StreamStates
<1>1. s.calls \in CallTables /\ s.calls[c] \in CallStates
  BY DEF StreamStates, CallTables
<1>2. ASSUME NEW v \in CallStates, NEW e \in StreamEvents
      PROVE  Emit([s EXCEPT !.calls = [s.calls EXCEPT ![c] = v]], e) \in StreamStates
  <2> DEFINE m == [s EXCEPT !.calls = [s.calls EXCEPT ![c] = v]]
  <2>1. m \in StreamStates
    BY CallChanges
  <2> HIDE DEF m
  <2>2. m.events \in Seq(StreamEvents)
    BY <2>1 DEF StreamStates
  <2>3. Append(m.events, e) \in Seq(StreamEvents)
    BY <2>2
  <2>4. Emit(m, e) \in StreamStates
    BY <2>1, <2>3 DEF StreamStates, Emit
  <2> QED
    BY <2>4 DEF m
<1>3. Start(c, <<>>) \in StreamEvents /\ BlockStop(c) \in StreamEvents
  BY NoPieces, EventTypes, Zenon DEF Blocks
<1>4. StartCall(s, c) \in StreamStates
  <2>1. [s.calls[c] EXCEPT !.started = TRUE] \in CallStates
    BY <1>1 DEF CallStates
  <2> QED
    BY <1>2, <1>3, <2>1, Zenon DEF StartCall
<1>5. StopCall(s, c) \in StreamStates
  <2>1. [s.calls[c] EXCEPT !.stopped = TRUE] \in CallStates
    BY <1>1 DEF CallStates
  <2> QED
    BY <1>2, <1>3, <2>1, Zenon DEF StopCall
<1>6. FlushArgs(s, c) \in StreamStates
  <2> DEFINE args == s.calls[c].args
             rest == SubSeq(args, s.calls[c].emitted + 1, Len(args))
  <2>0. args \in Seq(Nat) /\ s.calls[c].emitted \in Nat
    BY <1>1 DEF CallStates
  <2>1. [s.calls[c] EXCEPT !.emitted = Len(args)] \in CallStates /\ rest \in Seq(Nat)
    <3>1. [s.calls[c] EXCEPT !.emitted = Len(args)] \in CallStates
      BY <1>1 DEF CallStates
    <3> QED
      BY <2>0, <3>1, Remaining, Zenon
  <2>2. Delta(c, rest) \in StreamEvents
    <3> HIDE DEF rest
    <3> QED
      BY <2>1, EventTypes, Zenon DEF Blocks
  <2> QED
    BY <1>2, <2>1, <2>2, Zenon DEF FlushArgs
<1> QED
  BY <1>4, <1>5, <1>6

\* What a piece adds to its call.
WithPiece(s, d) ==
  [s EXCEPT !.calls[d.call].named = @ \/ d.names, !.calls[d.call].args = @ \o d.args]

Grown(args, more) == args \o more

\* A piece of a call reaches that call and no other.
LEMMA PieceIsAdded ==
  ASSUME NEW s \in StreamStates, NEW d \in CallPieces, NEW t, t = WithPiece(s, d)
  PROVE  /\ t \in StreamStates /\ Moved(d.call, s, t) /\ t.events = s.events
         /\ t.calls[d.call].named <=> s.calls[d.call].named \/ d.names
         /\ t.calls[d.call].args = Grown(s.calls[d.call].args, d.args)
         /\ t.calls[d.call].emitted = s.calls[d.call].emitted
         /\ (t.calls[d.call].started <=> s.calls[d.call].started)
         /\ (t.calls[d.call].stopped <=> s.calls[d.call].stopped)
<1> DEFINE c == d.call
           u == [s.calls[c] EXCEPT !.named = s.calls[c].named \/ d.names]
           m == [s EXCEPT !.calls = [s.calls EXCEPT ![c] = u]]
           args == s.calls[c].args \o d.args
           v == [m.calls[c] EXCEPT !.args = m.calls[c].args \o d.args]
           x == [m EXCEPT !.calls = [m.calls EXCEPT ![c] = v]]
<1>1. c \in Calls /\ d.names \in BOOLEAN /\ d.args \in Seq(Nat) /\ s.calls \in CallTables /\ s.calls[c] \in CallStates
  BY DEF CallPieces, StreamStates, CallTables
<1>2. t = x
  BY DEF WithPiece
<1> HIDE DEF c
<1>3. /\ u \in CallStates /\ u.named = (s.calls[c].named \/ d.names) /\ u.args = s.calls[c].args
      /\ u.emitted = s.calls[c].emitted /\ u.started = s.calls[c].started
      /\ u.stopped = s.calls[c].stopped
  BY <1>1 DEF CallStates
<1> HIDE DEF u
<1>4. /\ m \in StreamStates /\ m.stop_reason = s.stop_reason /\ m.phase = s.phase
      /\ m.events = s.events /\ Only(c, s.calls, m.calls) /\ m.calls[c] = u
  BY <1>1, <1>3, CallChanges
<1> HIDE DEF m
<1>5. /\ v \in CallStates /\ v.named = u.named /\ v.args = Grown(u.args, d.args)
      /\ v.emitted = u.emitted /\ v.started = u.started /\ v.stopped = u.stopped
  <2>1. u.args \o d.args \in Seq(Nat)
    BY <1>1, <1>3 DEF CallStates
  <2> QED
    BY <1>3, <1>4, <2>1 DEF CallStates, Grown
<1> HIDE DEF v
<1>6. /\ x \in StreamStates /\ x.stop_reason = m.stop_reason /\ x.phase = m.phase
      /\ x.events = m.events /\ Only(c, m.calls, x.calls) /\ x.calls[c] = v
  BY <1>1, <1>4, <1>5, CallChanges
<1> HIDE DEF x
<1> QED
  BY <1>2, <1>3, <1>4, <1>5, <1>6, Zenon DEF Moved, Only, c

\* A piece continues the arguments of its call.
Continues(v, d) == v.args \o d.args = Pieces(Len(v.args) + Len(d.args))

\* A piece of a call that is not finished is told at once if the call has a name.
LEMMA CallDeltaKeeps ==
  ASSUME Numbered, NEW by \in {"slot", "map"}, NEW a \in SlotReaders(by), NEW s, Fine(by, a, s),
         StillOpen(by, a, s), NEW d \in CallPieces, ~s.calls[d.call].stopped,
         Continues(s.calls[d.call], d),
         NEW finish, NEW t, t = CallDelta(s, d, finish)
  PROVE  /\ Fine(by, a, t) /\ StillOpen(by, a, t) /\ Moved(d.call, s, t)
         /\ SettledCall(t.calls[d.call])
         /\ finish # "tool_calls" => ~t.calls[d.call].stopped
<1> DEFINE c == d.call
           applied == WithPiece(s, d)
           begun == StartCall(applied, c)
           told == FlushArgs(begun, c)
           done == StopCall(told, c)
<1>1. /\ t = IF ~begun.calls[c].started THEN begun
             ELSE IF finish = "tool_calls" THEN done ELSE told
  BY Zenon DEF CallDelta, WithPiece
<1>2. c \in Calls /\ d.args \in Seq(Nat) /\ d.call = c
  BY DEF CallPieces
<1>0. applied = WithPiece(s, d) /\ ~s.calls[c].stopped
      /\ s.calls[c].args \o d.args = Pieces(Len(s.calls[c].args) + Len(d.args))
  BY Zenon DEF Continues
<1> HIDE DEF c, applied
<1>3. s \in StreamStates /\ s.calls \in CallTables /\ s.calls[c] \in CallStates /\ Sound(s.calls) /\ Matches(by, s.calls, After(by, a, s))
  BY <1>2 DEF Fine, StreamStates, CallTables
<1>4. After(by, a, s) \in SlotReaders(by)
  <2>1. MessageStop \in StreamEvents /\ s.events \in Seq(StreamEvents)
    BY <1>3 DEF StreamEvents, StreamStates
  <2> QED
    BY <2>1, ReadOneMore, Zenon DEF After
<1>5. /\ applied \in StreamStates /\ Moved(c, s, applied) /\ applied.events = s.events
      /\ applied.calls[c].named <=> s.calls[c].named \/ d.names
      /\ applied.calls[c].args = Grown(s.calls[c].args, d.args)
      /\ applied.calls[c].emitted = s.calls[c].emitted
      /\ (applied.calls[c].started <=> s.calls[c].started)
      /\ (applied.calls[c].stopped <=> s.calls[c].stopped)
  BY <1>0, <1>2, <1>3, PieceIsAdded
<1>6. Fine(by, a, applied) /\ StillOpen(by, a, applied)
  <2>1. After(by, a, applied) = After(by, a, s)
    BY <1>5, Zenon DEF After
  <2>2. applied.calls \in CallTables /\ Only(c, s.calls, applied.calls)
    BY <1>5 DEF StreamStates, Moved
  <2>3. Len(applied.calls[c].args) = Len(s.calls[c].args) + Len(d.args)
        /\ Len(s.calls[c].args) <= Len(applied.calls[c].args)
    <3>1. s.calls[c].args \in Seq(Nat)
      BY <1>3 DEF CallStates
    <3>2. Len(s.calls[c].args \o d.args) = Len(s.calls[c].args) + Len(d.args) /\ Len(d.args) \in Nat /\ Len(s.calls[c].args) \in Nat
      BY <1>2, <3>1
    <3>3. applied.calls[c].args = s.calls[c].args \o d.args
      BY <1>5, Zenon DEF Grown
    <3>4. Len(applied.calls[c].args) = Len(s.calls[c].args) + Len(d.args)
      BY <3>2, <3>3, Zenon
    <3>5. \A m, n \in Nat : m <= m + n
      OBVIOUS
    <3> QED
      BY <3>2, <3>4, <3>5, Zenon
  <2>4. applied.calls[c].args = Pieces(Len(applied.calls[c].args))
    <3>1. applied.calls[c].args = s.calls[c].args \o d.args
      BY <1>5, Zenon DEF Grown
    <3> QED
      BY <1>0, <2>3, <3>1, Zenon
  <2>5. /\ Sound(applied.calls) /\ Matches(by, applied.calls, After(by, a, s))
        /\ Untaken(by, s.calls, After(by, a, s)) => Untaken(by, applied.calls, After(by, a, s))
    BY <1>2, <1>3, <1>4, <1>5, <2>2, <2>3, <2>4, GrowingMatches
  <2> QED
    BY <1>5, <2>1, <2>5, Zenon DEF Fine, StillOpen
<1>7. /\ Fine(by, a, begun) /\ StillOpen(by, a, begun) /\ Moved(c, applied, begun)
      /\ (begun.calls[c].named <=> applied.calls[c].named)
      /\ (begun.calls[c].stopped <=> applied.calls[c].stopped)
      /\ begun.calls[c].started <=> applied.calls[c].named
  BY <1>2, <1>6, StartCallKeeps
<1> HIDE DEF begun
<1>8. Moved(c, s, begun) /\ ~begun.calls[c].stopped /\ (begun.calls[c].named => begun.calls[c].started)
  BY <1>0, <1>5, <1>7, Zenon DEF Moved, Only
<1>9. CASE ~begun.calls[c].started
  <2>1. t = begun
    BY <1>1, <1>9, Zenon
  <2> QED
    BY <1>2, <1>7, <1>8, <1>9, <2>1, Zenon DEF SettledCall
<1>10. CASE begun.calls[c].started
  <2>1. /\ Fine(by, a, told) /\ StillOpen(by, a, told) /\ Moved(c, begun, told)
        /\ SettledCall(told.calls[c])
        /\ (told.calls[c].stopped <=> begun.calls[c].stopped)
        /\ (told.calls[c].started <=> begun.calls[c].started)
    <3> HIDE DEF told
    <3>1. told = FlushArgs(begun, c)
      BY DEF told
    <3>2. c \in Calls /\ Fine(by, a, begun) /\ StillOpen(by, a, begun)
      BY <1>2, <1>7
    <3>3. begun.calls[c].started /\ ~begun.calls[c].stopped
      BY <1>8, <1>10
    <3> QED
      BY <3>1, <3>2, <3>3, FlushArgsKeeps
  <2> HIDE DEF told
  <2>2. Moved(c, s, told) /\ SettledCall(told.calls[c]) /\ ~told.calls[c].stopped
    BY <1>8, <1>10, <2>1, Zenon DEF Moved, Only, SettledCall
  <2>3. CASE finish # "tool_calls"
    <3>1. t = told
      BY <1>1, <1>10, <2>3, Zenon
    <3> QED
      BY <1>2, <2>1, <2>2, <3>1, Zenon
  <2>4. CASE finish = "tool_calls"
    <3>1. t = done
      BY <1>1, <1>10, <2>4, Zenon
    <3>2. /\ Fine(by, a, t) /\ StillOpen(by, a, t) /\ Moved(c, told, t)
          /\ (t.calls[c].named <=> told.calls[c].named) /\ t.calls[c].args = told.calls[c].args
          /\ t.calls[c].emitted = told.calls[c].emitted /\ (t.calls[c].started <=> told.calls[c].started)
      BY <1>2, <2>1, <3>1, StopCallKeeps
    <3> QED
      BY <1>2, <2>2, <2>4, <3>2, Zenon DEF Moved, Only, SettledCall
  <2> QED
    BY <2>3, <2>4
<1> QED
  BY <1>9, <1>10

\* A piece of a call leads from a state to a state.
LEMMA CallDeltaTyped ==
  ASSUME NEW s \in StreamStates, NEW d \in CallPieces, NEW finish
  PROVE  CallDelta(s, d, finish) \in StreamStates
<1> DEFINE c == d.call
           applied == WithPiece(s, d)
           begun == StartCall(applied, c)
           told == FlushArgs(begun, c)
           done == StopCall(told, c)
<1>1. CallDelta(s, d, finish) = IF ~begun.calls[c].started THEN begun
                                ELSE IF finish = "tool_calls" THEN done ELSE told
  BY Zenon DEF CallDelta, WithPiece
<1>2. c \in Calls
  BY DEF CallPieces
<1>3. applied \in StreamStates
  BY PieceIsAdded
<1> HIDE DEF applied, c
<1>4. begun \in StreamStates
  BY <1>2, <1>3, CallsTyped
<1>5. told \in StreamStates
  BY <1>2, <1>4, CallsTyped
<1>6. done \in StreamStates
  BY <1>2, <1>5, CallsTyped
<1> QED
  BY <1>1, <1>4, <1>5, <1>6, Zenon

\* q lists the n elements of S from the smallest up.
Lists(q, S, n) ==
  /\ n \in Nat /\ DOMAIN q = 1..n /\ \A i \in 1..n : q[i] \in S
  /\ \A c \in S : \E i \in 1..n : q[i] = c
  /\ \A i, j \in 1..n : i < j => q[i] < q[j]

\* InOrder lists a finite set of numbers from the smallest up.
LEMMA InOrderLists ==
  ASSUME NEW S, S \subseteq Nat, IsFiniteSet(S)
  PROVE  Lists(InOrder(S), S, Cardinality(S))
<1> DEFINE q == InOrder(S)
           n == Cardinality(S)
<1> DEFINE below(c) == {d \in S : d < c}
           rank == [c \in S |-> Cardinality(below(c)) + 1]
<1>13. q = InOrder(S) /\ n = Cardinality(S)
  OBVIOUS
<1> HIDE DEF q
<1>0. \A c \in S : c \in Nat
  OBVIOUS
<1>1. n \in Nat
  BY FS_CardinalityType
<1>2. ASSUME NEW c \in S
      PROVE  IsFiniteSet(below(c)) /\ Cardinality(below(c)) \in 0..(n - 1)
  <2>1. below(c) \in SUBSET S /\ c \notin below(c) /\ c \in S
    OBVIOUS
  <2> HIDE DEF below
  <2>2. IsFiniteSet(below(c)) /\ Cardinality(below(c)) <= n /\ Cardinality(below(c)) # n
    BY <2>1, FS_Subset
  <2>3. Cardinality(below(c)) \in Nat
    BY <2>2, FS_CardinalityType
  <2> QED
    BY <1>1, <2>2, <2>3
<1>3. ASSUME NEW c \in S, NEW d \in S, c < d
      PROVE  rank[c] < rank[d]
  <2>0. \A e \in S : e < c => e < d
    BY <1>0, <1>3
  <2>1. below(c) \in SUBSET below(d)
    BY <2>0
  <2>2. c \in below(d) /\ c \notin below(c)
    BY <1>3
  <2>3. IsFiniteSet(below(d)) /\ Cardinality(below(c)) \in 0..(n - 1) /\ Cardinality(below(d)) \in 0..(n - 1)
    BY <1>2
  <2>4. rank[c] = Cardinality(below(c)) + 1 /\ rank[d] = Cardinality(below(d)) + 1
    BY Zenon
  <2> HIDE DEF below
  <2>5. Cardinality(below(c)) <= Cardinality(below(d)) /\ Cardinality(below(c)) # Cardinality(below(d))
    BY <2>1, <2>2, <2>3, FS_Subset
  <2> HIDE DEF rank
  <2> QED
    BY <1>1, <2>3, <2>4, <2>5
<1>4. \A c \in S : rank[c] \in 1..n
  BY <1>1, <1>2
<1>5. rank \in [S -> 1..n]
  <2>1. rank = [c \in S |-> rank[c]]
    OBVIOUS
  <2> HIDE DEF rank
  <2> QED
    BY <1>4, <2>1, Zenon
<1> HIDE DEF rank
<1>6. ASSUME NEW c \in S, NEW d \in S, rank[c] = rank[d]
      PROVE  c = d
  <2>1. c < d \/ d < c \/ c = d
    OBVIOUS
  <2>2. rank[c] \in Nat /\ rank[d] \in Nat
    BY <1>4
  <2> QED
    BY <1>3, <1>6, <2>1, <2>2
<1>7. rank \in Surjection(S, 1..n)
  <2>1. rank \in Injection(S, 1..n)
    BY <1>5, <1>6, Zenon DEF Injection, IsInjective
  <2>2. IsFiniteSet(1..n) /\ Cardinality(1..n) = n
    BY <1>1, FS_Interval
  <2> QED
    BY <2>1, <2>2, FS_Injection
<1>8. \A i \in 1..n : \E c \in S : rank[c] = i
  BY <1>7, Zenon DEF Surjection
<1>9. DOMAIN q = 1..n
  BY <1>13, Zenon DEF InOrder
<1>10. ASSUME NEW i \in 1..n
       PROVE  q[i] \in S /\ rank[q[i]] = i
  <2>1. PICK c \in S : rank[c] = i
    BY <1>8
  <2>2. q[i] = CHOOSE d \in S : Cardinality({e \in S : e < d}) = i - 1
    BY <1>13, Zenon DEF InOrder
  <2>3. \A d \in S : rank[d] = Cardinality({e \in S : e < d}) + 1
    BY DEF rank
  <2>4. Cardinality({e \in S : e < c}) = i - 1
    <3>1. Cardinality(below(c)) \in 0..(n - 1)
      BY <1>2
    <3> QED
      BY <2>1, <2>3, <3>1
  <2>5. q[i] \in S /\ Cardinality({e \in S : e < q[i]}) = i - 1
    BY <2>2, <2>4, Zenon
  <2>6. rank[q[i]] = (i - 1) + 1
    BY <2>3, <2>5, Zenon
  <2>7. (i - 1) + 1 = i
    OBVIOUS
  <2> QED
    BY <2>5, <2>6, <2>7, Zenon
<1>11. ASSUME NEW c \in S
       PROVE  \E i \in 1..n : q[i] = c
  <2>1. rank[c] \in 1..n
    BY <1>4
  <2>2. q[rank[c]] \in S /\ rank[q[rank[c]]] = rank[c]
    BY <1>10, <2>1, Zenon
  <2> QED
    BY <1>6, <2>1, <2>2, Zenon
<1>12. ASSUME NEW i \in 1..n, NEW j \in 1..n, i < j
       PROVE  q[i] < q[j]
  <2>1. q[i] \in S /\ q[j] \in S /\ rank[q[i]] = i /\ rank[q[j]] = j
    BY <1>10
  <2>2. ~(q[j] < q[i]) /\ q[i] # q[j]
    <3>1. q[j] < q[i] => j < i
      BY <1>3, <2>1, Zenon
    <3> QED
      BY <1>12, <2>1, <3>1
  <2>3. q[i] \in Nat /\ q[j] \in Nat
    BY <1>0, <2>1
  <2> QED
    BY <2>2, <2>3
<1> QED
  BY <1>1, <1>9, <1>10, <1>11, <1>12 DEF Lists, q

\* What is said in a chunk tells nothing of calls.
LEMMA TalkKeeps ==
  ASSUME NEW by, NEW a \in SlotReaders(by), NEW s \in StreamStates, NEW talk \in Seq(Talk),
         NEW t, t = FoldLeft(Say, s, talk)
  PROVE  /\ t \in StreamStates /\ t.calls = s.calls /\ t.stop_reason = s.stop_reason
         /\ After(by, a, t) = After(by, a, s)
<1> DEFINE R == {x \in StreamStates : x.calls = s.calls /\ x.stop_reason = s.stop_reason
                                       /\ After(by, a, x) = After(by, a, s)}
           n == Len(talk)
<1>1. n \in Nat /\ DOMAIN talk = 1..n /\ n \in 0..n /\ \A k \in 1..n : talk[k] \in Talk
  OBVIOUS
<1>2. s \in R
  OBVIOUS
<1>3. \A x \in R, b \in Talk : Say(x, b) \in R
  BY SayKeeps
<1> HIDE DEF R, n
<1>4. PICK h \in [0..n -> R] : Sayings(h, s, talk, n)
  BY <1>1, <1>2, <1>3, SayingIsStepwise
<1>5. h[n] \in R
  BY <1>1
<1>6. t \in R
  BY <1>4, <1>5, Zenon DEF Sayings
<1> QED
  BY <1>6 DEF R

\* The pieces of a chunk, for one call each, are told.
LEMMA PiecesKeep ==
  ASSUME Numbered, NEW by \in {"slot", "map"}, NEW a \in SlotReaders(by), NEW s, Fine(by, a, s),
         StillOpen(by, a, s), Settled(s.calls), \A c \in Calls : ~s.calls[c].stopped,
         NEW n \in Nat, NEW ds, DOMAIN ds = 1..n,
         \A i \in 1..n : ds[i] \in CallPieces /\ Continues(s.calls[ds[i].call], ds[i]),
         \A i, j \in 1..n : i # j => ds[i].call # ds[j].call,
         NEW finish, NEW t, t = TakeUp(s, ds, finish)
  PROVE  /\ Fine(by, a, t) /\ StillOpen(by, a, t) /\ Settled(t.calls)
         /\ t.stop_reason = s.stop_reason
         /\ finish # "tool_calls" => \A c \in Calls : ~t.calls[c].stopped
<1>1. s \in StreamStates
  BY Zenon DEF Fine
<1>2. PICK h \in [0..n -> StreamStates] : Takings(h, finish, s, ds, n)
  <2>1. \A x \in StreamStates, k \in 1..n : CallDelta(x, ds[k], finish) \in StreamStates
    BY CallDeltaTyped
  <2> QED
    BY <1>1, <2>1, DeltasAreStepwise
<1>3. h[0] = s /\ (\A k \in 1..n : h[k] = CallDelta(h[k - 1], ds[k], finish)) /\ h[n] = t
  BY <1>2, Zenon DEF Takings
<1> DEFINE Good(k) == /\ Fine(by, a, h[k]) /\ StillOpen(by, a, h[k]) /\ Settled(h[k].calls)
                      /\ h[k].stop_reason = s.stop_reason
                      /\ finish # "tool_calls" => \A c \in Calls : ~h[k].calls[c].stopped
                      /\ \A j \in 1..n : j > k => h[k].calls[ds[j].call] = s.calls[ds[j].call]
           T == {k \in 0..n : Good(k)}
<1>4. 0 \in T
  BY <1>3
<1>5. ASSUME NEW k \in 1..n, k - 1 \in T
      PROVE  k \in T
  <2> DEFINE p == h[k - 1]
             x == h[k]
             d == ds[k]
             c == d.call
  <2>1. Good(k - 1)
    BY <1>5
  <2>2. x = CallDelta(p, d, finish)
    BY <1>3
  <2>3. d \in CallPieces /\ c \in Calls
    BY DEF CallPieces
  <2>4. k > k - 1 /\ k \in 0..n /\ \A j \in 1..n : j > k => j > k - 1 /\ j # k
    OBVIOUS
  <2>5. p.calls[c] = s.calls[c]
    BY <2>1, <2>4
  <2> HIDE DEF p, x
  <2>6. Fine(by, a, p) /\ StillOpen(by, a, p) /\ Settled(p.calls) /\ p.stop_reason = s.stop_reason
    BY <2>1 DEF p
  <2>7. ~p.calls[c].stopped /\ Continues(p.calls[c], d)
    BY <2>3, <2>5, Zenon
  <2> HIDE DEF d
  <2>8. /\ Fine(by, a, x) /\ StillOpen(by, a, x) /\ Moved(c, p, x)
        /\ SettledCall(x.calls[c])
        /\ finish # "tool_calls" => ~x.calls[c].stopped
    BY <2>2, <2>3, <2>6, <2>7, CallDeltaKeeps
  <2> HIDE DEF c
  <2>9. Settled(x.calls) /\ x.stop_reason = s.stop_reason
    BY <2>6, <2>8, Zenon DEF Settled, Moved, Only
  <2>10. finish # "tool_calls" => \A e \in Calls : ~x.calls[e].stopped
    <3>1. finish # "tool_calls" => \A e \in Calls : ~p.calls[e].stopped
      BY <2>1, Zenon DEF p
    <3> QED
      BY <2>8, <3>1, Zenon DEF Moved, Only
  <2>11. ASSUME NEW j \in 1..n, j > k
         PROVE  x.calls[ds[j].call] = s.calls[ds[j].call]
    <3>1. ds[j].call # c /\ ds[j].call \in Calls
      BY <2>4, <2>11 DEF CallPieces, c, d
    <3>2. p.calls[ds[j].call] = s.calls[ds[j].call]
      BY <2>1, <2>4, <2>11, Zenon DEF p
    <3> QED
      BY <2>8, <3>1, <3>2, Zenon DEF Moved, Only
  <2>12. Good(k)
    BY <2>8, <2>9, <2>10, <2>11, Zenon DEF x
  <2> QED
    BY <2>4, <2>12
<1> HIDE DEF T
<1>6. n \in T
  <2>1. n \in 0..n
    OBVIOUS
  <2> QED
    BY <1>4, <1>5, <2>1, Along
<1> QED
  BY <1>3, <1>6 DEF T

\* The calls in their order are all the calls.
LEMMA CallsAreListed ==
  ASSUME Numbered
  PROVE  \E n \in Nat : /\ DOMAIN CallsInOrder = 1..n /\ \A k \in 1..n : CallsInOrder[k] \in Calls
                        /\ \A c \in Calls : \E k \in 1..n : CallsInOrder[k] = c
<1>1. Calls \subseteq Nat /\ IsFiniteSet(Calls)
  BY DEF Numbered
<1>2. Lists(CallsInOrder, Calls, Cardinality(Calls))
  BY <1>1, InOrderLists, Zenon DEF CallsInOrder
<1> QED
  BY <1>2, Zenon DEF Lists

\* All calls are stopped once the provider asks for their results.
LEMMA StopAllKeeps ==
  ASSUME Numbered, NEW by \in {"slot", "map"}, NEW a \in SlotReaders(by), NEW s, Fine(by, a, s),
         StillOpen(by, a, s), Settled(s.calls),
         NEW t, t = FoldLeft(StopCall, s, CallsInOrder)
  PROVE  Fine(by, a, t) /\ StillOpen(by, a, t) /\ Settled(t.calls) /\ t.stop_reason = s.stop_reason
<1> DEFINE R == {x \in StreamStates : /\ Fine(by, a, x) /\ StillOpen(by, a, x) /\ Settled(x.calls)
                                      /\ x.stop_reason = s.stop_reason}
<1>1. PICK n \in Nat : DOMAIN CallsInOrder = 1..n /\ \A k \in 1..n : CallsInOrder[k] \in Calls
  BY CallsAreListed, Zenon
<1>2. s \in R
  BY Zenon DEF Fine
<1>3. ASSUME NEW x \in R, NEW c \in Calls
      PROVE  StopCall(x, c) \in R
  <2> DEFINE y == StopCall(x, c)
  <2>1. y = StopCall(x, c) /\ Fine(by, a, x)
    OBVIOUS
  <2> HIDE DEF y
  <2>2. /\ Fine(by, a, y) /\ (StillOpen(by, a, x) => StillOpen(by, a, y)) /\ Moved(c, x, y)
        /\ (y.calls[c].named <=> x.calls[c].named) /\ y.calls[c].args = x.calls[c].args
        /\ y.calls[c].emitted = x.calls[c].emitted /\ (y.calls[c].started <=> x.calls[c].started)
    BY <2>1, StopCallKeeps
  <2>3. Settled(y.calls)
    <3>1. Settled(x.calls)
      OBVIOUS
    <3> QED
      BY <2>2, <3>1, Zenon DEF Settled, SettledCall, Moved, Only
  <2>4. y \in R
    BY <2>2, <2>3 DEF Fine, Moved
  <2> QED
    BY <2>1, <2>4
<1> HIDE DEF R
<1>4. \A x \in R, k \in 1..n : StopCall(x, CallsInOrder[k]) \in R
  BY <1>1, <1>3, Zenon
<1>5. PICK h \in [0..n -> R] : Stoppings(h, s, CallsInOrder, n)
  BY <1>1, <1>2, <1>4, StoppingIsStepwise
<1>6. h[n] \in R
  BY <1>1
<1>7. t \in R
  BY <1>5, <1>6, Zenon DEF Stoppings
<1> QED
  BY <1>7 DEF R

\* Between two chunks all is told and nothing is to be read.
Resting(by, a, s) ==
  /\ a \in SlotReaders(by) /\ Fine(by, a, s) /\ StillOpen(by, a, s) /\ Settled(s.calls)
  /\ s.stop_reason = "none" => \A c \in Calls : ~s.calls[c].stopped

ChunksOf(s) ==
  {chunk \in [talk : Seq(Talk), deltas : Seq(CallPieces), finish : {"none", "tool_calls", "stop"}] :
     /\ \A i \in DOMAIN chunk.deltas :
          Continues(s.calls[chunk.deltas[i].call], chunk.deltas[i])
     /\ \A i, j \in DOMAIN chunk.deltas :
          i # j => chunk.deltas[i].call # chunk.deltas[j].call}

\* A chunk leads from rest to rest.
LEMMA IngestKeeps ==
  ASSUME Numbered, NEW by \in {"slot", "map"}, NEW a, NEW s, Resting(by, a, s), s.stop_reason = "none",
         NEW chunk \in ChunksOf(s), NEW t, t = Ingest(s, chunk)
  PROVE  Resting(by, a, t)
<1> DEFINE said == FoldLeft(Say, StartMessage(s), chunk.talk)
           called == TakeUp(said, chunk.deltas, chunk.finish)
           reasoned == IF chunk.finish = "none" THEN called
                       ELSE [called EXCEPT !.stop_reason = chunk.finish]
<1>1. t = IF chunk.finish = "tool_calls" THEN FoldLeft(StopCall, reasoned, CallsInOrder) ELSE reasoned
  BY Zenon DEF Ingest, TakeUp
<1>2. /\ a \in SlotReaders(by) /\ Fine(by, a, s) /\ StillOpen(by, a, s) /\ Settled(s.calls)
      /\ s \in StreamStates /\ \A c \in Calls : ~s.calls[c].stopped
  BY Zenon DEF Resting, Fine
<1>3. /\ chunk.talk \in Seq(Talk) /\ chunk.deltas \in Seq(CallPieces)
      /\ chunk.finish \in {"none", "tool_calls", "stop"}
      /\ \A i \in DOMAIN chunk.deltas : Continues(s.calls[chunk.deltas[i].call], chunk.deltas[i])
      /\ \A i, j \in DOMAIN chunk.deltas : i # j => chunk.deltas[i].call # chunk.deltas[j].call
  BY DEF ChunksOf
<1> HIDE DEF said
<1>4. /\ said \in StreamStates /\ said.calls = s.calls /\ said.stop_reason = s.stop_reason
      /\ After(by, a, said) = After(by, a, s)
  <2> DEFINE begun == StartMessage(s)
  <2>1. /\ begun \in StreamStates /\ begun.calls = s.calls /\ begun.stop_reason = s.stop_reason
        /\ After(by, a, begun) = After(by, a, s)
    BY <1>2, StartMessageKeeps
  <2>2. said = FoldLeft(Say, begun, chunk.talk)
    BY DEF said
  <2> HIDE DEF begun
  <2>3. /\ said \in StreamStates /\ said.calls = begun.calls /\ said.stop_reason = begun.stop_reason
        /\ After(by, a, said) = After(by, a, begun)
    BY <1>2, <1>3, <2>1, <2>2, TalkKeeps
  <2> QED
    BY <2>1, <2>3
<1>5. /\ Fine(by, a, said) /\ StillOpen(by, a, said) /\ Settled(said.calls)
      /\ \A c \in Calls : ~said.calls[c].stopped
  BY <1>2, <1>4, Zenon DEF Fine, StillOpen
<1> HIDE DEF called
<1>6. /\ Fine(by, a, called) /\ StillOpen(by, a, called) /\ Settled(called.calls)
      /\ called.stop_reason = s.stop_reason
      /\ chunk.finish # "tool_calls" => \A c \in Calls : ~called.calls[c].stopped
  <2> DEFINE ds == chunk.deltas
             n == Len(ds)
  <2>1. n \in Nat /\ DOMAIN ds = 1..n /\ \A i \in 1..n : ds[i] \in CallPieces
    BY <1>3
  <2>2. called = TakeUp(said, ds, chunk.finish)
    BY DEF called
  <2> HIDE DEF ds, n
  <2>3. \A i \in 1..n : ds[i] \in CallPieces /\ Continues(said.calls[ds[i].call], ds[i])
    BY <1>3, <1>4, <2>1, Zenon DEF ds
  <2>4. \A i, j \in 1..n : i # j => ds[i].call # ds[j].call
    BY <1>3, <2>1, Zenon DEF ds
  <2> QED
    BY <1>2, <1>4, <1>5, <2>1, <2>2, <2>3, <2>4, PiecesKeep
<1>7. called \in StreamStates
  BY <1>6, Zenon DEF Fine
<1>8. /\ Fine(by, a, reasoned) /\ StillOpen(by, a, reasoned) /\ Settled(reasoned.calls)
      /\ reasoned.stop_reason = chunk.finish /\ reasoned.calls = called.calls
  <2>1. reasoned \in StreamStates /\ reasoned.calls = called.calls /\ reasoned.events = called.events
        /\ reasoned.stop_reason = chunk.finish
    BY <1>3, <1>6, <1>7 DEF StreamStates
  <2> HIDE DEF reasoned
  <2> QED
    BY <1>6, <2>1, Zenon DEF Fine, StillOpen, After
<1> HIDE DEF reasoned
<1>9. CASE chunk.finish = "tool_calls"
  <2>1. t = FoldLeft(StopCall, reasoned, CallsInOrder)
    BY <1>1, <1>9, Zenon
  <2>2. Fine(by, a, t) /\ StillOpen(by, a, t) /\ Settled(t.calls) /\ t.stop_reason = reasoned.stop_reason
    BY <1>2, <1>8, <2>1, StopAllKeeps
  <2> QED
    BY <1>2, <1>8, <1>9, <2>2 DEF Resting
<1>10. CASE chunk.finish # "tool_calls"
  <2>1. t = reasoned
    BY <1>1, <1>10, Zenon
  <2> QED
    BY <1>2, <1>6, <1>8, <1>10, <2>1, Zenon DEF Resting
<1> QED
  BY <1>9, <1>10

-----------------------------------------------------------------------------
(* The end of an answer.                                                   *)

\* The events that were read are put away.
LEMMA TakenAway ==
  ASSUME NEW by, NEW a, a \in SlotReaders(by), NEW s \in StreamStates, NEW t, t = [s EXCEPT !.events = <<>>]
  PROVE  /\ t \in StreamStates /\ t.calls = s.calls /\ t.phase = s.phase
         /\ t.stop_reason = s.stop_reason /\ t.events = <<>>
         /\ After(by, a, s) \in SlotReaders(by) /\ After(by, After(by, a, s), t) = After(by, a, s)
         /\ After(by, a, t) = a
<1>1. <<>> \in Seq(StreamEvents) /\ s.events \in Seq(StreamEvents)
  BY DEF StreamStates
<1>2. /\ t \in StreamStates /\ t.calls = s.calls /\ t.phase = s.phase
      /\ t.stop_reason = s.stop_reason /\ t.events = <<>>
  BY <1>1 DEF StreamStates
<1>3. MessageStop \in StreamEvents
  BY Zenon DEF StreamEvents
<1>4. \A r \in SlotReaders(by) : ReadAll(by, r, <<>>) = r /\ ReadAll(by, r, s.events) \in SlotReaders(by)
  BY <1>1, <1>3, ReadOneMore, Zenon
<1> QED
  BY <1>2, <1>4, Zenon DEF After

\* A call of which all was told is closed by stopping it.
LEMMA ClosingStops ==
  ASSUME NEW s \in StreamStates, NEW c \in Calls, SettledCall(s.calls[c])
  PROVE  CloseCall(s, c) = StopCall(s, c)
<1>1. StartCall(s, c) = s
  BY Zenon DEF StartCall, SettledCall
<1>2. ASSUME s.calls[c].started
      PROVE  FlushArgs(s, c) = s
  <2>1. s.calls[c].emitted >= Len(s.calls[c].args)
    <3>1. s.calls[c].emitted = Len(s.calls[c].args)
      BY <1>2, Zenon DEF SettledCall
    <3>2. s.calls[c].emitted \in Nat
      BY DEF StreamStates, CallTables, CallStates
    <3>3. \A n \in Nat : n >= n
      OBVIOUS
    <3> QED
      BY <3>1, <3>2, <3>3, Zenon
  <2> QED
    BY <2>1, Zenon DEF FlushArgs
<1> QED
  BY <1>1, <1>2, Zenon DEF CloseCall

\* What is left of a call that was begun at the end.
Ended(v) == v.started => v.stopped

\* At the end all calls are told and stopped.
LEMMA FinishKeeps ==
  ASSUME Numbered, NEW by \in {"slot", "map"}, NEW a, NEW s, Resting(by, a, s), NEW t, t = Finish(s)
  PROVE  /\ Fine(by, a, t) /\ Settled(t.calls) /\ \A c \in Calls : Ended(t.calls[c])
         /\ \A b \in Talk : t.phase[b] = "Idle" <=> s.phase[b] = "Idle"
<1> DEFINE mute == StopTalk(s, 999)
           quiet == StopTalk(mute, 0)
           closed == FoldLeft(CloseCall, quiet, CallsInOrder)
<1>1. t = IF s.message_started THEN Emit(closed, MessageStop) ELSE closed
  BY Zenon DEF Finish
<1>2. a \in SlotReaders(by) /\ Fine(by, a, s) /\ Settled(s.calls)
  BY Zenon DEF Resting
<1>3. /\ Fine(by, a, mute) /\ mute.calls = s.calls
      /\ \A d \in Talk : mute.phase[d] = "Idle" <=> s.phase[d] = "Idle"
  BY <1>2, StopTalkKeeps DEF Talk
<1> HIDE DEF mute
<1>4. /\ Fine(by, a, quiet) /\ quiet.calls = mute.calls
      /\ \A d \in Talk : quiet.phase[d] = "Idle" <=> mute.phase[d] = "Idle"
  BY <1>2, <1>3, StopTalkKeeps DEF Talk
<1> HIDE DEF quiet
<1>5. Settled(quiet.calls) /\ quiet \in StreamStates
  BY <1>2, <1>3, <1>4, Zenon DEF Fine
<1>6. PICK n \in Nat : /\ DOMAIN CallsInOrder = 1..n /\ \A k \in 1..n : CallsInOrder[k] \in Calls
                       /\ \A c \in Calls : \E k \in 1..n : CallsInOrder[k] = c
  BY CallsAreListed, Zenon
<1> DEFINE R == {x \in StreamStates : Fine(by, a, x) /\ Settled(x.calls) /\ x.phase = quiet.phase}
<1>7. ASSUME NEW x \in R, NEW c \in Calls
      PROVE  /\ CloseCall(x, c) \in R /\ Only(c, x.calls, CloseCall(x, c).calls)
             /\ Ended(CloseCall(x, c).calls[c])
  <2> DEFINE y == CloseCall(x, c)
  <2>0. x \in StreamStates /\ Fine(by, a, x) /\ Settled(x.calls) /\ x.phase = quiet.phase
    OBVIOUS
  <2>1. y = StopCall(x, c)
    BY <2>0, ClosingStops DEF Settled
  <2> HIDE DEF y
  <2>2. /\ Fine(by, a, y) /\ Moved(c, x, y)
        /\ (y.calls[c].named <=> x.calls[c].named) /\ y.calls[c].args = x.calls[c].args
        /\ y.calls[c].emitted = x.calls[c].emitted /\ (y.calls[c].started <=> x.calls[c].started)
        /\ y.calls[c].stopped <=> x.calls[c].started
    BY <1>2, <2>0, <2>1, StopCallKeeps
  <2>3. Settled(y.calls)
    BY <2>0, <2>2, Zenon DEF Settled, SettledCall, Moved, Only
  <2>4. y \in R
    BY <2>0, <2>2, <2>3 DEF Fine, Moved
  <2>5. Ended(y.calls[c]) /\ Only(c, x.calls, y.calls)
    BY <2>2, Zenon DEF Ended, Moved
  <2> QED
    BY <2>4, <2>5 DEF y
<1>8. quiet \in R
  BY <1>4, <1>5
<1> HIDE DEF R
<1>9. PICK h \in [0..n -> R] : Closings(h, quiet, CallsInOrder, n)
  <2>1. \A x \in R, k \in 1..n : CloseCall(x, CallsInOrder[k]) \in R
    BY <1>6, <1>7, Zenon
  <2> QED
    BY <1>6, <1>8, <2>1, ClosingIsStepwise
<1>10. h[0] = quiet /\ (\A k \in 1..n : h[k] = CloseCall(h[k - 1], CallsInOrder[k])) /\ h[n] = closed
  BY <1>9, Zenon DEF Closings
<1> HIDE DEF closed
<1> DEFINE T == {k \in 0..n : \A j \in 1..n : j <= k => Ended(h[k].calls[CallsInOrder[j]])}
<1>11. ASSUME NEW k \in 1..n, k - 1 \in T
       PROVE  k \in T
  <2>1. /\ k \in 0..n /\ k - 1 \in 0..n /\ h[k - 1] \in R
        /\ \A j \in 1..n : j <= k => j = k \/ j <= k - 1
    OBVIOUS
  <2>2. h[k] = CloseCall(h[k - 1], CallsInOrder[k]) /\ CallsInOrder[k] \in Calls
    BY <1>6, <1>10
  <2>3. Only(CallsInOrder[k], h[k - 1].calls, h[k].calls) /\ Ended(h[k].calls[CallsInOrder[k]])
    BY <1>7, <2>1, <2>2, Zenon
  <2>4. ASSUME NEW j \in 1..n, j <= k
        PROVE  Ended(h[k].calls[CallsInOrder[j]])
    <3>1. CASE CallsInOrder[j] = CallsInOrder[k]
      BY <2>3, <3>1, Zenon
    <3>2. CASE CallsInOrder[j] # CallsInOrder[k]
      <4>1. j <= k - 1
        BY <2>1, <2>4, <3>2, Zenon
      <4>2. Ended(h[k - 1].calls[CallsInOrder[j]])
        BY <1>11, <4>1
      <4>3. h[k].calls[CallsInOrder[j]] = h[k - 1].calls[CallsInOrder[j]]
        BY <1>6, <2>3, <3>2, Zenon DEF Only
      <4> QED
        BY <4>2, <4>3, Zenon
    <3> QED
      BY <3>1, <3>2
  <2> QED
    BY <2>1, <2>4
<1>12. 0 \in T
  OBVIOUS
<1>13. n \in 0..n /\ \A j \in 1..n : j <= n
  OBVIOUS
<1>14. closed \in R /\ \A c \in Calls : Ended(closed.calls[c])
  <2>1. n \in T
    <3> HIDE DEF T
    <3> QED
      BY <1>11, <1>12, <1>13, Along
  <2>2. \A j \in 1..n : Ended(closed.calls[CallsInOrder[j]])
    BY <1>10, <1>13, <2>1
  <2>3. closed \in R
    BY <1>10, <1>13
  <2> QED
    BY <1>6, <2>2, <2>3, Zenon
<1>15. closed \in StreamStates /\ Fine(by, a, closed) /\ Settled(closed.calls) /\ closed.phase = quiet.phase
  BY <1>14 DEF R
<1>16. CASE ~s.message_started
  BY <1>1, <1>3, <1>4, <1>14, <1>15, <1>16, Zenon
<1>17. CASE s.message_started
  <2>1. t = Emit(closed, MessageStop) /\ MessageStop \in StreamEvents
    BY <1>1, <1>17, EventTypes, Zenon
  <2>2. /\ t \in StreamStates /\ t.calls = closed.calls /\ t.phase = closed.phase
        /\ After(by, a, closed) \in SlotReaders(by)
        /\ After(by, a, t) = Read(by, After(by, a, closed), MessageStop)
    BY <1>2, <1>15, <2>1, EmitReads
  <2> DEFINE r == After(by, a, closed)
             x == After(by, a, t)
  <2>3. x = [r EXCEPT !.saw_stop = TRUE]
    BY <2>2, ReadsOther, Zenon
  <2>4. x.open = r.open /\ x.uses = r.uses /\ x.blocks = r.blocks /\ x.crowded = r.crowded
    <3>1. r \in CallReaders
      BY <2>2 DEF SlotReaders
    <3> HIDE DEF r, x
    <3> QED
      BY <2>3, <3>1 DEF CallReaders
  <2>5. Matches(by, closed.calls, r)
    BY <1>15, Zenon DEF Fine
  <2>6. Matches(by, closed.calls, x)
    <3> HIDE DEF r, x
    <3>1. Told(by, closed.calls, r) => Told(by, closed.calls, x)
      BY <2>4, SameTold, Zenon
    <3> QED
      BY <2>4, <2>5, <3>1, Zenon DEF Matches, Clear
  <2>7. Fine(by, a, t)
    BY <1>15, <2>2, <2>6, Zenon DEF Fine
  <2> QED
    BY <1>3, <1>4, <1>14, <1>15, <2>2, <2>7, Zenon
<1> QED
  BY <1>16, <1>17

\* The reader of an answer that ended has all calls with a name, each once.
Finished(k, r) ==
  /\ \A i \in DOMAIN r.uses : /\ r.uses[i].block \in Calls /\ k[r.uses[i].block].named
                              /\ r.uses[i].args = Pieces(Len(k[r.uses[i].block].args))
  /\ \A i, j \in DOMAIN r.uses : r.uses[i].block = r.uses[j].block => i = j
  /\ \A c \in Calls : k[c].named => \E i \in DOMAIN r.uses : r.uses[i].block = c

\* When all calls have ended and all was told, a reader that matches has finished.
LEMMA EndedIsFinished ==
  ASSUME NEW by, NEW k \in CallTables, NEW r \in SlotReaders(by),
         Sound(k), Matches(by, k, r), Clear(by, r), Settled(k), \A c \in Calls : Ended(k[c])
  PROVE  Finished(k, r)
<1>1. Told(by, k, r)
  BY Zenon DEF Matches
<1>2. \A i \in DOMAIN r.uses : r.uses[i].block \in Calls
  BY ReaderTypes, Zenon
<1>3. \A c \in Calls : (k[c].started <=> k[c].named) /\ (k[c].started => k[c].emitted = Len(k[c].args) /\ k[c].stopped)
  BY Zenon DEF Sound, Settled, SettledCall, Ended
<1> QED
  BY <1>1, <1>2, <1>3, Zenon DEF Finished, Told, Holds, IsUsed

-----------------------------------------------------------------------------
(* The answer that was collected, and its replay.                          *)

Named(k) == {c \in Calls : k[c].named}

\* The pieces of a call behind the orchestrator: all of them, or none.
Given(k, c) == IF Len(k[c].args) = whole[c] THEN Len(k[c].args) ELSE 0

\* An answer is what is said, and the calls of a list.
Consists(content, m, order, n, k) ==
  /\ m \in Nat /\ n \in Nat /\ content \in Seq(ContentBlocks) /\ Len(content) = m + n
  /\ \A i \in 1..m : content[i].block \in Talk /\ content[i].args = <<>>
  /\ \A i \in 1..n : content[m + i] = [block |-> order[i], args |-> Pieces(Given(k, order[i]))]

\* The elements of a sequence over a set.
LEMMA Elements ==
  ASSUME NEW S, NEW p \in Seq(S)
  PROVE  \A i \in DOMAIN p : p[i] \in S
OBVIOUS

\* The length and the elements of two sequences, one after the other.
LEMMA Joined ==
  ASSUME NEW S, NEW p \in Seq(S), NEW q \in Seq(S)
  PROVE  /\ p \o q \in Seq(S) /\ Len(p \o q) = Len(p) + Len(q)
         /\ \A i \in 1..Len(p) : (p \o q)[i] = p[i]
         /\ \A i \in 1..Len(q) : (p \o q)[Len(p) + i] = q[i]
         /\ \A i \in 1..Len(p \o q) : (p \o q)[i] \in {p[j] : j \in 1..Len(p)} \cup {q[j] : j \in 1..Len(q)}
<1>1. /\ p \o q \in Seq(S) /\ Len(p \o q) = Len(p) + Len(q)
      /\ \A i \in 1..Len(p) : (p \o q)[i] = p[i]
      /\ \A i \in 1..Len(q) : (p \o q)[Len(p) + i] = q[i]
  OBVIOUS
<1>2. Len(p) \in Nat /\ Len(q) \in Nat
  OBVIOUS
<1>3. ASSUME NEW i \in 1..Len(p \o q)
      PROVE  (p \o q)[i] \in {p[j] : j \in 1..Len(p)} \cup {q[j] : j \in 1..Len(q)}
  <2>1. CASE i <= Len(p)
    BY <1>1, <2>1
  <2>2. CASE i > Len(p)
    <3>1. i - Len(p) \in 1..Len(q) /\ Len(p) + (i - Len(p)) = i
      BY <1>1, <1>2, <2>2
    <3>2. (p \o q)[i] = q[i - Len(p)]
      BY <1>1, <3>1, Zenon
    <3> QED
      BY <3>1, <3>2, Zenon
  <2> QED
    BY <1>1, <1>2, <2>1, <2>2
<1> QED
  BY <1>1, <1>3

\* The arguments of a call are a sequence with one number for each piece.
LEMMA PiecesAreCounted ==
  ASSUME NEW n \in Nat
  PROVE  Pieces(n) \in Seq(Nat) /\ Len(Pieces(n)) = n /\ Pieces(0) = <<>>
BY DEF Pieces

\* The calls that were passed on are those with a name.
LEMMA UsesAreNamed ==
  ASSUME NEW k, NEW r, Finished(k, r)
  PROVE  {u.block : u \in ToSet(r.uses)} = Named(k)
<1>1. ToSet(r.uses) = {r.uses[i] : i \in DOMAIN r.uses}
  BY Zenon DEF ToSet
<1>2. ASSUME NEW u \in ToSet(r.uses)
      PROVE  u.block \in Named(k)
  <2>1. PICK i \in DOMAIN r.uses : u = r.uses[i]
    BY <1>1
  <2>2. r.uses[i].block \in Calls /\ k[r.uses[i].block].named
    BY Zenon DEF Finished
  <2> QED
    BY <2>1, <2>2 DEF Named
<1>3. ASSUME NEW c \in Named(k)
      PROVE  \E u \in ToSet(r.uses) : u.block = c
  <2>1. PICK i \in DOMAIN r.uses : r.uses[i].block = c
    <3>1. c \in Calls /\ k[c].named
      BY DEF Named
    <3> QED
      BY <3>1, Zenon DEF Finished
  <2> QED
    BY <1>1, <2>1, Zenon
<1> QED
  BY <1>2, <1>3, Zenon

\* Of a call that was passed on, the answer has all pieces or none.
LEMMA ParsedIs ==
  ASSUME NEW k \in CallTables, NEW r, r.uses \in Seq(KeptCalls), Finished(k, r),
         NEW c \in Named(k), NEW v, v = CHOOSE u \in ToSet(r.uses) : u.block = c
  PROVE  Parsed(v) = [block |-> c, args |-> Pieces(Given(k, c))]
<1>1. \E u \in ToSet(r.uses) : u.block = c
  <2>1. c \in {u.block : u \in ToSet(r.uses)}
    BY UsesAreNamed
  <2> QED
    BY <2>1
<1>2. v \in ToSet(r.uses) /\ v.block = c
  BY <1>1, Zenon
<1>3. PICK i \in DOMAIN r.uses : v = r.uses[i]
  BY <1>2, Zenon DEF ToSet
<1>4. v \in KeptCalls
  BY <1>3, Elements
<1>5. v.args = Pieces(Len(k[c].args))
  <2>1. r.uses[i].args = Pieces(Len(k[r.uses[i].block].args))
    BY Zenon DEF Finished
  <2> QED
    BY <1>2, <1>3, <2>1, Zenon
<1>6. Len(k[c].args) \in Nat
  BY DEF CallTables, CallStates, Named
<1> DEFINE n == Len(k[c].args)
<1>7. n \in Nat /\ v.args = Pieces(n) /\ Given(k, c) = IF n = whole[c] THEN n ELSE 0
  BY <1>5, <1>6, Zenon DEF Given
<1> HIDE DEF n
<1>8. Len(v.args) = n /\ Pieces(0) = <<>>
  BY <1>7, PiecesAreCounted, Zenon
<1>9. Parsed(v) = IF n = whole[c] THEN v ELSE [v EXCEPT !.args = <<>>]
  BY <1>2, <1>8, Zenon DEF Parsed
<1>10. v = [block |-> c, args |-> Pieces(n)] /\ [v EXCEPT !.args = <<>>] = [block |-> c, args |-> <<>>]
  BY <1>2, <1>4, <1>7 DEF KeptCalls
<1> QED
  BY <1>7, <1>8, <1>9, <1>10, Zenon

\* What is said comes first.
LEMMA SaidIs ==
  /\ Said(999) \o Said(0) \in Seq(ContentBlocks)
  /\ \A i \in 1..Len(Said(999) \o Said(0)) :
       (Said(999) \o Said(0))[i].block \in Talk /\ (Said(999) \o Said(0))[i].args = <<>>
  /\ Len(Said(999) \o Said(0)) = 0 <=> \A b \in Talk : state.phase[b] = "Idle"
<1> DEFINE p == Said(999)
           q == Said(0)
           Empty(u) == u.block \in Talk /\ u.args = <<>>
<1>1. ASSUME NEW b \in Talk
      PROVE  /\ Said(b) \in Seq(ContentBlocks) /\ Len(Said(b)) \in Nat
             /\ \A i \in 1..Len(Said(b)) : Empty(Said(b)[i])
             /\ Len(Said(b)) = 0 <=> state.phase[b] = "Idle"
  <2> DEFINE t == [block |-> b, args |-> <<>>]
  <2>1. t \in ContentBlocks /\ Empty(t)
    BY DEF ContentBlocks, Blocks
  <2> HIDE DEF t, Empty
  <2>2. CASE state.phase[b] = "Idle"
    <3>1. Said(b) = <<>>
      BY <2>2, Zenon DEF Said
    <3> QED
      BY <2>2, <3>1
  <2>3. CASE state.phase[b] # "Idle"
    <3>1. Said(b) = <<t>>
      BY <2>3, Zenon DEF Said, t
    <3>2. <<t>> \in Seq(ContentBlocks) /\ Len(<<t>>) = 1 /\ \A i \in 1..1 : <<t>>[i] = t
      BY <2>1
    <3> QED
      BY <2>1, <2>3, <3>1, <3>2
  <2> QED
    BY <2>2, <2>3
<1>2. 999 \in Talk /\ 0 \in Talk /\ \A b \in Talk : b = 999 \/ b = 0
  BY DEF Talk
<1> HIDE DEF Empty
<1>3. /\ p \in Seq(ContentBlocks) /\ \A i \in 1..Len(p) : Empty(p[i])
      /\ q \in Seq(ContentBlocks) /\ \A i \in 1..Len(q) : Empty(q[i])
      /\ Len(p) \in Nat /\ Len(q) \in Nat
  BY <1>1, <1>2
<1>8. Len(p) = 0 <=> state.phase[999] = "Idle"
  BY <1>1, <1>2
<1>9. Len(q) = 0 <=> state.phase[0] = "Idle"
  BY <1>1, <1>2, Zenon
<1> HIDE DEF p, q
<1>4. /\ p \o q \in Seq(ContentBlocks) /\ Len(p \o q) = Len(p) + Len(q)
      /\ \A i \in 1..Len(p \o q) : (p \o q)[i] \in {p[j] : j \in 1..Len(p)} \cup {q[j] : j \in 1..Len(q)}
  BY <1>3, Joined
<1>5. \A i \in 1..Len(p \o q) : Empty((p \o q)[i])
  <2>1. \A u \in {p[j] : j \in 1..Len(p)} \cup {q[j] : j \in 1..Len(q)} : Empty(u)
    BY <1>3
  <2> QED
    BY <1>4, <2>1, Zenon
<1>6. Len(p \o q) = 0 <=> Len(p) = 0 /\ Len(q) = 0
  BY <1>3, <1>4
<1>7. Len(p \o q) = 0 <=> \A b \in Talk : state.phase[b] = "Idle"
  BY <1>2, <1>6, <1>8, <1>9, SMT
<1> QED
  BY <1>4, <1>5, <1>7 DEF p, q, Empty

\* The answer is what was said and, in their order, the calls with a name.
LEMMA CollectedIs ==
  ASSUME Numbered, NEW k \in CallTables, NEW r, r.uses \in Seq(KeptCalls), Finished(k, r)
  PROVE  \E m, n, order :
           /\ Lists(order, Named(k), n) /\ Consists(Collected(r), m, order, n, k)
           /\ m = 0 <=> \A b \in Talk : state.phase[b] = "Idle"
<1> DEFINE order == InOrder({u.block : u \in ToSet(r.uses)})
           n == Cardinality(Named(k))
           calls == [i \in DOMAIN order |-> Parsed(CHOOSE u \in ToSet(r.uses) : u.block = order[i])]
           talk == Said(999) \o Said(0)
           m == Len(talk)
           content == talk \o calls
<1>1. Collected(r) = content
  BY Zenon DEF Collected
<1>2. Lists(order, Named(k), n)
  <2>1. Named(k) \in SUBSET Calls /\ Named(k) \subseteq Nat /\ IsFiniteSet(Calls)
    BY DEF Numbered, Named
  <2>2. IsFiniteSet(Named(k))
    BY <2>1, FS_Subset
  <2> QED
    BY <2>1, <2>2, UsesAreNamed, InOrderLists, Zenon
<1>3. n \in Nat /\ DOMAIN order = 1..n /\ \A i \in 1..n : order[i] \in Named(k)
  BY <1>2, Zenon DEF Lists
<1> HIDE DEF order, n
<1>4. \A i \in 1..n : calls[i] = [block |-> order[i], args |-> Pieces(Given(k, order[i]))]
  BY <1>3, ParsedIs, Zenon
<1>5. \A c \in Named(k) : Given(k, c) \in Nat /\ c \in Calls
  BY DEF Named, Given, CallTables, CallStates
<1>6. \A i \in 1..n : calls[i] \in ContentBlocks
  <2>1. \A c \in Named(k) : [block |-> c, args |-> Pieces(Given(k, c))] \in ContentBlocks
    BY <1>5, PiecesAreCounted DEF ContentBlocks, Blocks
  <2> QED
    BY <1>3, <1>4, <2>1, Zenon
<1>7. DOMAIN calls = 1..n
  BY <1>3, Zenon
<1>8. calls = [i \in 1..n |-> calls[i]]
  <2>1. calls = [i \in DOMAIN calls |-> calls[i]]
    OBVIOUS
  <2> HIDE DEF calls
  <2> QED
    BY <1>7, <2>1, Zenon
<1>9. /\ talk \in Seq(ContentBlocks)
      /\ \A i \in 1..m : talk[i].block \in Talk /\ talk[i].args = <<>>
      /\ m = 0 <=> \A b \in Talk : state.phase[b] = "Idle"
  BY SaidIs
<1>13. m = Len(talk) /\ content = talk \o calls
  OBVIOUS
<1> HIDE DEF talk, calls, m, content
<1>10. calls \in Seq(ContentBlocks) /\ Len(calls) = n
  BY <1>3, <1>6, <1>7, <1>8
<1>11. /\ content \in Seq(ContentBlocks) /\ Len(content) = m + n /\ m \in Nat
       /\ \A i \in 1..m : content[i] = talk[i]
       /\ \A i \in 1..n : content[m + i] = calls[i]
  <2>1. talk \o calls \in Seq(ContentBlocks) /\ Len(talk \o calls) = m + n
    BY <1>9, <1>10, <1>13, Joined
  <2>2. \A i \in 1..m : (talk \o calls)[i] = talk[i]
    BY <1>9, <1>10, <1>13
  <2>3. \A i \in 1..n : (talk \o calls)[m + i] = calls[i]
    BY <1>9, <1>10, <1>13
  <2>4. m \in Nat
    BY <1>9, <1>13
  <2> QED
    BY <1>13, <2>1, <2>2, <2>3, <2>4, Zenon
<1>12. Consists(content, m, order, n, k)
  BY <1>3, <1>4, <1>9, <1>11, Zenon DEF Consists
<1> QED
  BY <1>1, <1>2, <1>9, <1>12, Zenon

Frames(s, a, q, b) == s = <<a>> \o q \o <<b>>

\* What is put in front of a sequence and behind it.
LEMMA Framed ==
  ASSUME NEW S, NEW a \in S, NEW b \in S, NEW q \in Seq(S), NEW n \in Nat, n = Len(q),
         NEW s, Frames(s, a, q, b)
  PROVE  /\ s \in Seq(S) /\ Len(s) = n + 2 /\ s[n + 2] = b /\ s[1] = a
         /\ \A i \in 1..n : s[i + 1] = q[i]
<1> DEFINE first == <<a>>
           last == <<b>>
           p == first \o q
           m == Len(first)
           l == Len(last)
<1>1. first \in Seq(S) /\ last \in Seq(S) /\ m = Len(first) /\ l = Len(last)
  OBVIOUS
<1>2. m = 1 /\ l = 1 /\ first[1] = a /\ last[1] = b
  OBVIOUS
<1>3. s = p \o last
  BY Zenon DEF Frames
<1>4. m \in Nat /\ l \in Nat
  OBVIOUS
<1> HIDE DEF first, last, m, l
<1>5. /\ p \in Seq(S) /\ Len(p) = m + n
      /\ \A i \in 1..m : p[i] = first[i]
      /\ \A i \in 1..n : p[m + i] = q[i]
  BY <1>1, <1>4
<1>6. p \in Seq(S) /\ Len(p) = n + 1 /\ p[1] = a /\ \A i \in 1..n : p[i + 1] = q[i]
  <2>1. \A i \in 1..n : m + i = i + 1
    BY <1>2
  <2>2. m + n = n + 1 /\ 1 \in 1..m
    BY <1>2
  <2> QED
    BY <1>2, <1>5, <2>1, <2>2, Zenon
<1> DEFINE j == n + 1
<1>7. p \in Seq(S) /\ Len(p) = j /\ j \in Nat
  BY <1>6
<1> HIDE DEF p, j
<1>8. /\ s \in Seq(S) /\ Len(s) = j + l
      /\ \A i \in 1..j : s[i] = p[i]
      /\ \A i \in 1..l : s[j + i] = last[i]
  <2>1. p \o last \in Seq(S) /\ Len(p \o last) = j + l
    <3>1. last \in Seq(S)
      BY <1>1, Zenon
    <3>2. Len(last) = l
      BY Zenon DEF l
    <3> QED
      BY <1>7, <3>1, <3>2, Joined, Zenon
  <2>2. \A i \in 1..j : (p \o last)[i] = p[i]
    BY <1>1, <1>4, <1>7
  <2>3. \A i \in 1..l : (p \o last)[j + i] = last[i]
    BY <1>1, <1>4, <1>7
  <2> QED
    BY <1>3, <2>1, <2>2, <2>3, Zenon
<1>9. 1 \in 1..j /\ j + l = n + 2 /\ j + 1 = n + 2 /\ 1 \in 1..l /\ \A i \in 1..n : i + 1 \in 1..j
  BY <1>2 DEF j
<1> QED
  BY <1>2, <1>6, <1>8, <1>9, Zenon

IsReplay(s, content, l) ==
  /\ l \in Nat /\ s \in Seq(StreamEvents) /\ Len(s) = 2 * l + 2
  /\ s[1] = MessageStart(content) /\ s[2 * l + 2] = MessageStop
  /\ \A j \in 1..l : /\ s[2 * j] = Start(content[j].block, content[j].args)
                     /\ s[2 * j + 1] = BlockStop(content[j].block)

\* The events of a replay.
LEMMA ReplayIs ==
  ASSUME NEW content \in Seq(ContentBlocks)
  PROVE  IsReplay(Replay(content), content, Len(content))
<1> DEFINE l == Len(content)
           s == Replay(content)
<1>0. l = Len(content)
  OBVIOUS
<1> DEFINE e(i) == LET c == content[(i + 1) \div 2]
                   IN IF i % 2 = 1 THEN Start(c.block, c.args) ELSE BlockStop(c.block)
           mid == [i \in 1..(2 * l) |-> e(i)]
<1>1. Frames(s, MessageStart(content), mid, MessageStop)
  BY Zenon DEF Replay, Frames
<1> HIDE DEF s
<1>2. l \in Nat /\ DOMAIN content = 1..l /\ \A j \in 1..l : content[j] \in ContentBlocks
  OBVIOUS
<1>3. \A c \in ContentBlocks : c.block \in Blocks /\ c.args \in Seq(Nat)
  BY DEF ContentBlocks
<1>4. ASSUME NEW i \in 1..(2 * l)
      PROVE  (i + 1) \div 2 \in 1..l
  BY <1>2
<1>5. ASSUME NEW i \in 1..(2 * l)
      PROVE  e(i) \in StreamEvents
  <2> DEFINE c == content[(i + 1) \div 2]
  <2>1. c.block \in Blocks /\ c.args \in Seq(Nat)
    BY <1>2, <1>3, <1>4, Zenon
  <2>2. Start(c.block, c.args) \in StreamEvents /\ BlockStop(c.block) \in StreamEvents
    BY <2>1, EventTypes, Zenon
  <2> QED
    BY <2>2, Zenon
<1>6. ASSUME NEW j \in 1..l
      PROVE  /\ 2 * j - 1 \in 1..(2 * l) /\ 2 * j \in 1..(2 * l)
             /\ e(2 * j - 1) = Start(content[j].block, content[j].args)
             /\ e(2 * j) = BlockStop(content[j].block)
  <2>1. 2 * j - 1 \in 1..(2 * l) /\ 2 * j \in 1..(2 * l)
    BY <1>2
  <2>2. ((2 * j - 1) + 1) \div 2 = j /\ (2 * j - 1) % 2 = 1
    BY <1>2
  <2>3. (2 * j + 1) \div 2 = j /\ (2 * j) % 2 # 1
    BY <1>2
  <2> QED
    BY <2>1, <2>2, <2>3, Zenon
<1> HIDE DEF e
<1>7. mid \in Seq(StreamEvents) /\ Len(mid) = 2 * l /\ \A i \in 1..(2 * l) : mid[i] = e(i)
  <2>1. 2 * l \in Nat
    BY <1>2
  <2> QED
    BY <1>5, <2>1
<1>8. MessageStart(content) \in StreamEvents /\ MessageStop \in StreamEvents
  BY EventTypes, Zenon
<1>10. /\ s \in Seq(StreamEvents) /\ Len(s) = 2 * l + 2 /\ s[2 * l + 2] = MessageStop
       /\ s[1] = MessageStart(content)
       /\ \A i \in 1..(2 * l) : s[i + 1] = mid[i]
  <2> DEFINE n == 2 * l
  <2>1. n \in Nat /\ Len(mid) = n /\ mid \in Seq(StreamEvents)
    BY <1>2, <1>7
  <2> HIDE DEF n, mid
  <2>2. /\ s \in Seq(StreamEvents) /\ Len(s) = n + 2 /\ s[n + 2] = MessageStop
        /\ s[1] = MessageStart(content)
        /\ \A i \in 1..n : s[i + 1] = mid[i]
    BY <1>1, <1>8, <2>1, Framed
  <2> QED
    BY <2>2 DEF n
<1> HIDE DEF mid
<1>13. ASSUME NEW j \in 1..l
       PROVE  /\ s[2 * j] = Start(content[j].block, content[j].args)
              /\ s[2 * j + 1] = BlockStop(content[j].block)
  <2>1. 2 * j = (2 * j - 1) + 1
    BY <1>2
  <2>2. s[2 * j] = e(2 * j - 1) /\ s[2 * j + 1] = e(2 * j)
    BY <1>6, <1>7, <1>10, <2>1, Zenon
  <2> QED
    BY <1>6, <2>2, Zenon
<1> QED
  <2>1. IsReplay(s, content, l)
    BY <1>2, <1>10, <1>13, Zenon DEF IsReplay
  <2> QED
    BY <2>1 DEF s

Passed(x, r, u) == x \in SlotReaders("slot") /\ x.open = {} /\ x.uses = Append(r.uses, u)

Silenced(x, r) ==
  /\ x \in SlotReaders("slot") /\ x.open = {}
  /\ r.open = {} => x.uses = r.uses
  /\ \A u : r.open = {u} => x.uses = Append(r.uses, u)

\* A block of what is said, replayed, takes the call out of the slot.
LEMMA TalkReplayed ==
  ASSUME NEW r \in SlotReaders("slot"), NEW b \in Talk
  PROVE  Silenced(Read("slot", Read("slot", r, Start(b, <<>>)), BlockStop(b)), r)
<1> DEFINE x == Read("slot", Read("slot", r, Start(b, <<>>)), BlockStop(b))
<1>1. x = Read("slot", r, BlockStop(b))
  <2>1. Read("slot", r, Start(b, <<>>)) = r
    BY ReadsOther
  <2> QED
    BY <2>1, Zenon
<1> HIDE DEF x
<1>2. BlockStop(b) \in StreamEvents
  BY EventTypes, Zenon DEF Blocks
<1>3. x \in SlotReaders("slot")
  BY <1>1, <1>2, ReadKeeps, Zenon
<1>4. \/ /\ \A u \in r.open : Slot("slot", u.block) # Slot("slot", b)
         /\ x.open = r.open /\ x.uses = r.uses
      \/ \E u \in r.open : /\ Slot("slot", u.block) = Slot("slot", b)
                           /\ x.open = r.open \ {u} /\ x.uses = Append(r.uses, u)
  <2>1. Stops("slot", r, b, x)
    BY <1>1, ReadsStop, Zenon
  <2> QED
    BY <2>1, Zenon DEF Stops
<1>5. \A c, d : Slot("slot", c) = Slot("slot", d)
  BY Zenon DEF Slot
<1>6. \A u, v \in r.open : u = v
  BY <1>5, ReaderTypes, Zenon
<1>7. ASSUME r.open = {}, x.open = r.open, x.uses = r.uses
      PROVE  Silenced(x, r)
  <2>1. x.open = {} /\ x.uses = r.uses /\ \A u : r.open # {u}
    BY <1>7
  <2> QED
    BY <1>3, <2>1, Zenon DEF Silenced
<1>8. ASSUME NEW u \in r.open, x.open = r.open \ {u}, x.uses = Append(r.uses, u)
      PROVE  /\ x.open = {} /\ r.open # {}
             /\ \A v : r.open = {v} => x.uses = Append(r.uses, v)
  <2>1. x.open = {} /\ r.open # {}
    BY <1>6, <1>8, Zenon
  <2>2. \A v : r.open = {v} => v = u
    BY <1>8, Zenon
  <2> QED
    BY <1>8, <2>1, <2>2, Zenon
<1> QED
  <2>1. Silenced(x, r)
    BY <1>3, <1>4, <1>5, <1>7, <1>8, Zenon DEF Silenced
  <2> QED
    BY <2>1 DEF x

\* A call that is replayed takes the slot and is passed on.
LEMMA CallReplayed ==
  ASSUME Numbered, NEW r \in SlotReaders("slot"), NEW c \in Calls, NEW args \in Seq(Nat)
  PROVE  Passed(Read("slot", Read("slot", r, Start(c, args)), BlockStop(c)), r, [block |-> c, args |-> args])
<1> DEFINE x == Read("slot", Read("slot", r, Start(c, args)), BlockStop(c))
           y == Read("slot", r, Start(c, args))
           new == [block |-> c, args |-> args]
<1>1. c \notin Talk /\ c \in Blocks
  BY DEF Numbered, Blocks
<1>2. Start(c, args) \in StreamEvents /\ BlockStop(c) \in StreamEvents
  BY <1>1, EventTypes, Zenon
<1>3. \A u, v : Slot("slot", u) = Slot("slot", v)
  BY Zenon DEF Slot
<1>4. y.open = {new} /\ y.uses = r.uses
  <2>1. /\ y.open = {u \in r.open : Slot("slot", u.block) # Slot("slot", c)} \cup {new}
        /\ y.uses = r.uses
    <3>1. Starts("slot", r, c, args, y)
      BY <1>1, ReadsStart, Zenon
    <3> QED
      BY <3>1, Zenon DEF Starts
  <2>2. {u \in r.open : Slot("slot", u.block) # Slot("slot", c)} = {}
    BY <1>3, Zenon
  <2> QED
    BY <2>1, <2>2
<1>5. y \in SlotReaders("slot")
  BY <1>2, ReadKeeps, Zenon
<1>6. x = Read("slot", y, BlockStop(c))
  OBVIOUS
<1> HIDE DEF x, y, new
<1>7. x \in SlotReaders("slot")
  BY <1>2, <1>5, <1>6, ReadKeeps, Zenon
<1>8. \/ /\ \A u \in y.open : Slot("slot", u.block) # Slot("slot", c)
         /\ x.open = y.open /\ x.uses = y.uses
      \/ \E u \in y.open : /\ Slot("slot", u.block) = Slot("slot", c)
                           /\ x.open = y.open \ {u} /\ x.uses = Append(y.uses, u)
  <2>1. Stops("slot", y, c, x)
    BY <1>5, <1>6, ReadsStop, Zenon
  <2> QED
    BY <2>1, Zenon DEF Stops
<1>9. x.open = {} /\ x.uses = Append(r.uses, new)
  BY <1>3, <1>4, <1>8, Zenon
<1> QED
  BY <1>7, <1>9 DEF new, x, Passed

Pushed(x, a, content, m, n) ==
  /\ x \in SlotReaders("slot") /\ x.uses = a.uses
  /\ x.open = IF n > 0 THEN {content[m + n]} ELSE {}

\* The start of a replayed message leaves its last call in the slot.
LEMMA ContentIsPushed ==
  ASSUME Numbered, NEW k, NEW content, NEW m, NEW n, NEW order, Consists(content, m, order, n, k),
         \A i \in 1..n : order[i] \in Calls,
         NEW a \in SlotReaders("slot"), a.open = {}
  PROVE  Pushed(PushAll("slot", a, content), a, content, m, n)
<1>1. /\ m \in Nat /\ n \in Nat /\ content \in Seq(ContentBlocks) /\ Len(content) = m + n
      /\ \A i \in 1..m : content[i].block \in Talk
      /\ \A i \in 1..n : content[m + i] = [block |-> order[i], args |-> Pieces(Given(k, order[i]))]
  BY Zenon DEF Consists
<1> DEFINE l == m + n
           R == SlotReaders("slot")
           Good(j, y) == /\ y \in R /\ y.uses = a.uses
                         /\ y.open = IF j > m THEN {content[j]} ELSE {}
<1>2. /\ l \in Nat /\ DOMAIN content = 1..l /\ \A j \in 1..l : content[j] \in ContentBlocks
      /\ l > m <=> n > 0
  BY <1>1
<1>3. \A c \in ContentBlocks : c.block \in Blocks /\ c.args \in Seq(Nat)
  BY DEF ContentBlocks
<1>4. ASSUME NEW y \in R, NEW c \in ContentBlocks
      PROVE  /\ PushOutputBlock("slot", y, c.block, c.args) \in R
             /\ c.block \in Talk => PushOutputBlock("slot", y, c.block, c.args) = y
             /\ c.block \notin Talk =>
                  PushOutputBlock("slot", y, c.block, c.args)
                    = [y EXCEPT !.open = {u \in y.open : Slot("slot", u.block) # Slot("slot", c.block)}
                                            \cup {[block |-> c.block, args |-> c.args]}]
  <2>1. c.block \in Blocks /\ c.args \in Seq(Nat) /\ y \in SlotReaders("slot")
    BY <1>3
  <2> HIDE DEF R
  <2> DEFINE b == c.block
             args == c.args
             z == PushOutputBlock("slot", y, b, args)
  <2>2. b \in Blocks /\ args \in Seq(Nat)
    BY <2>1
  <2> HIDE DEF b, args
  <2>3. z \in SlotReaders("slot")
    BY <2>1, <2>2, PushKeeps, Zenon
  <2>4. b \in Talk => z = y
    BY Zenon DEF PushOutputBlock
  <2>5. b \notin Talk => z = [y EXCEPT !.open = {u \in y.open : Slot("slot", u.block) # Slot("slot", b)}
                                                  \cup {[block |-> b, args |-> args]}]
    BY Zenon DEF PushOutputBlock
  <2> QED
    BY <2>3, <2>4, <2>5, Zenon DEF R, b, args
<1>5. \A c \in ContentBlocks : [block |-> c.block, args |-> c.args] = c
  BY DEF ContentBlocks
<1>6. \A b, c : Slot("slot", b) = Slot("slot", c)
  BY Zenon DEF Slot
<1> HIDE DEF l
<1>7. PICK h \in [0..l -> R] : Pushings(h, "slot", a, content, l)
  <2>1. \A y \in R, j \in 1..l : PushOutputBlock("slot", y, content[j].block, content[j].args) \in R
    BY <1>2, <1>4, Zenon
  <2> HIDE DEF R
  <2>2. a \in R
    BY DEF R
  <2> QED
    BY <1>2, <2>1, <2>2, PushingIsStepwise
<1> DEFINE T == {j \in 0..l : Good(j, h[j])}
<1>8. 0 \in T
  <2>1. h[0] = a /\ 0 \in 0..l /\ ~(0 > m)
    BY <1>1, <1>2, <1>7 DEF Pushings
  <2> QED
    BY <2>1
<1>9. ASSUME NEW j \in 1..l, j - 1 \in T
      PROVE  j \in T
  <2> DEFINE y == h[j - 1]
             z == h[j]
             c == content[j]
  <2>1. /\ j \in 0..l /\ j - 1 \in 0..l /\ y \in R /\ c \in ContentBlocks
        /\ z = PushOutputBlock("slot", y, c.block, c.args) /\ Good(j - 1, y)
    BY <1>2, <1>7, <1>9 DEF Pushings
  <2> HIDE DEF y, z
  <2>2. z \in R
    BY <1>4, <2>1, Zenon
  <2>3. CASE j <= m
    <3>1. c.block \in Talk /\ ~(j > m) /\ ~(j - 1 > m)
      BY <1>1, <2>3
    <3>2. z = y
      BY <1>4, <2>1, <3>1, Zenon
    <3>3. Good(j, z)
      BY <2>1, <3>1, <3>2, Zenon
    <3> QED
      BY <2>1, <3>3 DEF z
  <2>4. CASE j > m
    <3>1. j - m \in 1..n /\ m + (j - m) = j
      BY <1>1, <2>4 DEF l
    <3>2. c.block = order[j - m]
      <4>1. content[m + (j - m)] = [block |-> order[j - m], args |-> Pieces(Given(k, order[j - m]))]
        BY <1>1, <3>1, Zenon
      <4>2. c = [block |-> order[j - m], args |-> Pieces(Given(k, order[j - m]))]
        BY <3>1, <4>1, Zenon
      <4> HIDE DEF c
      <4> QED
        BY <4>2
    <3>3. c.block \notin Talk
      BY <3>1, <3>2 DEF Numbered
    <3>4. z = [y EXCEPT !.open = {u \in y.open : Slot("slot", u.block) # Slot("slot", c.block)} \cup {c}]
      BY <1>4, <1>5, <2>1, <3>3, Zenon
    <3>5. {u \in y.open : Slot("slot", u.block) # Slot("slot", c.block)} \cup {c} = {c}
      BY <1>6
    <3>6. z.open = {c} /\ z.uses = y.uses
      <4>1. y \in CallReaders
        BY <2>1, Zenon DEF SlotReaders
      <4>2. z = [y EXCEPT !.open = {c}]
        BY <3>4, <3>5, Zenon
      <4> HIDE DEF c
      <4> QED
        BY <4>1, <4>2 DEF CallReaders
    <3>7. Good(j, z)
      BY <2>1, <2>2, <2>4, <3>6, Zenon
    <3> QED
      BY <2>1, <3>7 DEF z
  <2> QED
    BY <1>1, <2>3, <2>4
<1> HIDE DEF T
<1>10. l \in T
  <2>1. l \in 0..l
    BY <1>2
  <2> QED
    BY <1>2, <1>8, <1>9, <2>1, Along
<1>11. Good(l, PushAll("slot", a, content))
  BY <1>7, <1>10 DEF T, Pushings
<1> QED
  BY <1>2, <1>11, Zenon DEF l, Pushed

\* Something is said before the calls, so that the last of them is passed on first.
First(m, n) == IF m > 0 /\ n > 0 THEN 1 ELSE 0

\* What was passed on when j blocks were replayed.
Replayed(content, m, n, j, x) ==
  LET first == IF j = 0 THEN 0 ELSE First(m, n)
      others == IF j > m THEN j - m ELSE 0
  IN /\ x \in SlotReaders("slot")
     /\ x.open = IF j = 0 /\ n > 0 THEN {content[m + n]} ELSE {}
     /\ Len(x.uses) = first + others
     /\ first = 1 => x.uses[1] = content[m + n]
     /\ \A i \in 1..others : x.uses[first + i] = content[m + i]

OneLonger(p, q, u) ==
  Len(q) \in Nat /\ Len(p) = Len(q) + 1 /\ p[Len(q) + 1] = u /\ \A i \in 1..Len(q) : p[i] = q[i]

\* A sequence with one more call at its end, told by its length and elements.
LEMMA OneMore ==
  ASSUME NEW q \in Seq(KeptCalls), NEW u \in KeptCalls
  PROVE  OneLonger(Append(q, u), q, u)
BY DEF OneLonger

\* The next block is replayed.
LEMMA BlockReplayed ==
  ASSUME Numbered, NEW k, NEW content, NEW m, NEW n, NEW order, Consists(content, m, order, n, k),
         \A i \in 1..n : order[i] \in Calls,
         NEW j \in 1..(m + n), NEW r, Replayed(content, m, n, j - 1, r), NEW x,
         x = Read("slot", Read("slot", r, Start(content[j].block, content[j].args)),
                  BlockStop(content[j].block))
  PROVE  Replayed(content, m, n, j, x)
<1>1. /\ m \in Nat /\ n \in Nat /\ content \in Seq(ContentBlocks) /\ Len(content) = m + n
      /\ \A i \in 1..m : content[i].block \in Talk /\ content[i].args = <<>>
      /\ \A i \in 1..n : content[m + i] = [block |-> order[i], args |-> Pieces(Given(k, order[i]))]
  BY Zenon DEF Consists
<1> DEFINE c == content[j]
           first(i) == IF i = 0 THEN 0 ELSE First(m, n)
           others(i) == IF i > m THEN i - m ELSE 0
           last == content[m + n]
<1>2. /\ r \in SlotReaders("slot")
      /\ r.open = IF j - 1 = 0 /\ n > 0 THEN {last} ELSE {}
      /\ Len(r.uses) = first(j - 1) + others(j - 1)
      /\ first(j - 1) = 1 => r.uses[1] = last
      /\ \A i \in 1..others(j - 1) : r.uses[first(j - 1) + i] = content[m + i]
  BY Zenon DEF Replayed
<1>3. x = Read("slot", Read("slot", r, Start(c.block, c.args)), BlockStop(c.block))
  OBVIOUS
<1>4. c \in ContentBlocks /\ \A i \in 1..(m + n) : content[i] \in ContentBlocks
  BY <1>1
<1>5. r.uses \in Seq(KeptCalls)
  BY <1>2, ReaderTypes, Zenon
<1>6. n > 0 => last \in KeptCalls
  <2>1. n > 0 => n \in 1..n /\ m + n \in 1..(m + n)
    BY <1>1
  <2>2. n > 0 => last \in ContentBlocks /\ last.block = order[n] /\ order[n] \in Calls
    <3>1. n > 0 => last \in ContentBlocks /\ last = [block |-> order[n], args |-> Pieces(Given(k, order[n]))]
      BY <1>1, <1>4, <2>1, Zenon
    <3> HIDE DEF last
    <3> QED
      BY <2>1, <3>1
  <2> HIDE DEF last
  <2> QED
    BY <2>2 DEF ContentBlocks, KeptCalls
<1>7. j - 1 = 0 <=> j = 1
  OBVIOUS
<1> HIDE DEF c, last
<1>8. CASE j <= m
  <2>1. c.block \in Talk /\ c.args = <<>>
    BY <1>1, <1>8 DEF c
  <2>2. /\ x \in SlotReaders("slot") /\ x.open = {}
        /\ r.open = {} => x.uses = r.uses
        /\ \A u : r.open = {u} => x.uses = Append(r.uses, u)
    <3>1. x = Read("slot", Read("slot", r, Start(c.block, <<>>)), BlockStop(c.block))
      BY <1>3, <2>1, Zenon
    <3>2. Silenced(x, r)
      BY <1>2, <2>1, <3>1, TalkReplayed, Zenon
    <3> QED
      BY <3>2, Zenon DEF Silenced
  <2>3. others(j - 1) = 0 /\ others(j) = 0 /\ ~(j = 0) /\ m > 0 /\ first(j) = First(m, n)
    BY <1>1, <1>8
  <2>4. CASE j = 1 /\ n > 0
    <3>1. r.open = {last} /\ x.uses = Append(r.uses, last) /\ last \in KeptCalls
      BY <1>2, <1>6, <1>7, <2>2, <2>4, Zenon
    <3>2. Len(r.uses) = 0
      BY <1>2, <1>7, <2>3, <2>4
    <3>3. Len(x.uses) = 1 /\ x.uses[1] = last
      <4>1. Len(x.uses) = Len(r.uses) + 1 /\ x.uses[Len(r.uses) + 1] = last
        <5>1. OneLonger(Append(r.uses, last), r.uses, last)
          BY <1>5, <3>1, OneMore
        <5>2. OneLonger(x.uses, r.uses, last)
          BY <3>1, <5>1, Zenon
        <5> QED
          BY <5>2, Zenon DEF OneLonger
      <4> QED
        BY <3>2, <4>1
    <3>4. first(j) = 1
      BY <2>3, <2>4, Zenon DEF First
    <3>5. Len(x.uses) = first(j) + others(j)
      <4>1. 1 = 1 + 0
        OBVIOUS
      <4> QED
        BY <2>3, <3>3, <3>4, <4>1, Zenon
    <3>6. /\ x.open = IF j = 0 /\ n > 0 THEN {last} ELSE {}
          /\ \A i \in 1..others(j) : x.uses[first(j) + i] = content[m + i]
      BY <2>2, <2>3
    <3> QED
      BY <2>2, <3>3, <3>5, <3>6, Zenon DEF Replayed, last
  <2>5. CASE ~(j = 1 /\ n > 0)
    <3>1. r.open = {} /\ x.uses = r.uses
      BY <1>2, <1>7, <2>2, <2>5, Zenon
    <3>2. first(j) = first(j - 1)
      <4>1. CASE j = 1
        BY <1>7, <2>3, <2>5, <4>1, Zenon DEF First
      <4>2. CASE j # 1
        BY <1>7, <2>3, <4>2, Zenon
      <4> QED
        BY <4>1, <4>2
    <3>3. /\ Len(x.uses) = first(j) + others(j)
          /\ first(j) = 1 => x.uses[1] = last
          /\ \A i \in 1..others(j) : x.uses[first(j) + i] = content[m + i]
          /\ x.open = IF j = 0 /\ n > 0 THEN {last} ELSE {}
      BY <1>2, <2>2, <2>3, <3>1, <3>2, Zenon
    <3> QED
      BY <2>2, <3>3, Zenon DEF Replayed, last
  <2> QED
    BY <2>4, <2>5
<1>9. CASE j > m
  <2> DEFINE t == j - m
  <2>1. t \in 1..n /\ m + t = j /\ others(j) = t /\ others(j - 1) = t - 1 /\ t - 1 \in Nat
    BY <1>1, <1>9
  <2>2. c.block = order[t] /\ order[t] \in Calls /\ c.args \in Seq(Nat) /\ c \in KeptCalls
        /\ c = [block |-> c.block, args |-> c.args]
    <3>1. c = [block |-> order[t], args |-> Pieces(Given(k, order[t]))]
      BY <1>1, <2>1 DEF c
    <3>2. c.block = order[t] /\ order[t] \in Calls
      BY <2>1, <3>1
    <3> QED
      BY <1>4, <3>2 DEF ContentBlocks, KeptCalls
  <2>3. /\ x \in SlotReaders("slot") /\ x.open = {}
        /\ x.uses = Append(r.uses, [block |-> c.block, args |-> c.args])
    <3>1. Passed(x, r, [block |-> c.block, args |-> c.args])
      BY <1>2, <1>3, <2>2, CallReplayed, Zenon
    <3> QED
      BY <3>1, Zenon DEF Passed
  <2>4. x.uses = Append(r.uses, c)
    BY <2>2, <2>3, Zenon
  <2>5. first(j) = first(j - 1) /\ first(j) \in {0, 1}
    <3>1. j = 1 => m = 0
      BY <1>1, <1>9
    <3>2. m = 0 => ~(m > 0)
      OBVIOUS
    <3>3. First(m, n) \in {0, 1} /\ (m = 0 => First(m, n) = 0)
      BY <3>2 DEF First
    <3> HIDE DEF First
    <3> QED
      BY <3>1, <3>3
  <2> DEFINE f == first(j)
  <2>6. /\ Len(r.uses) = f + (t - 1)
        /\ f = 1 => r.uses[1] = last
        /\ \A i \in 1..(t - 1) : r.uses[f + i] = content[m + i]
    BY <1>2, <2>1, <2>5, Zenon
  <2>7. /\ Len(x.uses) = Len(r.uses) + 1 /\ x.uses[Len(r.uses) + 1] = c
        /\ \A i \in 1..Len(r.uses) : x.uses[i] = r.uses[i]
    <3>1. OneLonger(Append(r.uses, c), r.uses, c)
      BY <1>5, <2>2, OneMore
    <3>2. OneLonger(x.uses, r.uses, c)
      BY <2>4, <3>1, Zenon
    <3> QED
      BY <3>2, Zenon DEF OneLonger
  <2>8. f \in {0, 1} /\ t \in Nat /\ t >= 1
    BY <2>1, <2>5
  <2> HIDE DEF f, t
  <2>14. (f + (t - 1)) + 1 = f + t
    BY <2>8
  <2>9. Len(x.uses) = f + t
    BY <2>6, <2>7, <2>14, Zenon
  <2>10. f = 1 => x.uses[1] = last
    <3>1. f = 1 => 1 \in 1..(f + (t - 1))
      BY <2>8
    <3> QED
      BY <2>6, <2>7, <3>1, Zenon
  <2>11. ASSUME NEW i \in 1..t
         PROVE  x.uses[f + i] = content[m + i]
    <3>1. CASE i = t
      <4>1. (f + (t - 1)) + 1 = f + i
        BY <2>14, <3>1
      <4>2. content[m + i] = c
        BY <2>1, <3>1, Zenon DEF c, t
      <4> QED
        BY <2>6, <2>7, <4>1, <4>2, Zenon
    <3>2. CASE i # t
      <4>1. i \in 1..(t - 1) /\ f + i \in 1..(f + (t - 1))
        BY <2>8, <3>2
      <4> QED
        BY <2>6, <2>7, <4>1, Zenon
    <3> QED
      BY <3>1, <3>2
  <2>12. j # 0
    OBVIOUS
  <2>13. f = first(j) /\ others(j) = t
    BY <2>1, Zenon DEF f, t
  <2> QED
    BY <2>3, <2>9, <2>10, <2>11, <2>12, <2>13, Zenon DEF Replayed, last
<1> QED
  BY <1>1, <1>8, <1>9

\* What was passed on when all is replayed.
LEMMA ReplayGives ==
  ASSUME Numbered, NEW k, NEW content, NEW m, NEW n, NEW order, Consists(content, m, order, n, k),
         \A i \in 1..n : order[i] \in Calls,
         NEW x, x = ReadAll("slot", NewReader, Replay(content))
  PROVE  Replayed(content, m, n, m + n, x)
<1> DEFINE l == m + n
           s == Replay(content)
           z == 2 * l + 2
           R == SlotReaders("slot")
<1>1. m \in Nat /\ n \in Nat /\ content \in Seq(ContentBlocks) /\ Len(content) = l
  BY Zenon DEF Consists
<1>2. l \in Nat /\ z \in Nat
  BY <1>1
<1>3. l = Len(content) /\ s = Replay(content) /\ l = m + n
  BY <1>1
<1> HIDE DEF s, l
<1>4. /\ s \in Seq(StreamEvents) /\ Len(s) = z
      /\ s[1] = MessageStart(content) /\ s[z] = MessageStop
      /\ \A j \in 1..l : /\ s[2 * j] = Start(content[j].block, content[j].args)
                         /\ s[2 * j + 1] = BlockStop(content[j].block)
  <2>1. IsReplay(s, content, l)
    BY <1>1, <1>3, ReplayIs, Zenon
  <2> QED
    BY <2>1, Zenon DEF IsReplay
<1>5. z = 2 * l + 2
  OBVIOUS
<1> HIDE DEF z
<1>6. DOMAIN s = 1..z /\ \A i \in 1..z : s[i] \in StreamEvents
  BY <1>2, <1>4
<1>7. NewReader \in SlotReaders("slot") /\ NewReader.open = {} /\ Len(NewReader.uses) = 0
  BY DEF NewReader, SlotReaders, CallReaders
<1>8. PICK h \in [0..z -> R] : Readings(h, "slot", NewReader, s, z)
  <2>1. \A y \in R, i \in 1..z : Read("slot", y, s[i]) \in R
    BY <1>6, ReadKeeps, Zenon
  <2> HIDE DEF R
  <2>2. NewReader \in R
    BY <1>7 DEF R
  <2> QED
    BY <1>2, <1>6, <2>1, <2>2, ReadingIsStepwise
<1>9. h[0] = NewReader /\ (\A i \in 1..z : h[i] = Read("slot", h[i - 1], s[i])) /\ h[z] = x
  BY <1>3, <1>8, Zenon DEF Readings
<1> DEFINE T == {j \in 0..l : Replayed(content, m, n, j, h[2 * j + 1])}
<1>10. 0 \in T
  <2> DEFINE y == h[1]
  <2>1. 1 \in 1..z /\ 1 - 1 = 0 /\ 2 * 0 + 1 = 1 /\ 0 \in 0..l /\ 0 + 0 = 0 /\ ~(0 > m)
    BY <1>1, <1>2, <1>5
  <2>2. y = Read("slot", NewReader, MessageStart(content))
    BY <1>4, <1>9, <2>1, Zenon
  <2>3. y = PushAll("slot", NewReader, content)
    <3> DEFINE e == MessageStart(content)
    <3>1. e.kind = "message_start" /\ e.content = content
      BY DEF MessageStart
    <3> HIDE DEF e, y
    <3>2. Read("slot", NewReader, e) = PushAll("slot", NewReader, content)
      BY <3>1, Zenon DEF Read, PushAll
    <3> QED
      BY <2>2, <3>2 DEF e
  <2> HIDE DEF y
  <2>4. /\ y \in SlotReaders("slot") /\ y.uses = NewReader.uses
        /\ y.open = IF n > 0 THEN {content[m + n]} ELSE {}
    <3>1. Pushed(y, NewReader, content, m, n)
      BY <1>7, <2>3, ContentIsPushed, Zenon
    <3> QED
      BY <3>1, Zenon DEF Pushed
  <2>5. /\ Len(y.uses) = 0 /\ \A i \in 1..0 : FALSE
    BY <1>7, <2>4
  <2>6. 0 # 1 /\ (0 = 0)
    OBVIOUS
  <2>7. Replayed(content, m, n, 0, y)
    BY <2>1, <2>4, <2>5, <2>6, Zenon DEF Replayed
  <2> QED
    BY <2>1, <2>7, Zenon DEF y
<1>11. ASSUME NEW j \in 1..l, j - 1 \in T
       PROVE  j \in T
  <2> DEFINE y == h[2 * (j - 1) + 1]
             v == h[2 * j + 1]
  <2>1. /\ 2 * j \in 1..z /\ 2 * j + 1 \in 1..z /\ 2 * j - 1 = 2 * (j - 1) + 1 /\ (2 * j + 1) - 1 = 2 * j
        /\ j \in 0..l
    BY <1>2, <1>5
  <2>2. v = Read("slot", h[2 * j], s[2 * j + 1]) /\ h[2 * j] = Read("slot", y, s[2 * j])
    BY <1>9, <2>1, Zenon
  <2>3. v = Read("slot", Read("slot", y, Start(content[j].block, content[j].args)),
                 BlockStop(content[j].block))
    BY <1>4, <2>2, Zenon
  <2>4. Replayed(content, m, n, j - 1, y) /\ j \in 1..(m + n)
    BY <1>3, <1>11
  <2> HIDE DEF y, v
  <2>5. Replayed(content, m, n, j, v)
    BY <2>3, <2>4, BlockReplayed
  <2> QED
    BY <2>1, <2>5 DEF v
<1> HIDE DEF T
<1>12. l \in T
  <2>1. l \in 0..l
    BY <1>2
  <2> QED
    BY <1>2, <1>10, <1>11, <2>1, Along
<1> DEFINE y == h[2 * l + 1]
<1>13. Replayed(content, m, n, m + n, y)
  BY <1>3, <1>12 DEF T
<1>14. x = Read("slot", y, MessageStop)
  <2>1. z \in 1..z /\ z - 1 = 2 * l + 1
    BY <1>2, <1>5
  <2> QED
    BY <1>4, <1>9, <2>1, Zenon
<1> HIDE DEF y
<1>15. y \in SlotReaders("slot")
  BY <1>13, Zenon DEF Replayed
<1>16. x = [y EXCEPT !.saw_stop = TRUE] /\ x \in SlotReaders("slot")
  <2>1. MessageStop \in StreamEvents
    BY EventTypes, Zenon
  <2>2. Read("slot", y, MessageStop) = [y EXCEPT !.saw_stop = TRUE]
    BY <1>15, ReadsOther, Zenon
  <2>3. Read("slot", y, MessageStop) \in SlotReaders("slot")
    BY <1>15, <2>1, ReadKeeps, Zenon
  <2> QED
    BY <1>14, <2>2, <2>3, Zenon
<1>17. x.open = y.open /\ x.uses = y.uses
  <2>1. y \in CallReaders
    BY <1>15, Zenon DEF SlotReaders
  <2> QED
    BY <1>16, <2>1 DEF CallReaders
<1> QED
  BY <1>13, <1>16, <1>17, Zenon DEF Replayed

-----------------------------------------------------------------------------
(* What the agent loop is given.                                           *)

Positions(q, c) == {i \in DOMAIN q : q[i].block = c}

\* Two things that differ are two.
LEMMA TwoAreTwo ==
  ASSUME NEW a, NEW b, a # b
  PROVE  Cardinality({a, b}) = 2
<1>1. IsFiniteSet({a}) /\ Cardinality({a}) = 1
  BY FS_Singleton
<1>2. Cardinality({a} \cup {b}) = 1 + 1
  BY <1>1, FS_AddElement
<1>3. {a} \cup {b} = {a, b}
  OBVIOUS
<1>4. 1 + 1 = 2
  OBVIOUS
<1> QED
  BY <1>2, <1>3, <1>4, Zenon

\* An answer read as it comes gives each call with a name once.
LEMMA FinishedArrives ==
  ASSUME NEW k, NEW r, Finished(k, r)
  PROVE  /\ {u.block : u \in ToSet(r.uses)} = Named(k)
         /\ \A u \in ToSet(r.uses) : u.args = Pieces(Len(k[u.block].args))
         /\ \A c \in Named(k) : Cardinality(Positions(r.uses, c)) = 1
<1>1. \A u \in ToSet(r.uses) : u.args = Pieces(Len(k[u.block].args))
  <2>1. \A i \in DOMAIN r.uses : r.uses[i].args = Pieces(Len(k[r.uses[i].block].args))
    BY Zenon DEF Finished
  <2> QED
    BY <2>1, Zenon DEF ToSet
<1>2. ASSUME NEW c \in Named(k)
      PROVE  Cardinality(Positions(r.uses, c)) = 1
  <2>1. c \in Calls /\ k[c].named
    BY DEF Named
  <2>2. PICK i \in DOMAIN r.uses : r.uses[i].block = c
    BY <2>1, Zenon DEF Finished
  <2>3. \A j \in DOMAIN r.uses : r.uses[j].block = c => j = i
    BY <2>2, Zenon DEF Finished
  <2>4. Positions(r.uses, c) = {i}
    BY <2>2, <2>3, Zenon DEF Positions
  <2> QED
    BY <2>4, FS_Singleton
<1> QED
  BY <1>1, <1>2, UsesAreNamed

\* A replayed answer gives each call with a name, and the last of them once
\* more if something was said before.
LEMMA ReplayedArrives ==
  ASSUME Numbered, NEW k, NEW content, NEW m, NEW n, NEW order, Consists(content, m, order, n, k),
         Lists(order, Named(k), n), NEW x, Replayed(content, m, n, m + n, x)
  PROVE  /\ {u.block : u \in ToSet(x.uses)} = Named(k)
         /\ \A u \in ToSet(x.uses) : u.args = Pieces(Given(k, u.block))
         /\ \A c \in Named(k) : Cardinality(Positions(x.uses, c))
                                  = IF m # 0 /\ (\A d \in Named(k) : d <= c) THEN 2 ELSE 1
<1> DEFINE q == x.uses
           f == First(m, n)
           use(i) == [block |-> order[i], args |-> Pieces(Given(k, order[i]))]
<1>1. m \in Nat /\ n \in Nat /\ \A i \in 1..n : content[m + i] = use(i)
  BY Zenon DEF Consists
<1>2. /\ DOMAIN order = 1..n /\ \A i \in 1..n : order[i] \in Named(k)
      /\ \A c \in Named(k) : \E i \in 1..n : order[i] = c
      /\ \A i, j \in 1..n : i < j => order[i] < order[j]
  BY Zenon DEF Lists
<1>3. /\ f \in {0, 1} /\ (f = 1 => m # 0 /\ n \in 1..n /\ n > 0) /\ (f = 0 => m = 0 \/ n = 0)
      /\ m + n = 0 => f = 0
      /\ (IF m + n > m THEN (m + n) - m ELSE 0) = n
  BY <1>1 DEF First
<1>4. (IF m + n = 0 THEN 0 ELSE First(m, n)) = f
  BY <1>3, Zenon
<1> HIDE DEF f
<1>5. /\ q \in Seq(KeptCalls) /\ Len(q) = f + n
      /\ f = 1 => q[1] = content[m + n]
      /\ \A i \in 1..n : q[f + i] = content[m + i]
  <2>1. /\ x \in SlotReaders("slot") /\ Len(q) = f + n
        /\ f = 1 => q[1] = content[m + n]
        /\ \A i \in 1..n : q[f + i] = content[m + i]
    BY <1>3, <1>4, Zenon DEF Replayed
  <2> QED
    BY <2>1, ReaderTypes, Zenon
<1>6. DOMAIN q = 1..(f + n)
  <2>1. DOMAIN q = 1..Len(q)
    BY <1>5
  <2> QED
    BY <1>5, <2>1, Zenon
<1>7. /\ f = 1 => q[1] = use(n) /\ 1 \in DOMAIN q
      /\ \A i \in 1..n : q[f + i] = use(i) /\ f + i \in DOMAIN q
      /\ \A i \in DOMAIN q : \/ f = 1 /\ i = 1
                             \/ \E j \in 1..n : i = f + j
  <2>1. f = 1 => q[1] = use(n)
    BY <1>1, <1>3, <1>5, Zenon
  <2>2. \A i \in 1..n : q[f + i] = use(i)
    BY <1>1, <1>5, Zenon
  <2>3. /\ f = 1 => 1 \in 1..(f + n)
        /\ \A i \in 1..n : f + i \in 1..(f + n)
    BY <1>1, <1>3
  <2>4. ASSUME NEW i \in 1..(f + n), ~(f = 1 /\ i = 1)
        PROVE  \E j \in 1..n : i = f + j
    <3>1. i - f \in 1..n /\ i = f + (i - f)
      BY <1>1, <1>3, <2>4
    <3> QED
      BY <3>1, Zenon
  <2> QED
    BY <1>6, <2>1, <2>2, <2>3, <2>4, Zenon
<1> HIDE DEF q, use
<1>8. \A i : use(i).block = order[i] /\ use(i).args = Pieces(Given(k, order[i]))
  BY DEF use
<1>9. \A i \in DOMAIN q : \E j \in 1..n : q[i] = use(j)
  BY <1>3, <1>7, Zenon
<1>10. /\ {u.block : u \in ToSet(q)} = Named(k)
       /\ \A u \in ToSet(q) : u.args = Pieces(Given(k, u.block))
  <2>1. ToSet(q) = {q[i] : i \in DOMAIN q}
    BY Zenon DEF ToSet
  <2>2. ASSUME NEW u \in ToSet(q)
        PROVE  u.block \in Named(k) /\ u.args = Pieces(Given(k, u.block))
    <3>1. PICK j \in 1..n : u = use(j)
      BY <1>9, <2>1, Zenon
    <3> QED
      BY <1>2, <1>8, <3>1, Zenon
  <2>3. ASSUME NEW c \in Named(k)
        PROVE  \E u \in ToSet(q) : u.block = c
    <3>1. PICK i \in 1..n : order[i] = c
      BY <1>2
    <3>2. q[f + i] \in ToSet(q) /\ q[f + i].block = c
      BY <1>7, <1>8, <2>1, <3>1, Zenon
    <3> QED
      BY <3>2, Zenon
  <2> QED
    BY <2>2, <2>3, Zenon
<1>11. ASSUME NEW c \in Named(k)
       PROVE  Cardinality(Positions(q, c)) = IF m # 0 /\ (\A d \in Named(k) : d <= c) THEN 2 ELSE 1
  <2>1. PICK t \in 1..n : order[t] = c
    BY <1>2
  <2>2. \A i \in 1..n : order[i] \in Nat
    BY <1>2 DEF Numbered, Named
  <2>3. \A i \in 1..n : order[i] = c => i = t
    <3>1. ASSUME NEW i \in 1..n, order[i] = c
          PROVE  i = t
      <4>1. ~(i < t) /\ ~(t < i)
        BY <1>2, <2>1, <2>2, <3>1
      <4> QED
        BY <1>1, <4>1
    <3> QED
      BY <3>1
  <2>4. (\A d \in Named(k) : d <= c) <=> t = n
    <3>1. ASSUME t = n, NEW d \in Named(k)
          PROVE  d <= c
      <4>1. PICK i \in 1..n : order[i] = d
        BY <1>2
      <4>2. i < t \/ i = t
        BY <1>1, <3>1
      <4> QED
        BY <1>2, <2>1, <2>2, <4>1, <4>2
    <3>2. ASSUME t # n
          PROVE  \E d \in Named(k) : ~(d <= c)
      <4>1. n \in 1..n /\ t < n
        BY <1>1, <3>2
      <4>2. order[n] \in Named(k) /\ order[t] < order[n]
        BY <1>2, <4>1
      <4> QED
        BY <2>1, <2>2, <4>1, <4>2
    <3> QED
      BY <3>1, <3>2
  <2>5. f + t \in Positions(q, c)
    BY <1>7, <1>8, <2>1, Zenon DEF Positions
  <2>6. \A i \in Positions(q, c) : i = f + t \/ (f = 1 /\ i = 1)
    <3>1. ASSUME NEW i \in Positions(q, c), ~(f = 1 /\ i = 1)
          PROVE  i = f + t
      <4>1. i \in DOMAIN q /\ q[i].block = c
        BY DEF Positions
      <4>2. PICK j \in 1..n : i = f + j
        BY <1>7, <3>1, <4>1
      <4>3. order[j] = c
        BY <1>7, <1>8, <4>1, <4>2, Zenon
      <4> QED
        BY <2>3, <4>2, <4>3, Zenon
    <3> QED
      BY <3>1, Zenon
  <2>7. f = 1 => (1 \in Positions(q, c) <=> t = n)
    <3>1. ASSUME f = 1
          PROVE  1 \in DOMAIN q /\ q[1].block = order[n] /\ n \in 1..n
      BY <1>3, <1>7, <1>8, <3>1, Zenon
    <3>2. f = 1 => (order[n] = c <=> t = n)
      BY <2>1, <2>3, <3>1, Zenon
    <3>3. 1 \in Positions(q, c) <=> 1 \in DOMAIN q /\ q[1].block = c
      BY DEF Positions
    <3> QED
      BY <3>1, <3>2, <3>3, Zenon
  <2>8. CASE f = 1 /\ t = n
    <3>1. Positions(q, c) = {1, f + t}
      BY <2>5, <2>6, <2>7, <2>8, Zenon
    <3>2. 1 # f + t
      BY <1>1, <2>8
    <3> QED
      <4>1. Cardinality({1, f + t}) = 2
        BY <3>2, TwoAreTwo
      <4>2. m # 0 /\ \A d \in Named(k) : d <= c
        BY <1>3, <2>4, <2>8
      <4> QED
        BY <3>1, <4>1, <4>2, Zenon
  <2>9. CASE ~(f = 1 /\ t = n)
    <3>1. Positions(q, c) = {f + t}
      BY <2>5, <2>6, <2>7, <2>9, Zenon
    <3>2. Cardinality(Positions(q, c)) = 1
      BY <3>1, FS_Singleton
    <3>3. ~(m # 0 /\ t = n)
      BY <1>1, <1>3, <2>9
    <3> QED
      BY <2>4, <3>2, <3>3, Zenon
  <2> QED
    BY <2>8, <2>9
<1> QED
  BY <1>10, <1>11, Zenon DEF q

-----------------------------------------------------------------------------
(* The invariant.                                                          *)

Fits(d) == d \in CallPieces /\ Continues(state.calls[d.call], d)

\* The parts of a sequence with one piece.
LEMMA OnlyPiece ==
  ASSUME NEW x \in Nat
  PROVE  SubSeq(<<x>>, 1, 1) = <<x>> /\ SubSeq(<<x>>, 1, 0) = <<>>
<1> DEFINE s == <<x>>
<1>1. s \in Seq(Nat) /\ Len(s) = 1 /\ s[1] = x /\ s = [i \in 1..1 |-> x]
  OBVIOUS
<1> HIDE DEF s
<1>2. SubSeq(s, 1, 1) = [i \in 1..1 |-> s[i]]
  BY <1>1
<1>3. [i \in 1..1 |-> s[i]] = [i \in 1..1 |-> x]
  BY <1>1
<1>4. SubSeq(s, 1, 0) = <<>>
  BY <1>1
<1> QED
  BY <1>1, <1>2, <1>3, <1>4, Zenon DEF s

\* Each piece that arrives continues its call.
LEMMA PiecesFit ==
  ASSUME state \in StreamStates, Sound(state.calls), NEW c \in Calls, NEW d \in Deltas(c)
  PROVE  Fits(d)
<1> DEFINE v == state.calls[c]
           n == Len(v.args)
<1>1. v \in CallStates
  BY DEF StreamStates, CallTables
<1>2. n \in Nat /\ v.args \in Seq(Nat) /\ v.args = Pieces(n)
  BY <1>1 DEF CallStates, Sound
<1>3. PICK names \in {FALSE, ~v.named},
           args \in {<<>>, SubSeq(<<n + 1>>, 1, IF n < whole[c] THEN 1 ELSE 0)} :
        d = [call |-> c, names |-> names, args |-> args]
  <2>1. d \in {[call |-> c, names |-> names, args |-> args] :
                 names \in {FALSE, ~v.named},
                 args \in {<<>>, SubSeq(<<n + 1>>, 1, IF n < whole[c] THEN 1 ELSE 0)}}
    BY DEF Deltas
  <2> HIDE DEF v, n
  <2> QED
    BY <2>1
<1>4. names \in BOOLEAN
  BY <1>1, <1>3 DEF CallStates
<1>5. args = <<>> \/ args = <<n + 1>>
  <2>1. SubSeq(<<n + 1>>, 1, 1) = <<n + 1>> /\ SubSeq(<<n + 1>>, 1, 0) = <<>>
    <3>1. n + 1 \in Nat
      BY <1>2
    <3> QED
      BY <3>1, OnlyPiece, Zenon
  <2> HIDE DEF n
  <2> QED
    BY <1>3, <2>1, Zenon
<1>6. d \in CallPieces /\ d.call = c /\ d.args = args
  <2>1. args \in Seq(Nat)
    <3> HIDE DEF n
    <3>1. <<>> \in Seq(Nat) /\ <<n + 1>> \in Seq(Nat)
      BY <1>2
    <3> QED
      BY <1>5, <3>1, Zenon
  <2> QED
    BY <1>3, <1>4, <2>1 DEF CallPieces
<1> HIDE DEF v, n
<1>7. v.args \o args = Pieces(n + Len(args))
  <2>1. CASE args = <<>>
    <3>1. v.args \o <<>> = v.args /\ Len(<<>>) = 0 /\ n + 0 = n
      BY <1>2
    <3> QED
      BY <1>2, <2>1, <3>1, Zenon
  <2>2. CASE args = <<n + 1>>
    <3> DEFINE p == Pieces(n)
    <3>1. p \in Seq(Nat) /\ Len(p) = n /\ p = [i \in 1..n |-> i]
      BY <1>2, PiecesAreCounted, Zenon DEF Pieces
    <3> HIDE DEF p
    <3>2. p \o <<n + 1>> = [i \in 1..(n + 1) |-> i]
      <4>1. p \o <<n + 1>> = Append(p, n + 1)
        BY <1>2, <3>1
      <4>2. Append(p, n + 1) \in Seq(Nat) /\ Len(Append(p, n + 1)) = n + 1
        BY <1>2, <3>1
      <4>3. \A i \in 1..(n + 1) : Append(p, n + 1)[i] = i
        BY <1>2, <3>1
      <4>4. DOMAIN Append(p, n + 1) = 1..(n + 1)
        BY <1>2, <4>2
      <4> DEFINE x == Append(p, n + 1)
      <4>5. x = [i \in DOMAIN x |-> x[i]]
        BY <4>2
      <4> HIDE DEF x
      <4>6. x = [i \in 1..(n + 1) |-> i]
        BY <4>3, <4>4, <4>5, Zenon DEF x
      <4> QED
        BY <4>1, <4>6, Zenon DEF x
    <3>3. Len(<<n + 1>>) = 1
      OBVIOUS
    <3> QED
      BY <1>2, <2>2, <3>2, <3>3, Zenon DEF p, Pieces
  <2> QED
    BY <1>5, <2>1, <2>2
<1> QED
  BY <1>6, <1>7, Zenon DEF Fits, Continues, v, n

\* So does each of a chunk.
LEMMA ChunksFit ==
  ASSUME state \in StreamStates, Sound(state.calls), NEW talk \in Seq(Talk),
         NEW ds \in DeltaSeqs, NEW finish \in {"none", "tool_calls", "stop"}
  PROVE  [talk |-> talk, deltas |-> ds, finish |-> finish] \in ChunksOf(state)
<1> DEFINE all == UNION {Deltas(c) : c \in Calls}
           chunk == [talk |-> talk, deltas |-> ds, finish |-> finish]
<1>1. \A d \in all : Fits(d)
  BY PiecesFit
<1>2. ds \in {<<>>} \cup {<<d>> : d \in all} \cup {es \in all \X all : es[1].call # es[2].call}
  BY Zenon DEF DeltaSeqs
<1> HIDE DEF all
<1>3. \A d \in all : d \in CallPieces
  BY <1>1, Zenon DEF Fits
<1>4. ds \in Seq(CallPieces) /\ (\A i \in DOMAIN ds : ds[i] \in all)
        /\ \A i, j \in DOMAIN ds : i # j => ds[i].call # ds[j].call
  <2>1. CASE ds = <<>>
    BY <2>1
  <2>2. ASSUME NEW d \in all, ds = <<d>>
        PROVE  ds \in Seq(CallPieces) /\ (\A i \in DOMAIN ds : ds[i] \in all)
                 /\ \A i, j \in DOMAIN ds : i # j => ds[i].call # ds[j].call
    BY <1>3, <2>2
  <2>3. ASSUME ds \in all \X all, ds[1].call # ds[2].call
        PROVE  ds \in Seq(CallPieces) /\ (\A i \in DOMAIN ds : ds[i] \in all)
                 /\ \A i, j \in DOMAIN ds : i # j => ds[i].call # ds[j].call
    <3>1. PICK d \in all, e \in all : ds = <<d, e>>
      BY <2>3
    <3>2. d.call # e.call
      BY <2>3, <3>1
    <3>3. d \in CallPieces /\ e \in CallPieces
      BY <1>3
    <3>4. ds \in Seq(CallPieces) /\ DOMAIN ds = {1, 2} /\ ds[1] = d /\ ds[2] = e
      BY <3>1, <3>3
    <3> QED
      BY <3>2, <3>4
  <2> QED
    BY <1>2, <2>1, <2>2, <2>3
<1>6. \A i \in DOMAIN ds : Continues(state.calls[ds[i].call], ds[i])
  BY <1>1, <1>4, Zenon DEF Fits
<1>7. chunk.deltas = ds /\ chunk \in [talk : Seq(Talk), deltas : Seq(CallPieces), finish : {"none", "tool_calls", "stop"}]
  BY <1>4
<1> HIDE DEF chunk
<1>8. chunk \in ChunksOf(state)
  BY <1>4, <1>6, <1>7, Zenon DEF ChunksOf
<1> QED
  BY <1>8 DEF chunk

\* Between two chunks the reader of the events has been told all that came.
StreamInv ==
  /\ route \in Routes /\ chunks \in 0..MaxChunks /\ result \in {"none", "ok", "asks_again", "error"}
  /\ state \in StreamStates /\ Sound(state.calls)
  /\ reader.uses \in Seq(KeptCalls)
  /\ result = "none" => Resting(By, reader, state) /\ state.events = <<>>
  /\ CallsArrive

\* The terminal has one slot for all calls, the other readers one for each.
LEMMA ByIs == By \in {"slot", "map"} /\ (By = "map" <=> route # "terminal")
BY DEF By

\* A reader at the start of a stream is a reader.
LEMMA NewReaderIs ==
  ASSUME NEW by
  PROVE  NewReader \in SlotReaders(by) /\ NewReader.uses \in Seq(KeptCalls)
BY DEF NewReader, SlotReaders, CallReaders

\* The invariant holds at the start.
LEMMA StreamInvInit ==
  ASSUME Numbered
  PROVE  Init => StreamInv
<1> SUFFICES ASSUME Init
             PROVE  StreamInv
  OBVIOUS
<1> DEFINE fresh == [named |-> FALSE, args |-> <<>>, emitted |-> 0, started |-> FALSE, stopped |-> FALSE]
           k == [c \in Calls |-> fresh]
<1>1. /\ route \in Routes /\ chunks = 0 /\ reader = NewReader /\ result = "none"
      /\ state = [message_started |-> FALSE, phase |-> [b \in Talk |-> "Idle"], calls |-> k,
                  stop_reason |-> "none", events |-> <<>>]
  BY Zenon DEF Init
<1>2. fresh \in CallStates
  BY DEF CallStates
<1>3. Pieces(0) = <<>> /\ Len(<<>>) = 0 /\ 0 <= 0 /\ <<>> \in Seq(StreamEvents)
  BY DEF Pieces
<1>4. k \in CallTables /\ \A c \in Calls : k[c] = fresh
  BY <1>2 DEF CallTables
<1>5. /\ fresh.named = FALSE /\ fresh.args = <<>> /\ fresh.emitted = 0 /\ fresh.started = FALSE
      /\ fresh.stopped = FALSE
  OBVIOUS
<1> HIDE DEF fresh, k
<1>6. state \in StreamStates /\ state.calls = k /\ state.events = <<>>
  BY <1>1, <1>3, <1>4 DEF StreamStates
<1>7. Sound(k)
  BY <1>3, <1>4, <1>5, Zenon DEF Sound
<1>8. Settled(k) /\ Live(k) = {}
  BY <1>4, <1>5, Zenon DEF Settled, SettledCall, Live
<1>9. /\ NewReader.open = {} /\ NewReader.uses = <<>> /\ NewReader.blocks = {} /\ DOMAIN <<>> = {}
  BY DEF NewReader
<1>10. NewReader \in SlotReaders(By) /\ NewReader.uses \in Seq(KeptCalls)
  BY NewReaderIs
<1> DEFINE r == NewReader
<1> HIDE DEF r
<1>11. Told(By, k, r)
  BY <1>4, <1>5, <1>8, <1>9, Zenon DEF Told, r
<1>12. Matches(By, k, r) /\ Untaken(By, k, r)
  BY <1>8, <1>9, <1>11, Zenon DEF Matches, Untaken, r
<1>13. After(By, r, state) = r
  <2>1. MessageStop \in StreamEvents
    BY EventTypes, Zenon
  <2>2. ReadAll(By, r, <<>>) = r
    BY <1>3, <1>10, <2>1, ReadOneMore, Zenon DEF r
  <2> QED
    BY <1>6, <2>2, Zenon DEF After
<1>14. Resting(By, r, state)
  BY <1>4, <1>5, <1>6, <1>7, <1>8, <1>10, <1>12, <1>13, Zenon DEF Resting, Fine, StillOpen, r
<1>15. chunks \in 0..MaxChunks
  BY <1>1 DEF Numbered
<1>16. CallsArrive
  BY <1>1 DEF CallsArrive
<1> QED
  BY <1>1, <1>6, <1>7, <1>10, <1>14, <1>15, <1>16, Zenon DEF StreamInv, r

\* An answer that is at rest goes on at rest.
LEMMA ChunkKeeps ==
  ASSUME Numbered, StreamInv, Chunk
  PROVE  StreamInv'
<1>1. /\ result = "none" /\ chunks < MaxChunks /\ state.stop_reason = "none" /\ chunks' = chunks + 1
      /\ route' = route /\ whole' = whole /\ result' = result
  BY ZenonT(40) DEF Chunk
<1>2. PICK talk \in {<<>>, <<999>>, <<0>>}, ds \in DeltaSeqs, finish \in {"none", "tool_calls", "stop"} :
        Take(Ingest(state, [talk |-> talk, deltas |-> ds, finish |-> finish]))
  BY Zenon DEF Chunk
<1> DEFINE chunk == [talk |-> talk, deltas |-> ds, finish |-> finish]
           t == Ingest(state, chunk)
           by == By
           a == reader
<1>3. /\ route \in Routes /\ chunks \in 0..MaxChunks /\ state \in StreamStates /\ Sound(state.calls)
      /\ Resting(by, a, state)
  BY <1>1, Zenon DEF StreamInv
<1>4. chunk \in ChunksOf(state)
  <2>1. talk \in Seq(Talk)
    <3>1. CASE talk = <<>>
      BY <3>1
    <3>2. CASE talk = <<999>>
      BY <3>2 DEF Talk
    <3>3. CASE talk = <<0>>
      BY <3>3 DEF Talk
    <3> QED
      BY <1>2, <3>1, <3>2, <3>3
  <2>2. ds \in DeltaSeqs /\ finish \in {"none", "tool_calls", "stop"}
    BY <1>2
  <2> QED
    BY <1>3, <2>1, <2>2, ChunksFit, Zenon
<1>5. state' = [t EXCEPT !.events = <<>>] /\ reader' = After(by, a, t)
  BY <1>2, Zenon DEF Take, After
<1>6. by \in {"slot", "map"} /\ by' = by
  BY <1>1, ByIs DEF By
<1> HIDE DEF t, chunk, by, a
<1>7. Resting(by, a, t)
  BY <1>1, <1>3, <1>4, <1>6, IngestKeeps DEF t
<1>8. /\ a \in SlotReaders(by) /\ Fine(by, a, t) /\ StillOpen(by, a, t) /\ Settled(t.calls)
      /\ t.stop_reason = "none" => \A c \in Calls : ~t.calls[c].stopped
      /\ t \in StreamStates
  BY <1>7, Zenon DEF Resting, Fine
<1> DEFINE u == state'
           r == After(by, a, t)
<1>9. u = [t EXCEPT !.events = <<>>]
  BY <1>5
<1> HIDE DEF u
<1>10. /\ u \in StreamStates /\ u.calls = t.calls /\ u.stop_reason = t.stop_reason /\ u.events = <<>>
       /\ r \in SlotReaders(by) /\ After(by, r, u) = r
  BY <1>8, <1>9, TakenAway
<1>11. Resting(by, r, u)
  BY <1>8, <1>10, Zenon DEF Resting, Fine, StillOpen
<1>12. chunks' \in 0..MaxChunks
  BY <1>1, <1>3 DEF Numbered
<1>13. Sound(u.calls) /\ r.uses \in Seq(KeptCalls)
  BY <1>8, <1>10, ReaderTypes, Zenon DEF Fine
<1>14. CallsArrive'
  BY <1>1 DEF CallsArrive
<1>15. Resting(By, reader, state)'
  BY <1>5, <1>6, <1>11, Zenon DEF u, by
<1> QED
  BY <1>1, <1>3, <1>5, <1>10, <1>12, <1>13, <1>14, <1>15, Zenon DEF StreamInv, u

\* What CallsArrive says of an answer that was read to its end.
Arrive(rt, w, st, r) ==
  LET named == {c \in Calls : st.calls[c].named}
      uses == ToSet(r.uses)
      times(c) == Cardinality({i \in DOMAIN r.uses : r.uses[i].block = c})
  IN \/ rt = "terminal" /\ r.crowded
     \/ /\ {u.block : u \in uses} = named
        /\ \A u \in uses :
             LET came == Len(st.calls[u.block].args)
             IN u.args = Pieces(IF rt # "orchestrated" \/ came = w[u.block] THEN came ELSE 0)
        /\ \A c \in named :
             times(c) = IF /\ rt = "orchestrated"
                           /\ \E b \in Talk : st.phase[b] # "Idle"
                           /\ \A d \in named : d <= c
                        THEN 2 ELSE 1

\* CallsArrive, now and after a step, as an operator of the state.
LEMMA ArriveIs ==
  /\ CallsArrive <=> (result = "ok" => Arrive(route, whole, state, reader))
  /\ CallsArrive' <=> (result' = "ok" => Arrive(route', whole', state', reader'))
<1>1. CallsArrive <=> (result = "ok" => Arrive(route, whole, state, reader))
  BY Zenon DEF CallsArrive, Arrive
<1>2. CallsArrive' <=> (result' = "ok" => Arrive(route', whole', state', reader'))
  BY Zenon DEF CallsArrive, Arrive
<1> QED
  BY <1>1, <1>2

\* What arrives, when the reader has read as it came.
LEMMA ArrivesLive ==
  ASSUME NEW rt, rt # "orchestrated", NEW w, NEW st, NEW r, Finished(st.calls, r)
  PROVE  Arrive(rt, w, st, r)
<1> DEFINE k == st.calls
<1>1. Finished(k, r)
  OBVIOUS
<1> HIDE DEF k
<1>2. /\ {u.block : u \in ToSet(r.uses)} = Named(k)
      /\ \A u \in ToSet(r.uses) : u.args = Pieces(Len(k[u.block].args))
      /\ \A c \in Named(k) : Cardinality(Positions(r.uses, c)) = 1
  BY <1>1, FinishedArrives
<1> QED
  BY <1>2, Zenon DEF Arrive, Named, Positions, k

\* What arrives, when the answer was collected and replayed.
LEMMA ArrivesReplayed ==
  ASSUME Numbered, NEW st, NEW content, NEW m, NEW n, NEW order,
         Consists(content, m, order, n, st.calls), Lists(order, Named(st.calls), n),
         NEW r, Replayed(content, m, n, m + n, r),
         m = 0 <=> \A b \in Talk : st.phase[b] = "Idle"
  PROVE  Arrive("orchestrated", whole, st, r)
<1> DEFINE k == st.calls
           talks == \E b \in Talk : st.phase[b] # "Idle"
<1>1. Consists(content, m, order, n, k) /\ Lists(order, Named(k), n)
  OBVIOUS
<1> HIDE DEF k
<1>2. /\ {u.block : u \in ToSet(r.uses)} = Named(k)
      /\ \A u \in ToSet(r.uses) : u.args = Pieces(Given(k, u.block))
      /\ \A c \in Named(k) : Cardinality(Positions(r.uses, c))
                               = IF m # 0 /\ (\A d \in Named(k) : d <= c) THEN 2 ELSE 1
  BY <1>1, ReplayedArrives
<1>3. m # 0 <=> talks
  OBVIOUS
<1>4. \A u \in ToSet(r.uses) :
        u.args = Pieces(IF "orchestrated" # "orchestrated" \/ Len(k[u.block].args) = whole[u.block]
                        THEN Len(k[u.block].args) ELSE 0)
  BY <1>2, Zenon DEF Given
<1> HIDE DEF talks
<1>5. \A c \in Named(k) :
        Cardinality(Positions(r.uses, c))
          = IF /\ "orchestrated" = "orchestrated" /\ talks /\ \A d \in Named(k) : d <= c THEN 2 ELSE 1
  <2>1. ASSUME NEW c \in Named(k)
        PROVE  Cardinality(Positions(r.uses, c)) = IF talks /\ (\A d \in Named(k) : d <= c) THEN 2 ELSE 1
    <3>1. Cardinality(Positions(r.uses, c)) = IF m # 0 /\ (\A d \in Named(k) : d <= c) THEN 2 ELSE 1
      BY <1>2
    <3>2. (m # 0 /\ (\A d \in Named(k) : d <= c)) <=> (talks /\ (\A d \in Named(k) : d <= c))
      BY <1>3, Zenon
    <3> QED
      BY <3>1, <3>2, Zenon
  <2> QED
    BY <2>1, Zenon
<1> QED
  BY <1>2, <1>4, <1>5, Zenon DEF Arrive, Named, Positions, k, talks

\* At the end of the body all arrives.
LEMMA EndKeeps ==
  ASSUME Numbered, StreamInv, BodyEnds
  PROVE  StreamInv'
<1> DEFINE t == Finish(state)
           by == By
           a == reader
           live == After(by, a, t)
           last == IF route = "orchestrated" THEN ReadAll("slot", NewReader, Replay(Collected(live))) ELSE live
<1>1. /\ result = "none" /\ route' = route /\ whole' = whole /\ chunks' = chunks
      /\ state' = [t EXCEPT !.events = <<>>] /\ reader' = last
      /\ result' = IF last.saw_stop THEN "ok" ELSE "asks_again"
  BY Zenon DEF BodyEnds, After
<1>2. /\ route \in Routes /\ chunks \in 0..MaxChunks /\ state \in StreamStates
      /\ Resting(by, a, state) /\ a \in SlotReaders(by)
  BY <1>1, Zenon DEF StreamInv, Resting
<1>3. by \in {"slot", "map"} /\ (by = "map" <=> route # "terminal")
  BY ByIs
<1>4. t = Finish(state) /\ live = After(by, a, t)
  OBVIOUS
<1> HIDE DEF t, by, a
<1>5. /\ Fine(by, a, t) /\ Settled(t.calls) /\ \A c \in Calls : Ended(t.calls[c])
      /\ \A b \in Talk : t.phase[b] = "Idle" <=> state.phase[b] = "Idle"
  BY <1>2, <1>3, <1>4, FinishKeeps
<1>6. t \in StreamStates /\ Sound(t.calls) /\ Matches(by, t.calls, live)
  BY <1>5, Zenon DEF Fine
<1> DEFINE u == state'
<1>7. u = [t EXCEPT !.events = <<>>]
  BY <1>1
<1> HIDE DEF u
<1>8. /\ u \in StreamStates /\ u.calls = t.calls /\ u.phase = t.phase
      /\ live \in SlotReaders(by)
  BY <1>2, <1>6, <1>7, TakenAway
<1> HIDE DEF live
<1> DEFINE k == t.calls
<1>9. k \in CallTables
  BY <1>6 DEF StreamStates
<1>10. Clear(by, live) => Finished(k, live)
  BY <1>5, <1>6, <1>8, <1>9, EndedIsFinished, Zenon
<1> HIDE DEF k
<1>11. result' \in {"none", "ok", "asks_again", "error"} /\ result' # "none"
  BY <1>1, Zenon
<1>12. CASE route # "orchestrated"
  <2>1. reader' = live
    BY <1>1, <1>12, Zenon
  <2>2. live.uses \in Seq(KeptCalls)
    BY <1>8, ReaderTypes, Zenon
  <2>3. CallsArrive'
    <3>1. CASE Clear(by, live)
      <4>1. Finished(state'.calls, reader')
        BY <1>8, <1>10, <2>1, <3>1, Zenon DEF u, k
      <4>2. route' # "orchestrated"
        BY <1>1, <1>12
      <4> QED
        BY <4>1, <4>2, ArrivesLive, ArriveIs, Zenon
    <3>2. CASE ~Clear(by, live)
      <4>1. route' = "terminal" /\ reader'.crowded
        <5>1. by # "map" /\ live.crowded
          BY <3>2, Zenon DEF Clear
        <5> QED
          BY <1>1, <1>3, <2>1, <5>1, Zenon
      <4> QED
        BY <4>1, ArriveIs, Zenon DEF Arrive
    <3> QED
      BY <3>1, <3>2
  <2> QED
    BY <1>1, <1>2, <1>6, <1>8, <1>11, <2>1, <2>2, <2>3, Zenon DEF StreamInv, u
<1>13. CASE route = "orchestrated"
  <2>1. reader' = ReadAll("slot", NewReader, Replay(Collected(live)))
    BY <1>1, <1>13, Zenon
  <2>2. Finished(k, live) /\ live.uses \in Seq(KeptCalls)
    <3>1. by = "map"
      BY <1>3, <1>13
    <3>2. Clear(by, live)
      BY <3>1, Zenon DEF Clear
    <3> QED
      BY <1>8, <1>10, <3>2, ReaderTypes, Zenon
  <2> DEFINE content == Collected(live)
  <2>3. PICK m, n, order :
          /\ Lists(order, Named(k), n) /\ Consists(content, m, order, n, k)
          /\ m = 0 <=> \A b \in Talk : state.phase[b] = "Idle"
    BY <1>9, <2>2, CollectedIs
  <2>4. reader' = ReadAll("slot", NewReader, Replay(content))
    BY <2>1
  <2> HIDE DEF content
  <2>5. \A i \in 1..n : order[i] \in Calls
    BY <2>3 DEF Lists, Named
  <2>6. Replayed(content, m, n, m + n, reader')
    BY <2>3, <2>4, <2>5, ReplayGives, Zenon
  <2>7. reader' \in SlotReaders("slot")
    BY <2>6, Zenon DEF Replayed
  <2>8. reader'.uses \in Seq(KeptCalls)
    BY <2>7, ReaderTypes, Zenon
  <2>9. CallsArrive'
    <3>1. state'.calls = k /\ state'.phase = t.phase
      BY <1>8, Zenon DEF u, k
    <3>2. m = 0 <=> \A b \in Talk : state'.phase[b] = "Idle"
      BY <1>5, <2>3, <3>1, Zenon
    <3>3. /\ Consists(content, m, order, n, state'.calls) /\ Lists(order, Named(state'.calls), n)
      BY <1>9, <2>3, <3>1, Zenon
    <3>4. route' = "orchestrated" /\ whole' = whole
      BY <1>1, <1>13
    <3>5. Arrive("orchestrated", whole, state', reader')
      BY <2>6, <3>2, <3>3, ArrivesReplayed, Zenon
    <3> QED
      BY <3>4, <3>5, ArriveIs, Zenon
  <2> QED
    BY <1>1, <1>2, <1>6, <1>8, <1>11, <2>8, <2>9, Zenon DEF StreamInv, u
<1> QED
  BY <1>12, <1>13

\* Every step keeps the invariant.
LEMMA StreamInvNext ==
  ASSUME Numbered
  PROVE  StreamInv /\ [Next]_vars => StreamInv'
<1> SUFFICES ASSUME StreamInv, [Next]_vars
             PROVE  StreamInv'
  OBVIOUS
<1>1. CASE Chunk
  BY <1>1, ChunkKeeps
<1>2. CASE BodyEnds
  BY <1>2, EndKeeps
<1>3. CASE BodyBreaks
  <2>1. /\ route' = route /\ whole' = whole /\ chunks' = chunks /\ state' = state
        /\ reader' = NewReader /\ result' = "error"
    BY <1>3, Zenon DEF BodyBreaks
  <2>2. CallsArrive'
    BY <2>1 DEF CallsArrive
  <2>3. NewReader.uses \in Seq(KeptCalls)
    BY NewReaderIs
  <2>4. "error" \in {"none", "ok", "asks_again", "error"} /\ "error" # "none"
    OBVIOUS
  <2> QED
    BY <2>1, <2>2, <2>3, <2>4, Zenon DEF StreamInv
<1>4. CASE UNCHANGED vars
  <2>1. /\ route' = route /\ whole' = whole /\ chunks' = chunks /\ state' = state
        /\ reader' = reader /\ result' = result
    BY <1>4, Zenon DEF vars
  <2>2. CallsArrive'
    <3>1. CallsArrive
      BY Zenon DEF StreamInv
    <3> QED
      BY <2>1, <3>1, ArriveIs, Zenon
  <2>3. By' = By
    BY <2>1 DEF By
  <2> QED
    BY <2>1, <2>2, <2>3, Zenon DEF StreamInv
<1> QED
  BY <1>1, <1>2, <1>3, <1>4, Zenon DEF Next

\* It gives the types.
LEMMA StreamInvGives == StreamInv => TypeOK /\ CallsArrive
<1> SUFFICES ASSUME StreamInv
             PROVE  TypeOK /\ CallsArrive
  OBVIOUS
<1>1. /\ route \in Routes /\ chunks \in 0..MaxChunks /\ result \in {"none", "ok", "asks_again", "error"}
      /\ state \in StreamStates /\ Sound(state.calls) /\ reader.uses \in Seq(KeptCalls) /\ CallsArrive
  BY Zenon DEF StreamInv
<1>2. \A c \in Calls : state.calls[c].emitted \in 0..Len(state.calls[c].args)
  <2>1. ASSUME NEW c \in Calls
        PROVE  state.calls[c].emitted \in 0..Len(state.calls[c].args)
    <3>1. state.calls[c].emitted \in Nat /\ Len(state.calls[c].args) \in Nat
      BY <1>1 DEF StreamStates, CallTables, CallStates
    <3>2. state.calls[c].emitted <= Len(state.calls[c].args)
      BY <1>1, Zenon DEF Sound
    <3> QED
      BY <3>1, <3>2
  <2> QED
    BY <2>1
<1>3. \A i \in DOMAIN reader.uses : reader.uses[i].block \in Calls
  <2>1. ASSUME NEW i \in DOMAIN reader.uses
        PROVE  reader.uses[i].block \in Calls
    <3>1. reader.uses[i] \in KeptCalls
      BY <1>1, Elements
    <3> QED
      BY <3>1 DEF KeptCalls
  <2> QED
    BY <2>1, Zenon
<1> QED
  BY <1>1, <1>2, <1>3, Zenon DEF TypeOK

\* For any blocks, pieces and chunks: the stream, its reader and the result keep
\* to their types, whatever the chunks bring.
THEOREM StreamTypeCorrect ==
  ASSUME Numbered
  PROVE  Spec => []TypeOK
<1> QED
  BY StreamInvInit, StreamInvNext, StreamInvGives, PTL DEF Spec

\* For any blocks, pieces and chunks: when an answer ends well, every call with a
\* name reached the agent loop once, with whole arguments where they came.
THEOREM AllCallsArrive ==
  ASSUME Numbered
  PROVE  Spec => []CallsArrive
<1> QED
  BY StreamInvInit, StreamInvNext, StreamInvGives, PTL DEF Spec
=============================================================================
