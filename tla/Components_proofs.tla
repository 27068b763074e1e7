--------------------------- MODULE Components_proofs ---------------------------
(***************************************************************************)
(* Proofs about the components that MCComponents checks side by side: the  *)
(* terminal, the orchestrator, the hosted conversations and the strict     *)
(* writes, proved here, and those with proofs of their own, whose theorems *)
(* are carried over.                                                       *)
(***************************************************************************)
EXTENDS MCComponents, Integers, TLAPS, WellFoundedInduction, SequenceTheorems, FiniteSetTheorems

(***************************************************************************)
(* Numbers.                                                                *)
(***************************************************************************)

\* A set of natural numbers that is not empty has a least element.
LEMMA Smallest ==
  ASSUME NEW T, T \subseteq Nat, T # {}
  PROVE  \E x \in T : \A y \in T : x <= y
<1>1. \E x \in T : \A y \in T : ~ (<<y, x>> \in OpToRel(<, Nat))
  BY NatLessThanWellFounded, WFMin, Zenon
<1>2. \A x, y \in T : <<y, x>> \in OpToRel(<, Nat) <=> y < x
  BY Zenon DEF OpToRel
<1>3. \E x \in T : \A y \in T : ~ (y < x)
  BY <1>1, <1>2, Zenon
<1> QED
  BY <1>3

\* Induction, stated for a set instead of a predicate.
LEMMA SetInduction ==
  ASSUME NEW S, 0 \in S, \A n \in Nat : n \in S => n + 1 \in S
  PROVE  Nat \subseteq S
<1> SUFFICES ASSUME Nat \ S # {}
             PROVE  FALSE
  OBVIOUS
<1>1. PICK x \in Nat \ S : \A y \in Nat \ S : x <= y
  BY Smallest
<1>2. x # 0 /\ x - 1 \in Nat /\ x - 1 \in S
  BY <1>1
<1> QED
  BY <1>1, <1>2

\* A bounded set of positive numbers that is not empty has a greatest element.
LEMMA Largest ==
  ASSUME NEW n \in Nat, NEW T, T \subseteq 1..n, T # {}
  PROVE  \E x \in T : \A y \in T : x >= y
<1> DEFINE R == {n - x : x \in T}
<1>1. R \subseteq Nat /\ R # {}
  <2>1. \A x \in T : n - x \in Nat
    OBVIOUS
  <2> QED
    BY <2>1, Zenon
<1>2. PICK r \in R : \A y \in R : r <= y
  BY <1>1, Smallest
<1>3. n - r \in T /\ \A y \in T : n - r >= y
  BY <1>2
<1> QED
  BY <1>3

\* The bound on what is typed, apart from the other bounds.
LEMMA MaxTypedIsNumber == MaxTyped \in Nat
  BY BoundsAreNumbers

(***************************************************************************)
(* The terminal front end.                                                 *)
(***************************************************************************)

(* FoldLeft goes through the messages in their order.                      *)

Greatest(r) == CHOOSE x \in r : \A y \in r : x >= y

\* f gives for any set of positions what the messages there make of a.
Iterates(f, a, s, n) ==
  f = [r \in SUBSET (1..n) |->
         IF r = {} THEN a ELSE Tui!ApplyTuiMsg(f[r \ {Greatest(r)}], s[Greatest(r)])]

\* h[k] is what the first k messages make of a.
Folds(h, a, s, n) ==
  /\ h[0] = a
  /\ \A k \in 1..n : h[k] = Tui!ApplyTuiMsg(h[k - 1], s[k])

\* Greatest names an element no other exceeds.
LEMMA GreatestIn ==
  ASSUME NEW n \in Nat, NEW r, r \subseteq 1..n, r # {}
  PROVE  Greatest(r) \in r /\ \A y \in r : Greatest(r) >= y
  BY Largest, Zenon DEF Greatest

\* A function that says for each set of positions what the messages there make
\* of a does exist.
LEMMA IteratesExist ==
  ASSUME NEW a, NEW s
  PROVE  \A n \in Nat : \E f : Iterates(f, a, s, n)
<1> DEFINE S == {n \in Nat : \E f : Iterates(f, a, s, n)}
<1>1. 0 \in S
  <2> DEFINE f == [r \in SUBSET (1..0) |-> a]
  <2>1. \A r \in SUBSET (1..0) : r = {}
    OBVIOUS
  <2>2. Iterates(f, a, s, 0)
    BY <2>1, Zenon DEF Iterates
  <2> QED
    BY <2>2
<1>2. ASSUME NEW n \in Nat, n \in S
      PROVE  n + 1 \in S
  <2>1. PICK f : Iterates(f, a, s, n)
    BY <1>2
  <2> DEFINE m == n + 1
             g == [r \in SUBSET (1..m) |->
                     IF m \in r THEN Tui!ApplyTuiMsg(f[r \ {m}], s[m]) ELSE f[r]]
             body(r) == IF r = {} THEN a
                        ELSE Tui!ApplyTuiMsg(g[r \ {Greatest(r)}], s[Greatest(r)])
  <2>2. /\ m \in Nat /\ m \notin {}
        /\ \A r \in SUBSET (1..m) : m \notin r => r \in SUBSET (1..n)
        /\ \A r \in SUBSET (1..m) : r \ {m} \in SUBSET (1..n)
        /\ \A r \in SUBSET (1..n) : r \in SUBSET (1..m) /\ m \notin r
        /\ \A x, y \in 1..m : x >= y /\ y >= x => x = y
        /\ \A y \in 1..m : m >= y
    OBVIOUS
  <2>3. ASSUME NEW r \in SUBSET (1..n)
        PROVE  f[r] = IF r = {} THEN a
                      ELSE Tui!ApplyTuiMsg(f[r \ {Greatest(r)}], s[Greatest(r)])
    BY <2>1, Zenon DEF Iterates
  <2> HIDE DEF m
  <2>4. ASSUME NEW r \in SUBSET (1..m)
        PROVE  g[r] = body(r)
    <3>1. CASE m \in r
      <4>1. Greatest(r) \in r /\ Greatest(r) >= m
        BY <2>2, <3>1, GreatestIn
      <4>2. Greatest(r) = m
        BY <2>2, <3>1, <4>1
      <4>3. r \ {m} \in SUBSET (1..m) /\ m \notin r \ {m} /\ r # {}
        BY <2>2, <3>1
      <4>4. g[r \ {m}] = f[r \ {m}]
        BY <4>3, Zenon
      <4>5. body(r) = Tui!ApplyTuiMsg(g[r \ {m}], s[m])
        BY <4>2, <4>3, Zenon
      <4> QED
        BY <3>1, <4>4, <4>5, Zenon
    <3>2. CASE m \notin r
      <4>1. r \in SUBSET (1..n)
        BY <2>2, <3>2
      <4>2. g[r] = f[r]
        BY <3>2, Zenon
      <4>3. CASE r = {}
        BY <2>3, <4>1, <4>2, <4>3, Zenon
      <4>4. CASE r # {}
        <5> DEFINE q == r \ {Greatest(r)}
        <5>1. q \in SUBSET (1..n)
          BY <4>1
        <5>2. g[q] = f[q]
          BY <2>2, <5>1, Zenon
        <5>3. f[r] = Tui!ApplyTuiMsg(f[q], s[Greatest(r)])
          BY <2>3, <4>1, <4>4, Zenon
        <5>4. body(r) = Tui!ApplyTuiMsg(g[q], s[Greatest(r)])
          BY <4>4, Zenon
        <5> QED
          BY <4>2, <5>2, <5>3, <5>4, Zenon
      <4> QED
        BY <4>3, <4>4
    <3> QED
      BY <3>1, <3>2
  <2>5. g = [r \in SUBSET (1..m) |-> body(r)]
    <3> HIDE DEF body
    <3> QED
      BY <2>4, Zenon
  <2>6. Iterates(g, a, s, m)
    BY <2>5, Zenon DEF Iterates
  <2> HIDE DEF g
  <2> QED
    BY <2>2, <2>6 DEF m
<1> HIDE DEF S
<1>3. Nat \subseteq S
  BY <1>1, <1>2, SetInduction
<1> QED
  BY <1>3 DEF S

\* The FoldLeft of Drain is the last of the states reached by applying the
\* messages of the channel one after another.
LEMMA FoldIsStepwise ==
  ASSUME NEW a, NEW M, NEW s \in Seq(M)
  PROVE  \E h : Folds(h, a, s, Len(s)) /\ Tui!FoldLeft(Tui!ApplyTuiMsg, a, s) = h[Len(s)]
<1> DEFINE n == Len(s)
           iter == CHOOSE f : Iterates(f, a, s, n)
           h == [k \in 0..n |-> iter[1..k]]
<1>0. n \in Nat /\ DOMAIN s = 1..n
  OBVIOUS
<1>1. Iterates(iter, a, s, n)
  BY <1>0, IteratesExist, Zenon
<1>2. Tui!FoldLeft(Tui!ApplyTuiMsg, a, s) = iter[1..n]
  BY <1>0, Zenon DEF Tui!FoldLeft, Tui!MapThenFoldSet, Tui!Max, Iterates, Greatest
<1> HIDE DEF iter, n
<1>3. h[0] = a
  <2>1. 0 \in 0..n /\ 1..0 = {} /\ {} \in SUBSET (1..n)
    BY <1>0
  <2>2. iter[{}] = a
    BY <1>1, <2>1, Zenon DEF Iterates
  <2> QED
    BY <2>1, <2>2, Zenon
<1>4. ASSUME NEW k \in 1..n
      PROVE  h[k] = Tui!ApplyTuiMsg(h[k - 1], s[k])
  <2> k \in Nat /\ k >= 1 /\ k <= n /\ n \in Nat
    BY <1>0
  <2>1. k \in 0..n /\ k - 1 \in 0..n /\ k \in 1..k /\ 1..k # {}
    OBVIOUS
  <2>2. 1..k \in SUBSET (1..n)
    OBVIOUS
  <2>3. (1..k) \ {k} = 1..(k - 1)
    OBVIOUS
  <2>4. Greatest(1..k) \in 1..k /\ Greatest(1..k) >= k
    BY <2>1, <2>2, GreatestIn, Zenon
  <2>5. Greatest(1..k) = k
    <3> HIDE DEF h
    <3> QED
      BY <2>4
  <2>6. iter[1..k] = Tui!ApplyTuiMsg(iter[(1..k) \ {Greatest(1..k)}], s[Greatest(1..k)])
    BY <1>1, <2>1, <2>2, Zenon DEF Iterates
  <2>7. iter[1..k] = Tui!ApplyTuiMsg(iter[1..(k - 1)], s[k])
    BY <2>5, <2>6, <2>3, Zenon
  <2> QED
    BY <2>1, <2>7, Zenon
<1>5. h[n] = iter[1..n]
  BY <1>0
<1> HIDE DEF h
<1>6. Folds(h, a, s, n)
  BY <1>3, <1>4 DEF Folds
<1>7. Tui!FoldLeft(Tui!ApplyTuiMsg, a, s) = h[n]
  BY <1>2, <1>5, Zenon
<1> QED
  BY <1>6, <1>7, Zenon DEF n
-----------------------------------------------------------------------------
(* The invariant.                                                          *)

Overlays == [kind : {"none", "picker", "tool", "swd"}, turn : Tui!Turns \cup {Tui!NoTurn}]
Apps     == [thinking : BOOLEAN, queue : Seq(Tui!Turns), pending : Tui!Turns \cup {Tui!NoTurn},
             overlay : Overlays]
Actions  == [do : {"none", "send"} \cup Tui!Commands, msg : Tui!Turns \cup {Tui!NoTurn}]
Threads  == [phase : Tui!Phases, base : Tui!Sessions, reply : {"none", "allow", "deny"}]
Messages == [kind : {"end", "preview"}, turn : Tui!Turns \cup {Tui!NoTurn}]

Typed ==
  /\ ui \in {"drain", "key", "outcome", "act"}
  /\ action \in Actions
  /\ app \in Apps
  /\ msgs \in Seq(Messages)
  /\ perms \in Seq(Tui!Turns)
  /\ outcomes \in Seq(BOOLEAN)
  /\ session \in Tui!Sessions
  /\ disk \in [own : Tui!Sessions, other : Tui!Sessions]
  /\ turn \in [Tui!Turns -> Threads]
  /\ typed \in 0..MaxTyped

\* An action lasts from the key to the end of the round, and what is to be
\* sent finds no turn shown as running.
Round ==
  /\ ui \in {"drain", "key"} => action = Tui!NoAction
  /\ action.do = "send" => action.msg # Tui!NoTurn /\ ~app.thinking
  /\ action.do # "send" => action.msg = Tui!NoTurn
  /\ app.pending = Tui!NoTurn

\* A message that waits or is to be sent does so once, and has no turn yet.
Distinct(q) == \A i, j \in DOMAIN q : i # j => q[i] # q[j]

Fresh ==
  /\ Distinct(app.queue)
  /\ \A i \in DOMAIN app.queue : /\ app.queue[i] <= typed
                                 /\ turn[app.queue[i]].phase = "none"
                                 /\ app.queue[i] # action.msg
  /\ action.do = "send" => action.msg <= typed /\ turn[action.msg].phase = "none"
  /\ \A t \in Tui!Turns : t > typed => turn[t].phase = "none"

\* What the file does not hold is still to be saved by the end of a turn.
SaveIsDue ==
  \/ replaced \/ disk.own = session \/ outcomes # <<>>
  \/ \E t \in Tui!Turns : turn[t].phase \in {"committed", "told"}

TuiInv == Typed /\ Round /\ Fresh /\ SaveIsDue
          /\ Tui!ThinkingIsOfATurn /\ Tui!QueueHasATurn /\ Tui!NothingTypedVanishes

-----------------------------------------------------------------------------
(* What the messages of one poll make of the UI.                           *)

\* One of the first k messages is the end of a turn; two of them are.
EndBy(s, k) == \E i \in 1..k : Tui!IsEnd(s[i])
TwoBy(s, k) == \E i, j \in 1..k : i # j /\ Tui!IsEnd(s[i]) /\ Tui!IsEnd(s[j])

\* b is what the first k messages make of a.
Applied(a, s, k, b) ==
  /\ b \in Apps
  /\ ~EndBy(s, k) => b.thinking = a.thinking /\ b.queue = a.queue /\ b.pending = Tui!NoTurn
  /\ EndBy(s, k) => ~b.thinking /\ (b.queue = <<>> \/ b.pending # Tui!NoTurn)
  /\ Distinct(b.queue)
  /\ \A i \in DOMAIN b.queue : b.queue[i] \in Tui!ToSet(a.queue) /\ b.queue[i] # b.pending
  /\ b.pending \in Tui!ToSet(a.queue) \cup {Tui!NoTurn}
  /\ ~TwoBy(s, k) => Tui!ToSet(a.queue) \subseteq Tui!ToSet(b.queue) \cup {b.pending}

\* What apply_tui_msg does with the end of a turn, after the k - 1 before it.
LEMMA EndIsNext ==
  ASSUME NEW a \in Apps, NEW s \in Seq(Messages), NEW k \in 1..Len(s),
         NEW b, Applied(a, s, k - 1, b), Tui!IsEnd(s[k])
  PROVE  Applied(a, s, k, Tui!ApplyTuiMsg(b, s[k]))
<1> DEFINE c == Tui!ApplyTuiMsg(b, s[k])
<1>0. b \in Apps /\ b.queue \in Seq(Tui!Turns) /\ k - 1 \in Nat /\ k \in Nat
  BY DEF Applied, Apps
<1>1. EndBy(s, k)
  BY DEF EndBy
<1>2. CASE b.queue = <<>>
  <2>1. c = [b EXCEPT !.thinking = FALSE]
    BY <1>0, <1>2 DEF Tui!ApplyTuiMsg, Tui!NextQueued, Apps
  <2>2. /\ c \in Apps /\ ~c.thinking /\ c.queue = b.queue /\ c.pending = b.pending
    BY <1>0, <2>1 DEF Apps
  <2>3. ~TwoBy(s, k) => ~TwoBy(s, k - 1)
    BY DEF TwoBy
  <2> HIDE DEF c
  <2>4. Applied(a, s, k, c)
    BY <1>1, <1>2, <2>2, <2>3 DEF Applied
  <2> QED
    BY <2>4 DEF c
<1>3. CASE b.queue # <<>>
  <2> DEFINE q == b.queue
  <2>1. c = [b EXCEPT !.thinking = FALSE, !.pending = Head(q), !.queue = Tail(q)]
    BY <1>0, <1>3 DEF Tui!ApplyTuiMsg, Tui!NextQueued, Apps
  <2>2. /\ Head(q) = q[1] /\ Head(q) \in Tui!Turns /\ Tail(q) \in Seq(Tui!Turns)
        /\ 1 \in DOMAIN q /\ DOMAIN q = 1..Len(q) /\ Len(q) \in Nat
        /\ DOMAIN Tail(q) = 1..(Len(q) - 1)
        /\ \A i \in 1..(Len(q) - 1) : Tail(q)[i] = q[i + 1]
    BY <1>0, <1>3
  <2>3. /\ c \in Apps /\ ~c.thinking /\ c.queue = Tail(q) /\ c.pending = Head(q)
    BY <1>0, <2>1, <2>2 DEF Apps
  <2>4. Head(q) # Tui!NoTurn
    BY <2>2 DEF Tui!Turns, Tui!NoTurn
  <2> HIDE DEF c, q
  <2>5. \A i \in 1..(Len(q) - 1) : i + 1 \in DOMAIN q /\ i + 1 # 1
    BY <2>2
  <2>6. Distinct(q) /\ \A i \in DOMAIN q : q[i] \in Tui!ToSet(a.queue)
    BY DEF Applied, q
  <2>7. Distinct(c.queue)
    BY <2>2, <2>3, <2>5, <2>6 DEF Distinct
  <2>8. \A i \in DOMAIN c.queue : c.queue[i] \in Tui!ToSet(a.queue) /\ c.queue[i] # c.pending
    BY <2>2, <2>3, <2>5, <2>6 DEF Distinct
  <2>9. c.pending \in Tui!ToSet(a.queue)
    BY <2>2, <2>3, <2>6
  <2>10. ASSUME ~TwoBy(s, k)
         PROVE  Tui!ToSet(a.queue) \subseteq Tui!ToSet(c.queue) \cup {c.pending}
    <3>1. ~EndBy(s, k - 1)
      BY <1>0, <2>10 DEF EndBy, TwoBy
    <3>2. a.queue = q
      BY <3>1 DEF Applied, q
    <3>3. \A i \in DOMAIN q : i = 1 \/ i - 1 \in 1..(Len(q) - 1)
      BY <2>2
    <3>4. \A i \in DOMAIN q : q[i] = c.pending \/ \E j \in DOMAIN c.queue : q[i] = c.queue[j]
      <4> SUFFICES ASSUME NEW i \in DOMAIN q, i # 1
                   PROVE  \E j \in DOMAIN c.queue : q[i] = c.queue[j]
        BY <2>2, <2>3
      <4>1. i - 1 \in 1..(Len(q) - 1) /\ (i - 1) + 1 = i
        BY <2>2, <3>3
      <4> QED
        BY <2>2, <2>3, <4>1
    <3> QED
      BY <3>2, <3>4 DEF Tui!ToSet
  <2>11. Applied(a, s, k, c)
    BY <1>1, <2>3, <2>4, <2>7, <2>8, <2>9, <2>10 DEF Applied
  <2> QED
    BY <2>11 DEF c
<1> QED
  BY <1>2, <1>3

\* What apply_tui_msg does with a write preview, after the k - 1 before it.
LEMMA PreviewIsNext ==
  ASSUME NEW a \in Apps, NEW s \in Seq(Messages), NEW k \in 1..Len(s),
         NEW b, Applied(a, s, k - 1, b), ~Tui!IsEnd(s[k])
  PROVE  Applied(a, s, k, Tui!ApplyTuiMsg(b, s[k]))
<1> DEFINE c == Tui!ApplyTuiMsg(b, s[k])
<1>0. b \in Apps /\ k - 1 \in Nat /\ k \in Nat /\ s[k] \in Messages
  BY DEF Applied
<1>1. EndBy(s, k) <=> EndBy(s, k - 1)
  <2>1. \A i \in 1..k : i = k \/ i \in 1..(k - 1)
    BY <1>0
  <2>2. \A i \in 1..(k - 1) : i \in 1..k
    BY <1>0
  <2> QED
    BY <2>1, <2>2 DEF EndBy
<1>2. ~TwoBy(s, k) => ~TwoBy(s, k - 1)
  BY DEF TwoBy
<1>3. c = [b EXCEPT !.overlay = Tui!Dialog("swd", s[k].turn)]
  BY DEF Tui!ApplyTuiMsg
<1>4. Tui!Dialog("swd", s[k].turn) \in Overlays
  BY <1>0 DEF Tui!Dialog, Overlays, Messages
<1>5. /\ c \in Apps /\ c.thinking = b.thinking /\ c.queue = b.queue /\ c.pending = b.pending
  BY <1>0, <1>3, <1>4 DEF Apps
<1> HIDE DEF c
<1>6. Applied(a, s, k, c)
  BY <1>1, <1>2, <1>5 DEF Applied
<1> QED
  BY <1>6 DEF c

\* What the whole channel does to the state of the interface.
LEMMA PollGives ==
  ASSUME NEW a \in Apps, a.pending = Tui!NoTurn, Distinct(a.queue), NEW s \in Seq(Messages)
  PROVE  Applied(a, s, Len(s), Tui!FoldLeft(Tui!ApplyTuiMsg, a, s))
<1>1. PICK h : Folds(h, a, s, Len(s)) /\ Tui!FoldLeft(Tui!ApplyTuiMsg, a, s) = h[Len(s)]
  BY FoldIsStepwise
<1> DEFINE S == {k \in Nat : k \in 0..Len(s) => Applied(a, s, k, h[k])}
<1>2. 0 \in S
  <2>1. h[0] = a /\ ~EndBy(s, 0)
    BY <1>1 DEF Folds, EndBy
  <2>2. a.queue \in Seq(Tui!Turns)
    BY DEF Apps
  <2>3. \A i \in DOMAIN a.queue : a.queue[i] \in Tui!ToSet(a.queue) /\ a.queue[i] # Tui!NoTurn
    <3>1. \A i \in DOMAIN a.queue : a.queue[i] \in Tui!Turns
      BY <2>2
    <3> QED
      BY <3>1 DEF Tui!ToSet, Tui!Turns, Tui!NoTurn
  <2>4. Applied(a, s, 0, a)
    BY <2>1, <2>3 DEF Applied
  <2> QED
    BY <2>1, <2>4
<1>3. ASSUME NEW k \in Nat, k \in S
      PROVE  k + 1 \in S
  <2> SUFFICES ASSUME k + 1 \in 0..Len(s)
               PROVE  Applied(a, s, k + 1, h[k + 1])
    OBVIOUS
  <2>1. k + 1 \in 1..Len(s) /\ (k + 1) - 1 = k /\ k \in 0..Len(s)
    OBVIOUS
  <2>2. Applied(a, s, (k + 1) - 1, h[k])
    BY <1>3, <2>1
  <2>3. h[k + 1] = Tui!ApplyTuiMsg(h[k], s[k + 1])
    BY <1>1, <2>1 DEF Folds
  <2>4. Applied(a, s, k + 1, Tui!ApplyTuiMsg(h[k], s[k + 1]))
    BY <2>1, <2>2, EndIsNext, PreviewIsNext, Zenon
  <2> QED
    BY <2>3, <2>4
<1> HIDE DEF S
<1>4. Nat \subseteq S
  BY <1>2, <1>3, SetInduction
<1> QED
  BY <1>1, <1>4 DEF S
-----------------------------------------------------------------------------
(* The steps.                                                              *)

\* Turns begin and end as before, and their ends are as far as they were.
SameTurns ==
  \A t \in Tui!Turns : /\ turn'[t].phase = "none" <=> turn[t].phase = "none"
                       /\ Tui!Unheard(t) => Tui!Unheard(t)'

\* Steps that neither add a message nor take one on.
LEMMA Kept ==
  ASSUME TuiInv, Typed', Round', SaveIsDue', SameTurns,
         app'.queue = app.queue, app'.thinking => app.thinking,
         UNCHANGED <<typed, doubled>>,
         action'.msg = action.msg, action'.do = "send" <=> action.do = "send"
  PROVE  TuiInv'
<1>1. \A i \in DOMAIN app.queue : app.queue[i] \in Tui!Turns
  BY DEF TuiInv, Typed, Apps
<1>2. Fresh'
  BY <1>1 DEF TuiInv, Fresh, SameTurns, Distinct, Typed, Actions, Round, Tui!NoTurn
<1>3. Tui!ThinkingIsOfATurn'
  BY DEF TuiInv, Tui!ThinkingIsOfATurn, SameTurns
<1>4. Tui!QueueHasATurn'
  BY DEF TuiInv, Tui!QueueHasATurn, SameTurns, Round
<1>5. \A m \in 1..typed : m \in Tui!Turns
  BY MaxTypedIsNumber DEF TuiInv, Typed, Tui!Turns
<1>6. Tui!NothingTypedVanishes'
  BY <1>5 DEF TuiInv, Tui!NothingTypedVanishes, SameTurns, Round
<1> QED
  BY <1>2, <1>3, <1>4, <1>6 DEF TuiInv

\* What happens to the threads that do not move.
LEMMA OneMoves ==
  ASSUME Typed, NEW t \in Tui!Turns, NEW p \in Tui!Phases \ {"none"},
         \/ Tui!Become(t, p)
         \/ Tui!Leave(t, p)
         \/ turn' = [turn EXCEPT ![t].phase = p, ![t].reply = "none"]
         \/ turn' = [turn EXCEPT ![t].phase = p, ![t].base = session]
  PROVE  /\ turn' \in [Tui!Turns -> Threads]
         /\ turn'[t].phase = p
         /\ \A u \in Tui!Turns : u # t => turn'[u] = turn[u]
<1>0. /\ turn[t].phase \in Tui!Phases /\ turn[t].base \in Tui!Sessions
      /\ turn[t].reply \in {"none", "allow", "deny"}
      /\ turn \in [Tui!Turns -> Threads] /\ turn[t] \in Threads
      /\ session \in Tui!Sessions /\ {} \in Tui!Sessions
  BY DEF Typed, Threads, Tui!Sessions
<1>1. CASE Tui!Become(t, p)
  BY <1>0, <1>1 DEF Tui!Become, Threads
<1>2. CASE Tui!Leave(t, p)
  BY <1>0, <1>2 DEF Tui!Leave, Threads
<1>3. CASE turn' = [turn EXCEPT ![t].phase = p, ![t].reply = "none"]
  BY <1>0, <1>3 DEF Threads
<1>4. CASE turn' = [turn EXCEPT ![t].phase = p, ![t].base = session]
  BY <1>0, <1>4 DEF Threads
<1> QED
  BY <1>1, <1>2, <1>3, <1>4

\* A reply to threads changes the phase of none.
LEMMA Repliers ==
  ASSUME Typed, NEW to, NEW what \in {"allow", "deny"}, Tui!Reply(to, what)
  PROVE  /\ turn' \in [Tui!Turns -> Threads]
         /\ \A t \in Tui!Turns : turn'[t].phase = turn[t].phase
<1>1. \A t \in Tui!Turns : turn[t] \in Threads
  BY DEF Typed
<1>2. \A t \in Tui!Turns : /\ [turn[t] EXCEPT !.reply = what] \in Threads
                           /\ [turn[t] EXCEPT !.reply = what].phase = turn[t].phase
  BY <1>1 DEF Threads
<1>3. turn' = [t \in Tui!Turns |-> IF t \in to THEN [turn[t] EXCEPT !.reply = what] ELSE turn[t]]
  BY DEF Tui!Reply
<1> QED
  BY <1>1, <1>2, <1>3

\* Messages are only added behind the others.
LEMMA Added ==
  ASSUME Typed, NEW m \in Messages, msgs' = Append(msgs, m)
  PROVE  /\ msgs' \in Seq(Messages)
         /\ \A i \in DOMAIN msgs : i \in DOMAIN msgs' /\ msgs'[i] = msgs[i]
         /\ \E i \in DOMAIN msgs' : msgs'[i] = m
<1>1. msgs \in Seq(Messages)
  BY DEF Typed
<1>2. /\ msgs' \in Seq(Messages) /\ Len(msgs') = Len(msgs) + 1
      /\ \A i \in 1..Len(msgs) : msgs'[i] = msgs[i]
      /\ msgs'[Len(msgs) + 1] = m
  BY <1>1, AppendProperties
<1>3. DOMAIN msgs = 1..Len(msgs) /\ DOMAIN msgs' = 1..(Len(msgs) + 1) /\ Len(msgs) \in Nat
  BY <1>1, <1>2
<1>4. Len(msgs) + 1 \in DOMAIN msgs' /\ \A i \in 1..Len(msgs) : i \in 1..(Len(msgs) + 1)
  BY <1>3
<1> QED
  BY <1>2, <1>3, <1>4

\* The messages a thread sends, and which of them end its turn.
LEMMA MessageKinds ==
  \A t \in Tui!Turns \cup {Tui!NoTurn} :
    /\ Tui!Msg("end", t) \in Messages /\ Tui!Msg("preview", t) \in Messages
    /\ Tui!IsEnd(Tui!Msg("end", t)) /\ Tui!Msg("end", t).turn = t
  BY DEF Tui!Msg, Messages, Tui!IsEnd

\* A thread that reports leaves an outcome to be taken.
LEMMA Reported ==
  ASSUME Typed, NEW t, Tui!Report(t)
  PROVE  outcomes' \in Seq(BOOLEAN) /\ outcomes' # <<>>
<1>1. outcomes \in Seq(BOOLEAN)
  BY DEF Typed
<1>2. \A b \in BOOLEAN : Append(outcomes, b) \in Seq(BOOLEAN) /\ Append(outcomes, b) # <<>>
  BY <1>1, AppendProperties, Zenon
<1>3. \E b \in BOOLEAN : outcomes' = Append(outcomes, b)
  BY Zenon DEF Tui!Report
<1> QED
  BY <1>2, <1>3, Zenon

\* No step of a turn's thread breaks the invariant.
LEMMA ThreadStepKeeps ==
  ASSUME NEW t \in Tui!Turns
  PROVE  TuiInv /\ Tui!ThreadStep(t) => TuiInv'
<1> SUFFICES ASSUME TuiInv, Tui!ThreadStep(t)
             PROVE  TuiInv'
  OBVIOUS
<1>0. Typed /\ Round /\ SaveIsDue
  BY DEF TuiInv
<1>1. \E p \in Tui!Phases \ {"none"} :
        /\ \/ Tui!Become(t, p) \/ Tui!Leave(t, p)
           \/ turn' = [turn EXCEPT ![t].phase = p, ![t].reply = "none"]
        /\ turn[t].phase # "none"
        /\ p = "told" => Tui!Unheard(t)'
        /\ turn[t].phase \in {"committed", "told"} => p \in {"committed", "told"} \/ outcomes' # <<>>
        /\ session' # session => p = "committed"
        /\ p = "over" => turn[t].phase = "told"
  <2>1. ASSUME msgs' = Append(msgs, Tui!Msg("end", t))
        PROVE  Tui!Unheard(t)'
    BY <1>0, <2>1, Added, MessageKinds DEF Tui!Unheard
  <2>2. CASE Tui!FailToBuild(t)
    BY <2>1, <2>2 DEF Tui!FailToBuild, Tui!Phases
  <2>3. CASE Tui!AskPermission(t)
    BY <2>3 DEF Tui!AskPermission, Tui!Phases, Tui!Working
  <2>4. CASE Tui!ShowBatch(t)
    BY <2>4 DEF Tui!ShowBatch, Tui!Phases, Tui!Working, Tui!uiVars
  <2>5. CASE Tui!TakeReply(t)
    <3>1. "running" \in Tui!Phases \ {"none"}
      BY DEF Tui!Phases
    <3>2. /\ turn' = [turn EXCEPT ![t].phase = "running", ![t].reply = "none"]
          /\ turn[t].phase = "asking" /\ session' = session
      BY <2>5 DEF Tui!TakeReply
    <3> QED
      BY <3>1, <3>2
  <2>6. CASE Tui!Commit(t)
    BY <2>6 DEF Tui!Commit, Tui!Phases, Tui!Working, Tui!uiVars
  <2>7. CASE Tui!Tell(t)
    BY <2>1, <2>7 DEF Tui!Tell, Tui!Phases, Tui!uiVars
  <2>8. CASE Tui!Report(t)
    <3>1. outcomes' # <<>>
      BY <1>0, <2>8, Reported
    <3> QED
      BY <2>8, <3>1 DEF Tui!Report, Tui!Phases, Tui!uiVars
  <2> QED
    BY <2>2, <2>3, <2>4, <2>5, <2>6, <2>7, <2>8 DEF Tui!ThreadStep
<1>2. PICK p \in Tui!Phases \ {"none"} :
        /\ \/ Tui!Become(t, p) \/ Tui!Leave(t, p)
           \/ turn' = [turn EXCEPT ![t].phase = p, ![t].reply = "none"]
        /\ turn[t].phase # "none"
        /\ p = "told" => Tui!Unheard(t)'
        /\ turn[t].phase \in {"committed", "told"} => p \in {"committed", "told"} \/ outcomes' # <<>>
        /\ session' # session => p = "committed"
        /\ p = "over" => turn[t].phase = "told"
  BY <1>1
<1>3. /\ turn' \in [Tui!Turns -> Threads]
      /\ turn'[t].phase = p
      /\ \A u \in Tui!Turns : u # t => turn'[u] = turn[u]
  BY <1>0, <1>2, OneMoves
<1>4. /\ UNCHANGED <<ui, action, app, typed, doubled, replaced, disk>>
      /\ perms' \in Seq(Tui!Turns) /\ outcomes' \in Seq(BOOLEAN) /\ session' \in Tui!Sessions
      /\ outcomes # <<>> => outcomes' # <<>>
  <2>1. perms \in Seq(Tui!Turns) /\ outcomes \in Seq(BOOLEAN) /\ session \in Tui!Sessions
    BY <1>0 DEF Typed
  <2>2. CASE Tui!AskPermission(t)
    BY <2>1, <2>2 DEF Tui!AskPermission
  <2>3. CASE Tui!Commit(t)
    <3>1. turn[t].base \cup {t} \in Tui!Sessions
      BY <1>0 DEF Typed, Threads, Tui!Sessions
    <3> QED
      BY <2>1, <2>3, <3>1 DEF Tui!Commit, Tui!uiVars
  <2>4. CASE Tui!Report(t)
    <3>1. outcomes' \in Seq(BOOLEAN) /\ outcomes' # <<>>
      BY <1>0, <2>4, Reported
    <3> QED
      BY <2>1, <2>4, <3>1 DEF Tui!Report, Tui!uiVars
  <2>5. CASE Tui!FailToBuild(t) \/ Tui!ShowBatch(t) \/ Tui!TakeReply(t) \/ Tui!Tell(t)
    BY <2>1, <2>5 DEF Tui!FailToBuild, Tui!ShowBatch, Tui!TakeReply, Tui!Tell, Tui!uiVars
  <2> QED
    BY <2>2, <2>3, <2>4, <2>5 DEF Tui!ThreadStep
<1>5. /\ msgs' \in Seq(Messages)
      /\ \A i \in DOMAIN msgs : i \in DOMAIN msgs' /\ msgs'[i] = msgs[i]
  <2>1. msgs \in Seq(Messages)
    BY <1>0 DEF Typed
  <2>2. CASE UNCHANGED msgs
    BY <2>1, <2>2
  <2>3. CASE \E m \in Messages : msgs' = Append(msgs, m)
    BY <1>0, <2>3, Added
  <2> QED
    BY <2>2, <2>3, MessageKinds
       DEF Tui!ThreadStep, Tui!FailToBuild, Tui!AskPermission, Tui!ShowBatch, Tui!TakeReply, Tui!Commit, Tui!Tell, Tui!Report
<1>6. Typed'
  BY <1>0, <1>3, <1>4, <1>5 DEF Typed
<1>7. Round'
  BY <1>0, <1>4 DEF Round
<1>8. SaveIsDue'
  <2>1. CASE session' # session
    BY <1>2, <1>3, <2>1 DEF SaveIsDue
  <2>2. CASE session' = session
    BY <1>0, <1>2, <1>3, <1>4, <2>2 DEF SaveIsDue
  <2> QED
    BY <2>1, <2>2
<1>9. SameTurns
  <2> SUFFICES ASSUME NEW u \in Tui!Turns
               PROVE  /\ turn'[u].phase = "none" <=> turn[u].phase = "none"
                      /\ Tui!Unheard(u) => Tui!Unheard(u)'
    BY DEF SameTurns
  <2>1. turn'[u].phase = "none" <=> turn[u].phase = "none"
    BY <1>2, <1>3
  <2>2. CASE u # t
    BY <1>3, <1>5, <2>1, <2>2 DEF Tui!Unheard
  <2>3. CASE u = t
    <3>1. Tui!Unheard(t) => Tui!Unheard(t)'
      BY <1>2, <1>3, <1>5 DEF Tui!Unheard, Tui!Phases
    <3> QED
      BY <2>1, <2>3, <3>1
  <2> QED
    BY <2>2, <2>3
<1> QED
  BY <1>4, <1>6, <1>7, <1>8, <1>9, Kept

\* What a poll leaves: the flag, the queue and the message to send are those
\* of the messages applied, and a dialog may have been opened.
LEMMA Drained ==
  ASSUME TuiInv, Tui!Drain
  PROVE  \E a \in Apps :
           /\ Applied(app, msgs, Len(msgs), a)
           /\ app' \in Apps /\ app'.thinking = a.thinking /\ app'.queue = a.queue
           /\ app'.pending = Tui!NoTurn
           /\ action' = IF a.pending # Tui!NoTurn THEN Tui!Send(a.pending) ELSE Tui!NoAction
           /\ ui' = IF a.pending # Tui!NoTurn THEN "outcome" ELSE "key"
           /\ perms' \in Seq(Tui!Turns)
           /\ msgs' = <<>>
           /\ ~doubled' => ~doubled /\ ~TwoBy(msgs, Len(msgs))
<1> DEFINE a == Tui!FoldLeft(Tui!ApplyTuiMsg, app, msgs)
<1>1. /\ app \in Apps /\ app.pending = Tui!NoTurn /\ Distinct(app.queue)
      /\ msgs \in Seq(Messages) /\ perms \in Seq(Tui!Turns)
  BY DEF TuiInv, Typed, Round, Fresh
<1>2. Applied(app, msgs, Len(msgs), a)
  BY <1>1, PollGives
<1> DEFINE ends == {i \in DOMAIN msgs : Tui!IsEnd(msgs[i])}
<1>3. /\ msgs' = <<>>
      /\ doubled' = (doubled \/ \E i, j \in ends : i # j)
      /\ IF a.pending # Tui!NoTurn
           THEN /\ app' = [a EXCEPT !.pending = Tui!NoTurn]
                /\ action' = Tui!Send(a.pending)
                /\ ui' = "outcome"
                /\ UNCHANGED perms
           ELSE /\ Tui!CheckPermission(a)
                /\ action' = Tui!NoAction
                /\ ui' = "key"
  BY Zenon DEF Tui!Drain
<1> HIDE DEF a
<1>4. a \in Apps
  BY <1>2 DEF Applied
<1>5. ~doubled' => ~doubled /\ ~TwoBy(msgs, Len(msgs))
  <2>1. DOMAIN msgs = 1..Len(msgs)
    BY <1>1
  <2>2. TwoBy(msgs, Len(msgs)) => \E i, j \in ends : i # j
    BY <2>1, Zenon DEF TwoBy
  <2> QED
    BY <1>3, <2>2, Zenon
<1>6. CASE a.pending # Tui!NoTurn
  <2>1. app' \in Apps /\ app'.thinking = a.thinking /\ app'.queue = a.queue
        /\ app'.pending = Tui!NoTurn
    BY <1>3, <1>4, <1>6 DEF Apps
  <2> QED
    BY <1>1, <1>2, <1>3, <1>4, <1>5, <1>6, <2>1
<1>7. CASE a.pending = Tui!NoTurn
  <2>1. Tui!CheckPermission(a)
    BY <1>3, <1>7
  <2>2. CASE a.overlay = Tui!NoOverlay /\ perms # <<>>
    <3>1. Head(perms) \in Tui!Turns /\ Tail(perms) \in Seq(Tui!Turns)
      BY <1>1, <2>2
    <3>2. Tui!Dialog("tool", Head(perms)) \in Overlays
      BY <3>1 DEF Tui!Dialog, Overlays
    <3>3. /\ app' = [a EXCEPT !.overlay = Tui!Dialog("tool", Head(perms))] /\ perms' = Tail(perms)
      BY <2>1, <2>2 DEF Tui!CheckPermission
    <3>4. app' \in Apps /\ app'.thinking = a.thinking /\ app'.queue = a.queue
          /\ app'.pending = a.pending
      BY <1>4, <3>2, <3>3 DEF Apps
    <3> QED
      BY <1>2, <1>3, <1>4, <1>5, <1>7, <3>1, <3>3, <3>4
  <2>3. CASE ~(a.overlay = Tui!NoOverlay /\ perms # <<>>)
    <3>1. app' = a /\ perms' = perms
      BY <2>1, <2>3 DEF Tui!CheckPermission
    <3> QED
      BY <1>1, <1>2, <1>3, <1>4, <1>5, <1>7, <3>1
  <2> QED
    BY <2>2, <2>3
<1> QED
  BY <1>6, <1>7

\* Applying the channel keeps the invariant: a queued message is sent on as the
\* turn it follows ends.
LEMMA DrainKeeps ==
  ASSUME TuiInv, Tui!Drain
  PROVE  TuiInv'
<1>1. PICK a \in Apps :
        /\ Applied(app, msgs, Len(msgs), a)
        /\ app' \in Apps /\ app'.thinking = a.thinking /\ app'.queue = a.queue
        /\ app'.pending = Tui!NoTurn
        /\ action' = IF a.pending # Tui!NoTurn THEN Tui!Send(a.pending) ELSE Tui!NoAction
        /\ ui' = IF a.pending # Tui!NoTurn THEN "outcome" ELSE "key"
        /\ perms' \in Seq(Tui!Turns)
        /\ msgs' = <<>>
        /\ ~doubled' => ~doubled /\ ~TwoBy(msgs, Len(msgs))
  BY Drained
<1>2. /\ Typed /\ Round /\ Fresh /\ SaveIsDue
      /\ Tui!ThinkingIsOfATurn /\ Tui!QueueHasATurn /\ Tui!NothingTypedVanishes
  BY DEF TuiInv
<1>3. turn' \in [Tui!Turns -> Threads] /\ \A t \in Tui!Turns : turn'[t].phase = turn[t].phase
  <2>1. \E to : Tui!Reply(to, "deny")
    BY Zenon DEF Tui!Drain
  <2> QED
    BY <1>2, <2>1, Repliers
<1>4. /\ UNCHANGED <<outcomes, session, disk, typed, replaced>>
      /\ action = Tui!NoAction
  BY <1>2 DEF Tui!Drain, Tui!inputs, Round
<1>5. /\ DOMAIN msgs = 1..Len(msgs) /\ DOMAIN msgs' = {}
      /\ app.queue \in Seq(Tui!Turns) /\ a.queue \in Seq(Tui!Turns)
      /\ a.pending \in Tui!Turns \cup {Tui!NoTurn}
  BY <1>1, <1>2 DEF Typed, Apps
<1>6. /\ ~EndBy(msgs, Len(msgs)) => /\ a.thinking = app.thinking /\ a.queue = app.queue
                                    /\ a.pending = Tui!NoTurn
      /\ EndBy(msgs, Len(msgs)) => ~a.thinking /\ (a.queue = <<>> \/ a.pending # Tui!NoTurn)
      /\ Distinct(a.queue)
      /\ \A i \in DOMAIN a.queue : a.queue[i] \in Tui!ToSet(app.queue) /\ a.queue[i] # a.pending
      /\ a.pending \in Tui!ToSet(app.queue) \cup {Tui!NoTurn}
      /\ ~TwoBy(msgs, Len(msgs)) => Tui!ToSet(app.queue) \subseteq Tui!ToSet(a.queue) \cup {a.pending}
  BY <1>1 DEF Applied
<1>7. /\ action'.do = IF a.pending # Tui!NoTurn THEN "send" ELSE "none"
      /\ action'.msg = a.pending
      /\ action' \in Actions
  BY <1>1, <1>5 DEF Tui!Send, Tui!NoAction, Actions
<1>8. Typed'
  BY <1>1, <1>2, <1>3, <1>4, <1>7 DEF Typed
<1>9. Round'
  BY <1>1, <1>6, <1>7 DEF Round
<1>10. Fresh'
  <2>1. \A m \in Tui!ToSet(app.queue) : m \in Tui!Turns /\ m <= typed /\ turn[m].phase = "none"
    BY <1>2, <1>5 DEF Fresh, Tui!ToSet
  <2>2. \A i \in DOMAIN a.queue : /\ a.queue[i] <= typed
                                  /\ turn'[a.queue[i]].phase = "none"
                                  /\ a.queue[i] # a.pending
    BY <1>3, <1>6, <2>1
  <2>3. a.pending # Tui!NoTurn => a.pending <= typed /\ turn'[a.pending].phase = "none"
    BY <1>3, <1>6, <2>1
  <2>4. \A t \in Tui!Turns : t > typed => turn'[t].phase = "none"
    BY <1>2, <1>3 DEF Fresh
  <2> QED
    BY <1>1, <1>4, <1>6, <1>7, <2>2, <2>3, <2>4 DEF Fresh
<1>11. SaveIsDue'
  BY <1>2, <1>3, <1>4 DEF SaveIsDue
<1>12. ASSUME ~EndBy(msgs, Len(msgs)), NEW t \in Tui!Turns, Tui!Unheard(t)
       PROVE  Tui!Unheard(t)'
  BY <1>3, <1>5, <1>12 DEF Tui!Unheard, EndBy
<1>13. Tui!ThinkingIsOfATurn'
  BY <1>1, <1>2, <1>6, <1>12 DEF Tui!ThinkingIsOfATurn
<1>14. Tui!QueueHasATurn'
  <2> SUFFICES ASSUME a.queue # <<>>, a.pending = Tui!NoTurn
               PROVE  \E t \in Tui!Turns : Tui!Unheard(t)'
    BY <1>1, <1>7 DEF Tui!QueueHasATurn
  <2>1. ~EndBy(msgs, Len(msgs)) /\ app.queue # <<>>
    BY <1>6
  <2>2. \E t \in Tui!Turns : Tui!Unheard(t)
    BY <1>2, <1>4, <2>1 DEF Tui!QueueHasATurn, Round, Tui!NoAction
  <2> QED
    BY <1>12, <2>1, <2>2
<1>15. Tui!NothingTypedVanishes'
  <2> SUFFICES ASSUME ~doubled', NEW m \in 1..typed
               PROVE  m \in Tui!ToSet(a.queue) \/ m = a.pending \/ turn'[m].phase # "none"
    BY <1>1, <1>4, <1>7 DEF Tui!NothingTypedVanishes
  <2>1. m \in Tui!Turns /\ m # Tui!NoTurn
    BY <1>2, BoundsAreNumbers DEF Typed, Tui!Turns, Tui!NoTurn
  <2>2. m \in Tui!ToSet(app.queue) \/ turn[m].phase # "none"
    BY <1>1, <1>2, <1>4, <2>1 DEF Tui!NothingTypedVanishes, Round, Tui!NoAction
  <2> QED
    BY <1>1, <1>3, <1>6, <2>1, <2>2
<1> QED
  BY <1>8, <1>9, <1>10, <1>11, <1>13, <1>14, <1>15 DEF TuiInv

\* A submitted message is sent, or queued behind the turn that thinks.
LEMMA SubmitKeeps ==
  ASSUME TuiInv, Tui!Submit
  PROVE  TuiInv'
<1>1. /\ Typed /\ Round /\ Fresh /\ SaveIsDue
      /\ Tui!ThinkingIsOfATurn /\ Tui!QueueHasATurn /\ Tui!NothingTypedVanishes
  BY DEF TuiInv
<1> DEFINE new == typed + 1
<1>2. /\ UNCHANGED <<msgs, perms, outcomes, session, disk, doubled, replaced, turn>>
      /\ typed' = new /\ ui = "key" /\ ui' = "outcome" /\ typed < MaxTyped
  BY DEF Tui!Submit, Tui!Key, Tui!KeepThreads
<1>3. /\ typed \in Nat /\ new \in Tui!Turns /\ new # Tui!NoTurn /\ new \in 0..MaxTyped /\ new > typed
      /\ 1..new = (1..typed) \cup {new}
  BY <1>1, <1>2, MaxTypedIsNumber DEF Typed, Tui!Turns, Tui!NoTurn
<1>4. action = Tui!NoAction /\ turn[new].phase = "none"
  BY <1>1, <1>2, <1>3 DEF Round, Fresh
<1>5. /\ app.queue \in Seq(Tui!Turns) /\ app \in Apps
      /\ \A i \in DOMAIN app.queue : app.queue[i] \in Tui!Turns /\ app.queue[i] <= typed
  BY <1>1 DEF Typed, Apps, Fresh
<1> HIDE DEF new
<1>6. \A t \in Tui!Turns : Tui!Unheard(t)' <=> Tui!Unheard(t)
  BY <1>2 DEF Tui!Unheard
<1>7. SaveIsDue'
  BY <1>1, <1>2 DEF SaveIsDue
<1>8. CASE app.thinking
  <2> DEFINE q == Append(app.queue, new)
  <2>1. app' = [app EXCEPT !.queue = q] /\ action' = action
    BY <1>8 DEF Tui!Submit, new
  <2>2. /\ q \in Seq(Tui!Turns) /\ Len(q) = Len(app.queue) + 1
        /\ \A i \in 1..Len(app.queue) : q[i] = app.queue[i]
        /\ q[Len(app.queue) + 1] = new /\ Len(app.queue) \in Nat
        /\ DOMAIN q = 1..(Len(app.queue) + 1) /\ DOMAIN app.queue = 1..Len(app.queue)
    BY <1>3, <1>5, AppendProperties
  <2> HIDE DEF q
  <2>3. app' \in Apps /\ app'.queue = q /\ app'.thinking /\ app'.pending = app.pending
    BY <1>5, <1>8, <2>1, <2>2 DEF Apps
  <2>4. \A i \in DOMAIN q : i \in 1..Len(app.queue) \/ i = Len(app.queue) + 1
    BY <2>2
  <2>5. \A i \in DOMAIN app.queue : i \in DOMAIN q /\ app.queue[i] # new
    BY <1>3, <1>5, <2>2
  <2>6. Typed'
    BY <1>1, <1>2, <1>3, <2>1, <2>3 DEF Typed
  <2>7. Round'
    BY <1>1, <1>2, <1>4, <2>1, <2>3 DEF Round, Tui!NoAction
  <2>8. Fresh'
    <3>1. Distinct(q)
      BY <1>1, <2>2, <2>4, <2>5 DEF Fresh, Distinct
    <3>2. \A i \in DOMAIN q : /\ q[i] <= new
                              /\ turn[q[i]].phase = "none"
                              /\ q[i] # action.msg
      <4>1. \A x \in Tui!Turns : x <= typed => x <= new
        BY <1>3 DEF Tui!Turns
      <4>2. new <= new
        BY <1>3
      <4>3. action.msg = Tui!NoTurn
        BY <1>4 DEF Tui!NoAction
      <4> QED
        BY <1>1, <1>3, <1>4, <1>5, <2>2, <2>4, <4>1, <4>2, <4>3 DEF Fresh
    <3>3. \A t \in Tui!Turns : t > new => t > typed
      BY <1>3 DEF Tui!Turns
    <3> QED
      BY <1>1, <1>2, <1>4, <2>1, <2>3, <3>1, <3>2, <3>3 DEF Fresh, Tui!NoAction
  <2>9. Tui!ThinkingIsOfATurn' /\ Tui!QueueHasATurn'
    BY <1>1, <1>6, <1>8 DEF Tui!ThinkingIsOfATurn, Tui!QueueHasATurn
  <2>10. Tui!NothingTypedVanishes'
    <3>1. new \in Tui!ToSet(q) /\ Tui!ToSet(app.queue) \subseteq Tui!ToSet(q)
      BY <2>2, <2>5 DEF Tui!ToSet
    <3> QED
      BY <1>1, <1>2, <1>3, <2>1, <2>3, <3>1 DEF Tui!NothingTypedVanishes
  <2> QED
    BY <1>7, <2>6, <2>7, <2>8, <2>9, <2>10 DEF TuiInv
<1>9. CASE ~app.thinking
  <2>1. action' = Tui!Send(new) /\ app' = app
    BY <1>9 DEF Tui!Submit, new
  <2>2. action' \in Actions /\ action'.do = "send" /\ action'.msg = new
    BY <1>3, <2>1 DEF Tui!Send, Actions
  <2>3. Typed'
    BY <1>1, <1>2, <1>3, <2>1, <2>2 DEF Typed
  <2>4. Round'
    BY <1>1, <1>2, <1>3, <1>9, <2>1, <2>2 DEF Round
  <2>5. Fresh'
    <3>1. \A x \in Tui!Turns : x <= typed => x <= new /\ x # new
      BY <1>3 DEF Tui!Turns
    <3>2. new <= new /\ \A t \in Tui!Turns : t > new => t > typed
      BY <1>3 DEF Tui!Turns
    <3> QED
      BY <1>1, <1>2, <1>4, <1>5, <2>1, <2>2, <3>1, <3>2 DEF Fresh
  <2>6. Tui!ThinkingIsOfATurn' /\ Tui!QueueHasATurn'
    BY <1>9, <2>1, <2>2 DEF Tui!ThinkingIsOfATurn, Tui!QueueHasATurn
  <2>7. Tui!NothingTypedVanishes'
    <3> SUFFICES ASSUME ~doubled', NEW m \in 1..new
                 PROVE  m \in Tui!ToSet(app.queue) \/ m = new \/ turn[m].phase # "none"
      BY <1>2, <2>1, <2>2 DEF Tui!NothingTypedVanishes
    <3>1. m \in 1..typed \/ m = new
      BY <1>3
    <3> QED
      BY <1>1, <1>2, <1>4, <3>1 DEF Tui!NothingTypedVanishes, Round, Tui!NoAction, Tui!NoTurn
  <2> QED
    BY <1>7, <2>3, <2>4, <2>5, <2>6, <2>7 DEF TuiInv
<1> QED
  BY <1>8, <1>9

\* Every other key leaves the messages where they are.
LEMMA OtherKeysKeep ==
  ASSUME TuiInv, Tui!NoKey \/ Tui!CancelKey \/ Tui!OpenPicker \/ Tui!PickerKey \/ Tui!DialogKey
  PROVE  TuiInv'
<1>1. Typed /\ Round /\ SaveIsDue /\ app \in Apps /\ app.overlay \in Overlays
  BY DEF TuiInv, Typed, Apps
<1>2. /\ UNCHANGED <<msgs, perms, outcomes, session, disk, doubled, replaced, typed>>
      /\ ui = "key" /\ ui' = "outcome" /\ action = Tui!NoAction
  BY <1>1 DEF Tui!NoKey, Tui!CancelKey, Tui!OpenPicker, Tui!PickerKey, Tui!DialogKey, Tui!Key, Tui!KeepThreads, Tui!inputs, Round
<1>3. turn' \in [Tui!Turns -> Threads] /\ \A t \in Tui!Turns : turn'[t].phase = turn[t].phase
  <2>1. CASE Tui!DialogKey
    <3>1. \E what \in {"allow", "deny"} : Tui!Reply({app.overlay.turn}, what)
      BY <2>1 DEF Tui!DialogKey
    <3> QED
      BY <1>1, <3>1, Repliers
  <2>2. CASE Tui!NoKey \/ Tui!CancelKey \/ Tui!OpenPicker \/ Tui!PickerKey
    <3>1. turn' = turn
      BY <2>2 DEF Tui!NoKey, Tui!CancelKey, Tui!OpenPicker, Tui!PickerKey
    <3> QED
      BY <1>1, <3>1 DEF Typed
  <2> QED
    BY <2>1, <2>2
<1>4. Tui!NoOverlay \in Overlays /\ Tui!Picker \in Overlays
  BY DEF Tui!NoOverlay, Tui!Picker, Overlays
<1>5. /\ app' \in Apps /\ app'.queue = app.queue /\ app'.pending = app.pending
      /\ app'.thinking => app.thinking
  BY <1>1, <1>4 DEF Tui!NoKey, Tui!CancelKey, Tui!OpenPicker, Tui!PickerKey, Tui!DialogKey, Apps
<1>6. action' \in Actions /\ action'.do # "send" /\ action'.msg = Tui!NoTurn
  <2>1. CASE Tui!PickerKey
    BY <2>1 DEF Tui!PickerKey, Tui!Do, Actions, Tui!Commands
  <2>2. CASE ~Tui!PickerKey
    BY <1>1, <1>2, <2>2 DEF Tui!NoKey, Tui!CancelKey, Tui!OpenPicker, Tui!DialogKey, Tui!NoAction, Typed
  <2> QED
    BY <2>1, <2>2
<1>7. Typed'
  BY <1>1, <1>2, <1>3, <1>5, <1>6 DEF Typed
<1>8. Round'
  BY <1>1, <1>2, <1>5, <1>6 DEF Round
<1>9. SaveIsDue'
  BY <1>1, <1>2, <1>3 DEF SaveIsDue
<1>10. SameTurns
  BY <1>2, <1>3 DEF SameTurns, Tui!Unheard
<1> QED
  BY <1>2, <1>5, <1>6, <1>7, <1>8, <1>9, <1>10, Kept DEF Tui!NoAction

\* Taking an outcome makes the save due, and the save is in the same pass.
LEMMA TakeOutcomeKeeps ==
  ASSUME TuiInv, Tui!TakeOutcome
  PROVE  TuiInv'
<1>1. /\ Typed /\ Round /\ SaveIsDue /\ app \in Apps /\ app.overlay \in Overlays
      /\ outcomes \in Seq(BOOLEAN) /\ disk \in [own : Tui!Sessions, other : Tui!Sessions]
      /\ session \in Tui!Sessions
  BY DEF TuiInv, Typed, Apps
<1>2. /\ UNCHANGED <<action, msgs, perms, session, typed, doubled>>
      /\ ui = "outcome" /\ ui' = "act"
  BY DEF Tui!TakeOutcome, Tui!inputs
<1>3. CASE outcomes = <<>>
  <2>1. UNCHANGED <<app, outcomes, disk, turn, replaced>>
    BY <1>3 DEF Tui!TakeOutcome
  <2>2. Typed' /\ Round' /\ SaveIsDue'
    BY <1>1, <1>2, <2>1 DEF Typed, Round, SaveIsDue
  <2>3. SameTurns
    BY <1>2, <2>1 DEF SameTurns, Tui!Unheard
  <2> QED
    BY <1>2, <2>1, <2>2, <2>3, Kept
<1>4. CASE outcomes # <<>>
  <2>1. /\ app' = [app EXCEPT !.thinking = FALSE,
                              !.overlay = IF Head(outcomes) THEN Tui!Picker ELSE @]
        /\ outcomes' = Tail(outcomes)
        /\ disk' = [disk EXCEPT !.own = session] /\ replaced' = FALSE
        /\ \E to : Tui!Reply(to, "deny")
    BY <1>4, Zenon DEF Tui!TakeOutcome, Tui!Save
  <2>2. turn' \in [Tui!Turns -> Threads] /\ \A t \in Tui!Turns : turn'[t].phase = turn[t].phase
    BY <1>1, <2>1, Repliers
  <2>3. (IF Head(outcomes) THEN Tui!Picker ELSE app.overlay) \in Overlays
    BY <1>1 DEF Tui!Picker, Overlays
  <2>4. /\ app' \in Apps /\ app'.queue = app.queue /\ app'.pending = app.pending
        /\ ~app'.thinking
    BY <1>1, <2>1, <2>3 DEF Apps
  <2>5. outcomes' \in Seq(BOOLEAN)
    <3>1. Tail(outcomes) \in Seq(BOOLEAN)
      BY <1>1, <1>4, HeadTailProperties
    <3> QED
      BY <2>1, <3>1
  <2>6. disk' \in [own : Tui!Sessions, other : Tui!Sessions] /\ disk'.own = session
    BY <1>1, <2>1
  <2>7. Typed' /\ Round' /\ SaveIsDue'
    BY <1>1, <1>2, <2>2, <2>4, <2>5, <2>6 DEF Typed, Round, SaveIsDue
  <2>8. SameTurns
    BY <1>2, <2>2 DEF SameTurns, Tui!Unheard
  <2> QED
    BY <1>2, <2>4, <2>7, <2>8, Kept
<1> QED
  BY <1>3, <1>4

\* The message gets its turn: nothing was shown as running.
LEMMA SendMessageKeeps ==
  ASSUME TuiInv, Tui!Perform, Tui!SendMessage
  PROVE  TuiInv'
<1>1. /\ Typed /\ Round /\ Fresh /\ SaveIsDue /\ Tui!NothingTypedVanishes
      /\ app \in Apps /\ app.queue \in Seq(Tui!Turns)
  BY DEF TuiInv, Typed, Apps
<1> DEFINE m == action.msg
<1>2. /\ action.do = "send" /\ m \in Tui!Turns /\ ~app.thinking /\ turn[m].phase = "none"
      /\ m <= typed /\ m # Tui!NoTurn
  BY <1>1 DEF Tui!SendMessage, Round, Fresh, Typed, Actions
<1>3. /\ UNCHANGED <<session, disk, msgs, replaced, perms, outcomes, typed, doubled>>
      /\ ui' = "drain" /\ action' = Tui!NoAction
      /\ app' = [app EXCEPT !.thinking = TRUE]
      /\ turn' = [turn EXCEPT ![m].phase = "building", ![m].base = session]
  BY <1>2 DEF Tui!Perform, Tui!SendMessage, Tui!inputs
<1> HIDE DEF m
<1>4. /\ turn' \in [Tui!Turns -> Threads]
      /\ turn'[m].phase = "building"
      /\ \A u \in Tui!Turns : u # m => turn'[u] = turn[u]
  <2>1. "building" \in Tui!Phases \ {"none"}
    BY DEF Tui!Phases
  <2> QED
    BY <1>1, <1>2, <1>3, <2>1, OneMoves
<1>5. /\ app' \in Apps /\ app'.queue = app.queue /\ app'.pending = app.pending
  BY <1>1, <1>3 DEF Apps
<1>6. Tui!NoAction \in Actions /\ Tui!NoAction.do = "none" /\ Tui!NoAction.msg = Tui!NoTurn
  BY DEF Tui!NoAction, Actions
<1>7. Typed'
  BY <1>1, <1>3, <1>4, <1>5, <1>6 DEF Typed
<1>8. Round'
  BY <1>1, <1>3, <1>5, <1>6 DEF Round
<1>9. Fresh'
  <2>1. \A i \in DOMAIN app.queue : app.queue[i] \in Tui!Turns /\ app.queue[i] # m
    BY <1>1, <1>2 DEF Fresh, m
  <2>2. \A i \in DOMAIN app.queue : app.queue[i] # Tui!NoTurn
    <3>1. \A i \in DOMAIN app.queue : app.queue[i] \in Tui!Turns
      BY <1>1
    <3>2. \A t \in Tui!Turns : t # Tui!NoTurn
      BY MaxTypedIsNumber DEF Tui!Turns, Tui!NoTurn
    <3> QED
      BY <3>1, <3>2
  <2>3. \A t \in Tui!Turns : t > typed => t # m
    BY <1>2, <1>1 DEF Tui!Turns, Typed
  <2> QED
    BY <1>1, <1>3, <1>4, <1>5, <1>6, <2>1, <2>2, <2>3 DEF Fresh
<1>10. SaveIsDue'
  BY <1>1, <1>2, <1>3, <1>4 DEF SaveIsDue
<1>11. PICK t \in Tui!Turns : t = m
  BY <1>2
<1>12. Tui!ThinkingIsOfATurn' /\ Tui!QueueHasATurn'
  <2>1. turn'[t].phase = "building"
    BY <1>4, <1>11
  <2>2. Tui!Unheard(t)'
    BY <2>1 DEF Tui!Unheard
  <2> QED
    BY <2>2 DEF Tui!ThinkingIsOfATurn, Tui!QueueHasATurn
<1>13. Tui!NothingTypedVanishes'
  <2> SUFFICES ASSUME ~doubled', NEW x \in 1..typed
               PROVE  x \in Tui!ToSet(app.queue) \/ turn'[x].phase # "none"
    BY <1>3, <1>5 DEF Tui!NothingTypedVanishes
  <2>1. x \in Tui!Turns /\ x # Tui!NoTurn
    BY <1>1, MaxTypedIsNumber DEF Typed, Tui!Turns, Tui!NoTurn
  <2>2. x \in Tui!ToSet(app.queue) \/ x = m \/ turn[x].phase # "none"
    BY <1>1, <1>3, <2>1 DEF Tui!NothingTypedVanishes, Round, m
  <2> QED
    BY <1>2, <1>4, <2>1, <2>2
<1> QED
  BY <1>7, <1>8, <1>9, <1>10, <1>12, <1>13 DEF TuiInv

\* Performing the action of the pass keeps the invariant.
LEMMA PerformKeeps ==
  ASSUME TuiInv, Tui!Perform
  PROVE  TuiInv'
<1>1. /\ Typed /\ Round /\ SaveIsDue /\ app \in Apps
      /\ session \in Tui!Sessions /\ disk \in [own : Tui!Sessions, other : Tui!Sessions]
  BY DEF TuiInv, Typed
<1>2. /\ UNCHANGED <<perms, outcomes, typed, doubled>>
      /\ ui' = "drain" /\ action' = Tui!NoAction
      /\ Tui!NoAction \in Actions /\ Tui!NoAction.do = "none" /\ Tui!NoAction.msg = Tui!NoTurn
  BY DEF Tui!Perform, Tui!inputs, Tui!NoAction, Actions
<1>3. CASE Tui!SendMessage
  BY <1>3, SendMessageKeeps
<1>4. CASE ~Tui!SendMessage
  <2>1. \/ action.do = "none" /\ UNCHANGED <<app, session, disk, msgs, turn, replaced>>
        \/ Tui!Clear \/ Tui!ResumeSession \/ Tui!Compact \/ Tui!OtherCommand
    BY <1>4 DEF Tui!Perform
  <2>2. turn' = turn /\ action.do # "send" /\ action.msg = Tui!NoTurn
    BY <1>1, <2>1 DEF Tui!Clear, Tui!ResumeSession, Tui!Compact, Tui!OtherCommand, Round
  <2>3. /\ app' \in Apps /\ app'.queue = app.queue /\ app'.pending = app.pending
        /\ app'.thinking => app.thinking
    BY <1>1, <2>1 DEF Tui!Clear, Tui!ResumeSession, Tui!Compact, Tui!OtherCommand, Apps
  <2>4. /\ session' \in Tui!Sessions /\ disk' \in [own : Tui!Sessions, other : Tui!Sessions]
        /\ replaced \/ disk.own = session => replaced' \/ disk'.own = session'
    BY <1>1, <2>1 DEF Tui!Clear, Tui!ResumeSession, Tui!Compact, Tui!OtherCommand, Tui!Save, Tui!Sessions
  <2>5. /\ msgs' \in Seq(Messages)
        /\ \A i \in DOMAIN msgs : i \in DOMAIN msgs' /\ msgs'[i] = msgs[i]
    <3>1. msgs' = msgs \/ msgs' = Append(msgs, Tui!Msg("end", Tui!NoTurn))
      BY <2>1 DEF Tui!Clear, Tui!ResumeSession, Tui!Compact, Tui!OtherCommand
    <3>2. CASE msgs' = msgs
      BY <1>1, <3>2 DEF Typed
    <3>3. CASE msgs' = Append(msgs, Tui!Msg("end", Tui!NoTurn))
      BY <1>1, <3>3, Added, MessageKinds
    <3> QED
      BY <3>1, <3>2, <3>3
  <2>6. Typed'
    BY <1>1, <1>2, <2>2, <2>3, <2>4, <2>5 DEF Typed
  <2>7. Round'
    BY <1>1, <1>2, <2>3 DEF Round
  <2>8. SaveIsDue'
    BY <1>1, <1>2, <2>2, <2>4 DEF SaveIsDue
  <2>9. SameTurns
    BY <2>2, <2>5 DEF SameTurns, Tui!Unheard
  <2> QED
    BY <1>2, <2>2, <2>3, <2>6, <2>7, <2>8, <2>9, Kept
<1> QED
  BY <1>3, <1>4

\* Every step of the terminal front end keeps the invariant.
LEMMA TuiInductive == TuiInv /\ [Tui!Next]_Tui!vars => TuiInv'
<1> SUFFICES ASSUME TuiInv, [Tui!Next]_Tui!vars
             PROVE  TuiInv'
  OBVIOUS
<1>1. CASE Tui!Drain
  BY <1>1, DrainKeeps
<1>2. CASE Tui!UserKey
  BY <1>2, SubmitKeeps, OtherKeysKeep DEF Tui!UserKey
<1>3. CASE Tui!TakeOutcome
  BY <1>3, TakeOutcomeKeeps
<1>4. CASE Tui!Perform
  BY <1>4, PerformKeeps
<1>5. ASSUME NEW t \in Tui!Turns, Tui!ThreadStep(t)
      PROVE  TuiInv'
  BY <1>5, ThreadStepKeeps
<1>6. CASE UNCHANGED Tui!vars
  <2>1. Typed' /\ Round' /\ SaveIsDue'
    BY <1>6 DEF TuiInv, Typed, Round, SaveIsDue, Tui!vars
  <2>2. SameTurns
    BY <1>6 DEF Tui!vars, SameTurns, Tui!Unheard
  <2> QED
    BY <1>6, <2>1, <2>2, Kept DEF Tui!vars
<1> QED
  BY <1>1, <1>2, <1>3, <1>4, <1>5, <1>6, Zenon DEF Tui!Next, Tui!UiStep

\* The front end starts in the invariant.
LEMMA TuiInitial == Tui!Init => TuiInv
<1> SUFFICES ASSUME Tui!Init
             PROVE  TuiInv
  OBVIOUS
<1>1. app.queue = <<>> /\ ~app.thinking /\ app.pending = Tui!NoTurn /\ DOMAIN app.queue = {}
  BY DEF Tui!Init
<1>2. Typed
  <2>1. app \in Apps
    BY DEF Tui!Init, Apps, Overlays, Tui!NoOverlay
  <2>2. \A t \in Tui!Turns : turn[t] \in Threads
    BY DEF Tui!Init, Threads, Tui!Phases, Tui!Sessions
  <2>3. turn \in [Tui!Turns -> Threads]
    BY <2>2 DEF Tui!Init
  <2>4. action \in Actions
    BY DEF Tui!Init, Actions, Tui!NoAction
  <2>5. session \in Tui!Sessions /\ disk \in [own : Tui!Sessions, other : Tui!Sessions]
    BY DEF Tui!Init, Tui!Sessions
  <2>6. msgs \in Seq(Messages) /\ perms \in Seq(Tui!Turns)
    BY DEF Tui!Init
  <2>7. outcomes \in Seq(BOOLEAN)
    BY DEF Tui!Init
  <2> QED
    BY <2>1, <2>3, <2>4, <2>5, <2>6, <2>7, BoundsAreNumbers DEF Tui!Init, Typed
<1>3. Round
  BY <1>1 DEF Tui!Init, Round, Tui!NoAction
<1>4. Fresh
  BY <1>1 DEF Tui!Init, Fresh, Distinct, Tui!NoAction
<1>5. SaveIsDue
  BY DEF Tui!Init, SaveIsDue
<1>6. Tui!ThinkingIsOfATurn /\ Tui!QueueHasATurn
  BY <1>1 DEF Tui!ThinkingIsOfATurn, Tui!QueueHasATurn
<1>7. Tui!NothingTypedVanishes
  BY DEF Tui!Init, Tui!NothingTypedVanishes
<1> QED
  BY <1>2, <1>3, <1>4, <1>5, <1>6, <1>7 DEF TuiInv

\* The invariant of the front end always holds.
LEMMA TuiInvariance == Tui!Spec => []TuiInv
  BY TuiInitial, TuiInductive, PTL DEF Tui!Spec

\* The invariant gives the properties the runs check of the front end.
LEMMA TuiInvGives ==
  TuiInv => Tui!TypeOK /\ Tui!ThinkingIsOfATurn /\ Tui!QueueHasATurn /\ Tui!NothingTypedVanishes /\ Tui!SavedWhenQuiet
<1> SUFFICES ASSUME TuiInv
             PROVE  Tui!TypeOK /\ Tui!SavedWhenQuiet
  BY DEF TuiInv
<1>1. Tui!TypeOK
  BY DEF TuiInv, Typed, Tui!TypeOK, Actions, Apps, Overlays, Threads
<1>2. Tui!SavedWhenQuiet
  BY DEF TuiInv, SaveIsDue, Tui!SavedWhenQuiet
<1> QED
  BY <1>1, <1>2

-----------------------------------------------------------------------------
(***************************************************************************)
(* The orchestrator.                                                       *)
(***************************************************************************)

Slots ==
  [status : {"Healthy", "Degraded"}, success_rate : 0..Fallback!Scale,
   total_calls : 0..MaxCalls, degraded_until : 0..(MaxTime + Cooldown)]

FallbackShape ==
  /\ now \in 1..MaxTime
  /\ slot \in [Providers -> Slots]
  /\ request \in {"none", "running", "unavailable", "ok", "failed"}

\* What is still to be tried: each once, able to take a call, and there while
\* the request runs.
ToTry ==
  /\ candidates \in Seq(Providers)
  /\ request = "running" => candidates # <<>>
  /\ \A i, j \in DOMAIN candidates : i # j => candidates[i] # candidates[j]
  /\ \A i \in DOMAIN candidates :
       ~Fallback!Waiting(candidates[i]) /\ slot[candidates[i]].total_calls < MaxCalls

\* Two calls do not bring the rate down to where it trips.
EarlyRate(s) ==
  /\ s.total_calls = 0 => s.success_rate = Fallback!Scale
  /\ s.total_calls = 1 => 10 * s.success_rate >= 7 * Fallback!Scale
  /\ s.total_calls = 2 => 10 * s.success_rate >= 4 * Fallback!Scale

\* The status is that of the rate.
StatusOfRate(s) == s.status = "Degraded" <=> 10 * s.success_rate < 3 * Fallback!Scale

Rates == \A p \in Providers : EarlyRate(slot[p]) /\ StatusOfRate(slot[p])

LeftAlone == \A p \in Providers : Fallback!Waiting(p) => slot[p].status = "Degraded"

FallbackInv == FallbackShape /\ ToTry /\ Rates /\ LeftAlone

-----------------------------------------------------------------------------
(* The moving average.                                                     *)

\* A failure takes three tenths off the rate, rounded down.
LEMMA RateFalls ==
  ASSUME NEW r \in 0..Fallback!Scale
  PROVE  /\ Fallback!Failed(r) \in 0..Fallback!Scale
         /\ Fallback!Failed(r) <= r
         /\ r = Fallback!Scale => 10 * Fallback!Failed(r) >= 7 * Fallback!Scale
         /\ 10 * r >= 7 * Fallback!Scale => 10 * Fallback!Failed(r) >= 4 * Fallback!Scale
<1>1. PICK k \in Nat \ {0} : Fallback!Scale = 10 * k
  BY BoundsAreNumbers, ProvidersAreRated
<1>2. PICK q \in Int : q = (7 * r) \div 10 /\ 10 * q <= 7 * r /\ 7 * r < 10 * q + 10
  BY <1>1
<1> QED
  BY <1>1, <1>2 DEF Fallback!Failed

\* A success brings the rate to three tenths at least, and a high rate stays high.
LEMMA RateRises ==
  ASSUME NEW r \in 0..Fallback!Scale
  PROVE  /\ Fallback!Succeeded(r) \in 0..Fallback!Scale
         /\ 10 * Fallback!Succeeded(r) >= 3 * Fallback!Scale
         /\ r = Fallback!Scale => Fallback!Succeeded(r) = Fallback!Scale
         /\ 10 * r >= 7 * Fallback!Scale => 10 * Fallback!Succeeded(r) >= 7 * Fallback!Scale
<1>1. PICK k \in Nat \ {0} : Fallback!Scale = 10 * k
  BY BoundsAreNumbers, ProvidersAreRated
<1>2. PICK q \in Int : /\ q = (7 * r + 3 * Fallback!Scale) \div 10
                       /\ 10 * q <= 7 * r + 3 * Fallback!Scale
                       /\ 7 * r + 3 * Fallback!Scale < 10 * q + 10
  BY <1>1
<1> QED
  BY <1>1, <1>2 DEF Fallback!Succeeded

-----------------------------------------------------------------------------
(* The candidates.                                                         *)

\* An order of the eligible providers lists each of them once.
LEMMA OrderLists ==
  ASSUME NEW order \in Fallback!Orders
  PROVE  /\ order \in Seq(Providers)
         /\ \A i \in DOMAIN order : order[i] \in Fallback!Eligible
         /\ \A i, j \in DOMAIN order : i # j => order[i] # order[j]
         /\ Fallback!Eligible # {} => order # <<>>
<1>1. IsFiniteSet(Fallback!Eligible) /\ Cardinality(Fallback!Eligible) \in Nat
  <2>1. Fallback!Eligible \subseteq Providers
    BY DEF Fallback!Eligible
  <2> QED
    BY <2>1, FS_Subset, FS_CardinalityType, BoundsAreNumbers, ProvidersAreRated
<1> \A S : Fallback!Cardinality(S) = Cardinality(S)
  BY Zenon DEF Fallback!Cardinality, Cardinality
<1>2. Len(order) = Cardinality(Fallback!Eligible)
  BY DEF Fallback!Orders
<1>3. PICK S \in SUBSET Fallback!Eligible :
        /\ order \in [1..Cardinality(S) -> S]
        /\ \A i, j \in 1..Cardinality(S) : i # j => order[i] # order[j]
  BY DEF Fallback!Orders, Fallback!SetToAllKPermutations, Fallback!SetToSeqs
<1>4. Cardinality(S) \in Nat
  BY <1>1, <1>3, FS_Subset, FS_CardinalityType
<1>5. order \in Seq(Fallback!Eligible) /\ DOMAIN order = 1..Cardinality(S)
  <2>1. order \in [1..Cardinality(S) -> Fallback!Eligible]
    BY <1>3
  <2> QED
    BY <1>4, <2>1
<1>6. order \in Seq(Providers)
  BY <1>5 DEF Fallback!Eligible
<1>7. Fallback!Eligible # {} => order # <<>>
  <2> SUFFICES ASSUME Fallback!Eligible # {} PROVE Len(order) # 0
    BY <1>5
  <2>1. Cardinality(Fallback!Eligible) # 0
    BY <1>1, FS_EmptySet
  <2> QED
    BY <1>2, <2>1
<1> QED
  BY <1>3, <1>5, <1>6, <1>7

\* The one that is tried.
LEMMA TriedIs ==
  ASSUME FallbackInv, request = "running"
  PROVE  /\ Fallback!Tried \in Providers /\ slot[Fallback!Tried] \in Slots
         /\ ~Fallback!Waiting(Fallback!Tried)
         /\ slot[Fallback!Tried].total_calls < MaxCalls
         /\ slot[Fallback!Tried].status = "Degraded" <=> 10 * slot[Fallback!Tried].success_rate < 3 * Fallback!Scale
<1>1. candidates \in Seq(Providers) /\ candidates # <<>>
  BY DEF FallbackInv, ToTry
<1>2. Fallback!Tried = candidates[1] /\ 1 \in DOMAIN candidates
  BY <1>1 DEF Fallback!Tried
<1> QED
  BY <1>1, <1>2 DEF FallbackInv, ToTry, FallbackShape, Rates, StatusOfRate

-----------------------------------------------------------------------------
(* The steps.                                                              *)

\* A request starts with the providers that are not waiting out a cooldown.
LEMMA SendStep ==
  ASSUME FallbackInv, Fallback!SendMessage
  PROVE  FallbackInv'
<1>1. \A p \in Providers :
        /\ slot'[p] = IF p \in Fallback!Eligible THEN [slot[p] EXCEPT !.degraded_until = 0] ELSE slot[p]
        /\ slot[p] \in Slots /\ slot[p].total_calls < MaxCalls
  BY DEF Fallback!SendMessage, FallbackInv, FallbackShape
<1>2. /\ candidates' \in Seq(Providers)
      /\ \A i \in DOMAIN candidates' : candidates'[i] \in Fallback!Eligible
      /\ \A i, j \in DOMAIN candidates' : i # j => candidates'[i] # candidates'[j]
      /\ Fallback!Eligible # {} => candidates' # <<>>
  BY OrderLists DEF Fallback!SendMessage
<1>3. \A p \in Providers :
        /\ slot'[p] \in Slots
        /\ slot'[p].status = slot[p].status
        /\ slot'[p].success_rate = slot[p].success_rate
        /\ slot'[p].total_calls = slot[p].total_calls
        /\ slot'[p].degraded_until = IF p \in Fallback!Eligible THEN 0 ELSE slot[p].degraded_until
  <2> SUFFICES ASSUME NEW p \in Providers
               PROVE  /\ slot'[p] \in Slots
                      /\ slot'[p].status = slot[p].status
                      /\ slot'[p].success_rate = slot[p].success_rate
                      /\ slot'[p].total_calls = slot[p].total_calls
                      /\ slot'[p].degraded_until =
                           IF p \in Fallback!Eligible THEN 0 ELSE slot[p].degraded_until
    OBVIOUS
  <2>1. slot[p] \in Slots
    BY <1>1
  <2>2. 0 \in 0..(MaxTime + Cooldown)
    <3>1. MaxTime \in Nat /\ Cooldown \in Nat
      BY BoundsAreNumbers, ProvidersAreRated
    <3> QED
      BY <3>1
  <2>3. CASE p \in Fallback!Eligible
    <3>1. slot'[p] = [slot[p] EXCEPT !.degraded_until = 0]
      BY <1>1, <2>3
    <3> QED
      BY <2>1, <2>2, <2>3, <3>1 DEF Slots
  <2>4. CASE p \notin Fallback!Eligible
    BY <1>1, <2>1, <2>4
  <2> QED
    BY <2>3, <2>4
<1>4. FallbackShape'
  BY <1>3 DEF Fallback!SendMessage, FallbackInv, FallbackShape
<1>5. ToTry'
  <2>1. \A p \in Fallback!Eligible : p \in Providers /\ ~Fallback!Waiting(p)'
    BY <1>3 DEF Fallback!Waiting, Fallback!Eligible
  <2> QED
    BY <1>1, <1>2, <1>3, <2>1 DEF ToTry, Fallback!SendMessage
<1>6. Rates'
  BY <1>3 DEF FallbackInv, Rates, EarlyRate, StatusOfRate
<1>7. LeftAlone'
  BY <1>3 DEF FallbackInv, LeftAlone, Fallback!Waiting, Fallback!Eligible, Fallback!SendMessage
<1> QED
  BY <1>4, <1>5, <1>6, <1>7 DEF FallbackInv

\* A provider that answers ends the request, its rate risen.
LEMMA AnswersStep ==
  ASSUME FallbackInv, Fallback!Answers
  PROVE  FallbackInv'
<1> DEFINE r == slot[Fallback!Tried].success_rate
<1>1. /\ Fallback!Tried \in Providers /\ slot[Fallback!Tried] \in Slots /\ ~Fallback!Waiting(Fallback!Tried)
      /\ slot[Fallback!Tried].total_calls < MaxCalls
  BY TriedIs DEF Fallback!Answers
<1>2. /\ slot'[Fallback!Tried].status = "Healthy"
      /\ slot'[Fallback!Tried].success_rate = Fallback!Succeeded(r)
      /\ slot'[Fallback!Tried].total_calls = slot[Fallback!Tried].total_calls + 1
      /\ slot'[Fallback!Tried].degraded_until = slot[Fallback!Tried].degraded_until
      /\ \A p \in Providers \ {Fallback!Tried} : slot'[p] = slot[p]
      /\ slot' \in [Providers -> Slots]
  <2> DEFINE new == [slot[Fallback!Tried] EXCEPT !.status = "Healthy", !.success_rate = Fallback!Succeeded(@),
                                        !.total_calls = @ + 1]
  <2>1. slot \in [Providers -> Slots] /\ slot' = [slot EXCEPT ![Fallback!Tried] = new]
    BY <1>1 DEF Fallback!Answers, FallbackInv, FallbackShape
  <2>2. r \in 0..Fallback!Scale /\ slot[Fallback!Tried].total_calls + 1 \in 0..MaxCalls
    BY <1>1, BoundsAreNumbers, ProvidersAreRated DEF Slots
  <2>3. Fallback!Succeeded(r) \in 0..Fallback!Scale
    BY <2>2, RateRises
  <2>4. new \in Slots /\ new.status = "Healthy" /\ new.success_rate = Fallback!Succeeded(r)
        /\ new.total_calls = slot[Fallback!Tried].total_calls + 1
        /\ new.degraded_until = slot[Fallback!Tried].degraded_until
    BY <1>1, <2>2, <2>3 DEF Slots
  <2> HIDE DEF new
  <2> QED
    BY <1>1, <2>1, <2>4
<1>3. FallbackShape' /\ ToTry'
  BY <1>2 DEF Fallback!Answers, FallbackInv, FallbackShape, ToTry
<1>4. Rates'
  <2>1. EarlyRate(slot'[Fallback!Tried]) /\ StatusOfRate(slot'[Fallback!Tried])
    <3>1. PICK k \in Nat \ {0} : Fallback!Scale = 10 * k
      BY BoundsAreNumbers, ProvidersAreRated
    <3> QED
      BY <1>1, <1>2, <3>1, RateRises DEF EarlyRate, StatusOfRate, FallbackInv, Rates, Slots
  <2> QED
    BY <1>2, <2>1 DEF FallbackInv, Rates, EarlyRate, StatusOfRate
<1>5. LeftAlone'
  BY <1>1, <1>2 DEF FallbackInv, LeftAlone, Fallback!Waiting, Fallback!Answers
<1> QED
  BY <1>3, <1>4, <1>5 DEF FallbackInv

\* A provider that fails may open its breaker, and the next is tried.
LEMMA FailsStep ==
  ASSUME FallbackInv, Fallback!Fails
  PROVE  FallbackInv'
<1> DEFINE s == slot[Fallback!Tried]
           r == Fallback!Failed(s.success_rate)
<1>1. /\ Fallback!Tried \in Providers /\ s \in Slots /\ ~Fallback!Waiting(Fallback!Tried)
      /\ s.total_calls < MaxCalls
      /\ s.status = "Degraded" <=> 10 * s.success_rate < 3 * Fallback!Scale
  BY TriedIs DEF Fallback!Fails
<1>2. EarlyRate(s)
  BY <1>1 DEF FallbackInv, Rates
<1>3. r \in 0..Fallback!Scale /\ r <= s.success_rate
  BY <1>1, RateFalls DEF Slots
<1>4. /\ s.total_calls = 0 => 10 * r >= 7 * Fallback!Scale
      /\ s.total_calls = 1 => 10 * r >= 4 * Fallback!Scale
  BY <1>1, <1>2, RateFalls DEF EarlyRate, Slots
<1>5. PICK k \in Nat \ {0} : Fallback!Scale = 10 * k
  BY BoundsAreNumbers, ProvidersAreRated
<1>6. /\ slot' = [slot EXCEPT ![Fallback!Tried] = Fallback!AfterFailure(s)]
      /\ \A p \in Providers \ {Fallback!Tried} : slot'[p] = slot[p]
      /\ slot'[Fallback!Tried] = Fallback!AfterFailure(s)
  BY <1>1 DEF Fallback!Fails, FallbackInv, FallbackShape
<1>7. /\ Fallback!AfterFailure(s) \in Slots
      /\ Fallback!AfterFailure(s).success_rate = r
      /\ Fallback!AfterFailure(s).total_calls = s.total_calls + 1
      /\ Fallback!AfterFailure(s).status =
           IF s.total_calls + 1 >= 3 /\ 10 * r < 3 * Fallback!Scale THEN "Degraded" ELSE s.status
      /\ Fallback!AfterFailure(s).degraded_until =
           IF s.total_calls + 1 >= 3 /\ 10 * r < 3 * Fallback!Scale THEN now + Cooldown ELSE s.degraded_until
  <2> DEFINE counted == [s EXCEPT !.success_rate = Fallback!Failed(@), !.total_calls = @ + 1]
             tripped == [counted EXCEPT !.degraded_until = now + Cooldown, !.status = "Degraded"]
  <2>1. s.total_calls + 1 \in 0..MaxCalls /\ now + Cooldown \in 0..(MaxTime + Cooldown)
    BY <1>1, BoundsAreNumbers, ProvidersAreRated DEF Slots, FallbackInv, FallbackShape
  <2>2. /\ counted \in Slots /\ counted.success_rate = r
        /\ counted.total_calls = s.total_calls + 1
        /\ counted.status = s.status /\ counted.degraded_until = s.degraded_until
    BY <1>1, <1>3, <2>1 DEF Slots
  <2>3. /\ tripped \in Slots /\ tripped.success_rate = r
        /\ tripped.total_calls = s.total_calls + 1
        /\ tripped.status = "Degraded" /\ tripped.degraded_until = now + Cooldown
    BY <1>1, <1>3, <2>1 DEF Slots
  <2>4. Fallback!AfterFailure(s) = IF Fallback!Trips(counted) THEN tripped ELSE counted
    BY DEF Fallback!AfterFailure
  <2>5. Fallback!Trips(counted) <=> s.total_calls + 1 >= 3 /\ 10 * r < 3 * Fallback!Scale
    BY <2>2 DEF Fallback!Trips
  <2> HIDE DEF counted, tripped, s, r
  <2> QED
    BY <2>2, <2>3, <2>4, <2>5
<1>8. EarlyRate(slot'[Fallback!Tried]) /\ StatusOfRate(slot'[Fallback!Tried])
  <2> s.total_calls \in Nat /\ s.success_rate \in 0..Fallback!Scale
    BY <1>1 DEF Slots
  <2>1. EarlyRate(slot'[Fallback!Tried])
    BY <1>3, <1>4, <1>5, <1>6, <1>7 DEF EarlyRate
  <2>2. 10 * r < 3 * Fallback!Scale => s.total_calls + 1 >= 3
    BY <1>3, <1>4, <1>5
  <2>3. 10 * s.success_rate < 3 * Fallback!Scale => 10 * r < 3 * Fallback!Scale
    BY <1>3, <1>5
  <2> QED
    BY <1>1, <1>3, <1>5, <1>6, <1>7, <2>1, <2>2, <2>3 DEF StatusOfRate, Slots
<1>9. FallbackShape'
  BY <1>1, <1>6, <1>7 DEF Fallback!Fails, FallbackInv, FallbackShape
<1>10. ToTry'
  <2>1. candidates \in Seq(Providers) /\ candidates # <<>> /\ candidates[1] = Fallback!Tried
    BY DEF Fallback!Fails, FallbackInv, ToTry, Fallback!Tried
  <2>2. /\ candidates' \in Seq(Providers)
        /\ Len(candidates') = Len(candidates) - 1
        /\ \A i \in DOMAIN candidates' :
             /\ i + 1 \in DOMAIN candidates
             /\ candidates'[i] = candidates[i + 1]
             /\ candidates'[i] \in Providers \ {Fallback!Tried}
    BY <2>1 DEF Fallback!Fails, FallbackInv, ToTry
  <2>3. \A i \in DOMAIN candidates' :
          (~Fallback!Waiting(candidates[i]) /\ slot[candidates[i]].total_calls < MaxCalls)'
    <3> SUFFICES ASSUME NEW i \in DOMAIN candidates'
                 PROVE  (~Fallback!Waiting(candidates[i]) /\ slot[candidates[i]].total_calls < MaxCalls)'
      OBVIOUS
    <3>1. slot'[candidates'[i]] = slot[candidates[i + 1]] /\ now' = now
      BY <1>6, <2>2 DEF Fallback!Fails
    <3>2. ~Fallback!Waiting(candidates[i + 1]) /\ slot[candidates[i + 1]].total_calls < MaxCalls
      BY <2>2 DEF FallbackInv, ToTry
    <3> QED
      BY <2>2, <3>1, <3>2 DEF Fallback!Waiting
  <2>4. \A i, j \in DOMAIN candidates' : i # j => candidates'[i] # candidates'[j]
    BY <2>2 DEF FallbackInv, ToTry
  <2>5. request' = "running" => candidates' # <<>>
    <3>1. Len(candidates) # 1 /\ Len(candidates) \in Nat \ {0} =>
            Len(candidates') # 0
      BY <2>2
    <3>2. request' = "running" => Len(candidates) # 1
      BY DEF Fallback!Fails
    <3>3. Len(candidates) \in Nat \ {0}
      BY <2>1
    <3> QED
      BY <3>1, <3>2, <3>3
  <2> QED
    BY <2>2, <2>3, <2>4, <2>5 DEF ToTry
<1>11. Rates'
  BY <1>6, <1>8 DEF FallbackInv, Rates, EarlyRate, StatusOfRate
<1>12. LeftAlone'
  BY <1>1, <1>6, <1>7 DEF FallbackInv, LeftAlone, Fallback!Waiting, Fallback!Fails
<1> QED
  BY <1>9, <1>10, <1>11, <1>12 DEF FallbackInv

\* The clock ends a cooldown and touches no rate.
LEMMA TickStep ==
  ASSUME FallbackInv, Fallback!Tick
  PROVE  FallbackInv'
<1>1. \A p \in Providers : Fallback!Waiting(p)' => Fallback!Waiting(p)
  BY BoundsAreNumbers, ProvidersAreRated DEF Fallback!Tick, Fallback!Waiting, FallbackInv, FallbackShape, Slots
<1>2. FallbackShape'
  BY BoundsAreNumbers, ProvidersAreRated DEF Fallback!Tick, FallbackInv, FallbackShape
<1>3. ToTry'
  BY <1>1 DEF Fallback!Tick, FallbackInv, ToTry
<1>4. Rates' /\ LeftAlone'
  BY <1>1 DEF Fallback!Tick, FallbackInv, Rates, EarlyRate, StatusOfRate, LeftAlone
<1> QED
  BY <1>2, <1>3, <1>4 DEF FallbackInv

\* The orchestrator starts in the invariant.
LEMMA InitHolds ==
  ASSUME Fallback!Init
  PROVE  FallbackInv
<1>1. PICK k \in Nat \ {0} : Fallback!Scale = 10 * k
  BY BoundsAreNumbers, ProvidersAreRated
<1>2. FallbackShape
  BY <1>1, BoundsAreNumbers, ProvidersAreRated DEF Fallback!Init, FallbackShape, Slots
<1>3. ToTry
  BY DEF Fallback!Init, ToTry
<1>4. Rates /\ LeftAlone
  BY <1>1 DEF Fallback!Init, Rates, EarlyRate, StatusOfRate, LeftAlone, Fallback!Waiting
<1> QED
  BY <1>2, <1>3, <1>4 DEF FallbackInv

\* The invariant of the orchestrator always holds.
LEMMA FallbackInvariance == Fallback!Spec => []FallbackInv
<1>1. Fallback!Init => FallbackInv
  BY InitHolds
<1>2. FallbackInv /\ [Fallback!Next]_Fallback!vars => FallbackInv'
  <2> SUFFICES ASSUME FallbackInv, [Fallback!Next]_Fallback!vars PROVE FallbackInv'
    OBVIOUS
  <2>1. CASE UNCHANGED Fallback!vars
    BY <2>1 DEF Fallback!vars, FallbackInv, FallbackShape, ToTry, Rates, LeftAlone, Fallback!Waiting
  <2> QED
    BY <2>1, SendStep, AnswersStep, FailsStep, TickStep DEF Fallback!Next
<1> QED
  BY <1>1, <1>2, PTL DEF Fallback!Spec

\* The invariant gives the type and the consistency of the breakers.
LEMMA FallbackInvGives == FallbackInv => Fallback!TypeOK /\ Fallback!BreakerConsistent
  BY DEF FallbackInv, FallbackShape, Slots, Fallback!TypeOK, ToTry, Rates, StatusOfRate, LeftAlone,
         Fallback!BreakerConsistent

-----------------------------------------------------------------------------
(***************************************************************************)
(* Hosted conversations.                                                   *)
(***************************************************************************)

Readings == {"text", "garbled", "end"}
Sendings == [reads : Readings, post : Posts, chunk : Nat]
PostPhases ==
  {"none", "looking", "creating", "generating", "sending", "storing", "closing", "over"}
Handlers == [phase : PostPhases, channel : Nat, pieces : Seq(Readings), sent : Nat]
Readers == [phase : {"none", "looking", "creating", "open", "ended"}, channel : Nat, next : Nat \ {0},
            got : Seq(Sendings), lagged : BOOLEAN]

Subscribed(s) == stream[s].phase \in {"open", "ended"}

HostedShape ==
  /\ channels \in Seq(Seq(Sendings))
  /\ entry \in 0..Len(channels)
  /\ post \in [Posts -> Handlers]
  /\ stream \in [Streams -> Readers]
  /\ \A p \in Posts : /\ post[p].channel \in 0..Len(channels)
                      /\ Hosted!Generating(p) => post[p].channel # Hosted!NoChannel
  /\ \A s \in Streams : /\ stream[s].channel \in 0..Len(channels)
                        /\ Subscribed(s) => stream[s].channel # Hosted!NoChannel

\* Nothing is promised before the answer, and all is sent when it was stored.
Early == {"none", "looking", "creating", "generating"}

Promised ==
  \A p \in Posts : /\ Len(post[p].pieces) <= MaxParts
                   /\ post[p].phase \in Early => Len(post[p].pieces) = 0
                   /\ post[p].phase = "sending" => post[p].sent < Len(post[p].pieces)
                   /\ post[p].phase # "sending" => post[p].sent = Len(post[p].pieces)

Alone ==
  \A p \in Posts \ overlaps : Hosted!Generating(p) => \A q \in Posts \ {p} : ~Hosted!Generating(q)

\* A message is from a generation on that channel that got so far.
SendsOn(c, p) ==
  /\ c = post[p].channel
  /\ post[p].phase \in {"sending", "storing", "closing", "over"}

Origins ==
  \A c \in DOMAIN channels : \A k \in DOMAIN channels[c] : SendsOn(c, channels[c][k].post)

\* The i-th piece of the answer to p, as it is sent, and the first of them.
Shown(p, i) == Hosted!Piece(p, i, post[p].pieces[i])
Begins(m, p) == m.post = p /\ m.chunk = 1

\* From its first piece on, an answer that was alone is one run of the log.
RunsFrom(p, k, log) ==
  /\ \A i \in 1..post[p].sent : k + i - 1 \in DOMAIN log /\ log[k + i - 1] = Shown(p, i)
  /\ Hosted!Generating(p) => Len(log) = k + post[p].sent - 1
  /\ post[p].phase = "over" => /\ k + post[p].sent \in DOMAIN log
                               /\ log[k + post[p].sent] = Hosted!Done(p)

Runs ==
  \A c \in DOMAIN channels : \A k \in DOMAIN channels[c] : \A p \in Posts \ overlaps :
    Begins(channels[c][k], p) => RunsFrom(p, k, channels[c])

\* What a stream got reads as no end, but for the last message of one that ended.
TextsFirst(x) ==
  /\ x.phase \notin {"open", "ended"} => x.got = <<>>
  /\ \A i \in DOMAIN x.got : Hosted!IsEnd(x.got[i]) <=> x.phase = "ended" /\ i = Len(x.got)
  /\ x.phase = "ended" => x.got # <<>>

\* What a stream that never lagged got is a piece of the log.
IsPieceOf(x, log) ==
  /\ Len(x.got) < x.next /\ x.next <= Len(log) + 1
  /\ \A i \in DOMAIN x.got : x.got[i] = log[x.next - Len(x.got) - 1 + i]

Reads ==
  \A s \in Streams :
    /\ TextsFirst(stream[s])
    /\ Subscribed(s) /\ ~stream[s].lagged => IsPieceOf(stream[s], channels[stream[s].channel])

HostedInv == HostedShape /\ Promised /\ Alone /\ Origins /\ Runs /\ Reads

-----------------------------------------------------------------------------
(* Channels only grow.                                                     *)

\* What was sent stays where it is.
Remain ==
  \A c \in DOMAIN channels :
    /\ c \in DOMAIN channels' /\ Len(channels'[c]) >= Len(channels[c])
    /\ \A k \in DOMAIN channels[c] : k \in DOMAIN channels'[c] /\ channels'[c][k] = channels[c][k]

Old(c, k) == c \in DOMAIN channels /\ k \in DOMAIN channels[c]

\* What is new is one message on one channel.
New(c, k, p, m) ==
  c = post[p].channel /\ k = Len(channels[c]) + 1 /\ channels'[c][k] = m

NothingNew ==
  /\ \A c \in DOMAIN channels' : \A k \in DOMAIN channels'[c] : Old(c, k)
  /\ \A c \in DOMAIN channels : Len(channels'[c]) = Len(channels[c])

\* What a send adds to the log of its channel.
LEMMA Sent ==
  ASSUME HostedShape, NEW p \in Posts, Hosted!Generating(p), NEW m \in Sendings, Hosted!SendTo(p, m)
  PROVE  /\ channels' \in Seq(Seq(Sendings)) /\ Len(channels') = Len(channels)
         /\ DOMAIN channels' = DOMAIN channels
         /\ Remain
         /\ \A c \in DOMAIN channels' : \A k \in DOMAIN channels'[c] :
              Old(c, k) \/ New(c, k, p, m)
         /\ Len(channels'[post[p].channel]) = Len(channels[post[p].channel]) + 1
         /\ channels'[post[p].channel][Len(channels[post[p].channel]) + 1] = m
<1> DEFINE d == post[p].channel
           log == channels[d]
<1>1. channels \in Seq(Seq(Sendings)) /\ d \in DOMAIN channels
  BY DEF HostedShape, Hosted!NoChannel
<1>2. log \in Seq(Sendings) /\ channels' = [channels EXCEPT ![d] = Append(log, m)]
  BY <1>1 DEF Hosted!SendTo
<1> HIDE DEF d
<1>3. /\ Append(log, m) \in Seq(Sendings) /\ Len(Append(log, m)) = Len(log) + 1
      /\ DOMAIN Append(log, m) = 1..(Len(log) + 1) /\ Len(log) \in Nat /\ DOMAIN log = 1..Len(log)
      /\ \A k \in 1..Len(log) : Append(log, m)[k] = log[k]
      /\ Append(log, m)[Len(log) + 1] = m
  BY <1>2
<1>4. /\ channels' \in Seq(Seq(Sendings)) /\ Len(channels') = Len(channels)
      /\ DOMAIN channels' = DOMAIN channels
  BY <1>1, <1>2, <1>3
<1>5. channels'[d] = Append(log, m) /\ \A c \in DOMAIN channels : c # d => channels'[c] = channels[c]
  BY <1>1, <1>2
<1>6. \A c \in DOMAIN channels : Len(channels[c]) \in Nat
  BY <1>1
<1> HIDE DEF log
<1>7. Remain
  <2> SUFFICES ASSUME NEW c \in DOMAIN channels
               PROVE  /\ Len(channels'[c]) >= Len(channels[c])
                      /\ \A k \in DOMAIN channels[c] :
                           k \in DOMAIN channels'[c] /\ channels'[c][k] = channels[c][k]
    BY <1>4 DEF Remain
  <2>1. CASE c = d
    <3>1. channels'[c] = Append(log, m) /\ channels[c] = log
      BY <2>1, <1>5 DEF log
    <3> QED
      BY <3>1, <1>3
  <2>2. CASE c # d
    BY <2>2, <1>5, <1>6
  <2> QED
    BY <2>1, <2>2
<1>8. \A c \in DOMAIN channels' : \A k \in DOMAIN channels'[c] : Old(c, k) \/ New(c, k, p, m)
  <2> SUFFICES ASSUME NEW c \in DOMAIN channels', NEW k \in DOMAIN channels'[c], ~Old(c, k)
               PROVE  New(c, k, p, m)
    OBVIOUS
  <2>1. c \in DOMAIN channels /\ c = d
    BY <1>4, <1>5 DEF Old
  <2>2. channels'[c] = Append(log, m) /\ channels[c] = log
    BY <2>1, <1>5 DEF log
  <2>3. k \in 1..(Len(log) + 1) /\ k \notin 1..Len(log)
    BY <2>1, <2>2, <1>3 DEF Old
  <2> QED
    BY <2>1, <2>2, <2>3, <1>3 DEF New, d
<1>9. Len(channels'[d]) = Len(channels[d]) + 1 /\ channels'[d][Len(channels[d]) + 1] = m
  BY <1>3, <1>5 DEF log
<1> QED
  BY <1>4, <1>7, <1>8, <1>9 DEF d

\* or_insert adds a channel at most, and sends nothing.
LEMMA Inserted ==
  ASSUME HostedShape, Hosted!OrInsert
  PROVE  /\ channels' \in Seq(Seq(Sendings)) /\ Len(channels') >= Len(channels)
         /\ entry' \in 1..Len(channels')
         /\ Remain /\ NothingNew
<1>1. channels \in Seq(Seq(Sendings)) /\ entry \in 0..Len(channels) /\ Len(channels) \in Nat
  BY DEF HostedShape
<1>2. CASE entry = Hosted!NoChannel
  <2>1. entry' = Len(channels) + 1 /\ channels' = Append(channels, <<>>)
    BY <1>2 DEF Hosted!OrInsert
  <2>2. /\ channels' \in Seq(Seq(Sendings)) /\ Len(channels') = Len(channels) + 1
        /\ DOMAIN channels' = 1..(Len(channels) + 1) /\ DOMAIN channels = 1..Len(channels)
        /\ \A c \in DOMAIN channels : channels'[c] = channels[c]
        /\ channels'[Len(channels) + 1] = <<>>
    BY <1>1, <2>1
  <2>3. \A c \in DOMAIN channels : c \in DOMAIN channels' /\ Len(channels[c]) \in Nat
    BY <1>1, <2>2
  <2>4. \A c \in DOMAIN channels' : c \in DOMAIN channels \/ c = Len(channels) + 1
    BY <1>1, <2>2
  <2>5. Remain
    BY <2>2, <2>3 DEF Remain
  <2>6. \A c \in DOMAIN channels' : \A k \in DOMAIN channels'[c] : Old(c, k)
    BY <2>2, <2>4 DEF Old
  <2> QED
    BY <1>1, <2>1, <2>2, <2>5, <2>6 DEF NothingNew
<1>3. CASE entry # Hosted!NoChannel
  <2>1. UNCHANGED <<entry, channels>>
    BY <1>3 DEF Hosted!OrInsert
  <2>2. \A c \in DOMAIN channels : Len(channels[c]) \in Nat
    BY <1>1
  <2> QED
    BY <1>1, <1>3, <2>1, <2>2 DEF Remain, NothingNew, Old, Hosted!NoChannel
<1> QED
  BY <1>2, <1>3

\* A step that leaves the channels alone sends nothing.
LEMMA Untouched ==
  ASSUME HostedShape, UNCHANGED channels
  PROVE  /\ channels' \in Seq(Seq(Sendings)) /\ Len(channels') >= Len(channels)
         /\ Remain /\ NothingNew
<1>1. channels \in Seq(Seq(Sendings)) /\ Len(channels) \in Nat
  BY DEF HostedShape
<1>2. \A c \in DOMAIN channels : Len(channels[c]) \in Nat
  BY <1>1
<1> QED
  BY <1>1, <1>2 DEF Remain, NothingNew, Old

-----------------------------------------------------------------------------
(* What a step leaves as it is.                                            *)

\* The generation of q has sent what it had, and is as far, or has tried to store
\* its answer.
AsFar(q) ==
  /\ post'[q].channel = post[q].channel /\ post'[q].sent = post[q].sent
  /\ post'[q].pieces = post[q].pieces
  /\ \/ post'[q].phase = post[q].phase
     \/ post[q].phase = "storing" /\ post'[q].phase = "closing"

\* A run of an answer in a log stays one while nobody else sends there.
LEMMA RunRemains ==
  ASSUME HostedShape, NEW q \in Posts, NEW c \in DOMAIN channels, NEW k \in DOMAIN channels[c],
         RunsFrom(q, k, channels[c]), Remain, AsFar(q),
         Hosted!Generating(q) => Len(channels'[c]) = Len(channels[c])
  PROVE  RunsFrom(q, k, channels[c])'
<1>1. /\ Hosted!Generating(q)' <=> Hosted!Generating(q)
      /\ post'[q].phase = "over" <=> post[q].phase = "over"
      /\ post'[q].sent = post[q].sent
  BY DEF Hosted!Generating, AsFar
<1>2. /\ \A i \in DOMAIN channels[c] : i \in DOMAIN channels'[c] /\ channels'[c][i] = channels[c][i]
  BY DEF Remain
<1> QED
  BY <1>1, <1>2, Zenon DEF RunsFrom, Shown, AsFar, Hosted!Piece, Hosted!Done

\* A step that sends nothing and starts no generation keeps the invariant.
LEMMA NothingSent ==
  ASSUME HostedInv, HostedShape', Promised', Alone', Reads', Remain, NothingNew,
         overlaps \subseteq overlaps',
         \A q \in Posts : AsFar(q) \/ post[q].phase \in Early
  PROVE  HostedInv'
<1>1. HostedShape /\ Origins /\ Runs
  BY DEF HostedInv
<1>2. ASSUME NEW c \in DOMAIN channels', NEW k \in DOMAIN channels'[c]
      PROVE  /\ Old(c, k) /\ channels'[c][k] = channels[c][k]
             /\ channels[c][k] \in Sendings
             /\ AsFar(channels[c][k].post)
  <2>1. Old(c, k) /\ channels'[c][k] = channels[c][k]
    BY <1>2 DEF NothingNew, Remain, Old
  <2>2. channels[c][k] \in Sendings
    BY <1>1, <2>1 DEF HostedShape, Old
  <2>3. channels[c][k].post \in Posts /\ post[channels[c][k].post].phase \notin Early
    BY <1>1, <2>1, <2>2 DEF Origins, SendsOn, Old, Early, Sendings
  <2> QED
    BY <2>1, <2>2, <2>3
<1>3. Origins'
  BY <1>1, <1>2 DEF Origins, SendsOn, Old, AsFar
<1>4. Runs'
  <2> SUFFICES ASSUME NEW c \in DOMAIN channels', NEW k \in DOMAIN channels'[c],
                      NEW p \in Posts \ overlaps', Begins(channels'[c][k], p)
               PROVE  RunsFrom(p, k, channels[c])'
    BY DEF Runs, Begins
  <2>1. Old(c, k) /\ Begins(channels[c][k], p) /\ AsFar(p)
    BY <1>2 DEF Begins
  <2>2. RunsFrom(p, k, channels[c]) /\ Len(channels'[c]) = Len(channels[c])
    BY <1>1, <2>1 DEF Runs, NothingNew, Old
  <2> QED
    BY <1>1, <2>1, <2>2, RunRemains DEF Old
<1> QED
  BY <1>3, <1>4 DEF HostedInv

\* What a subscriber has got is still a piece of the log when the log grows.
LEMMA PieceRemains ==
  ASSUME HostedInv, HostedShape', Remain, NEW s \in Streams, Subscribed(s), ~stream[s].lagged
  PROVE  IsPieceOf(stream[s], channels'[stream[s].channel])
<1> DEFINE x == stream[s]
           log == channels[x.channel]
           new == channels'[x.channel]
<1>1. channels \in Seq(Seq(Sendings)) /\ x.channel \in DOMAIN channels /\ x \in Readers
  BY DEF HostedInv, HostedShape, Hosted!NoChannel
<1>2. log \in Seq(Sendings) /\ IsPieceOf(x, log) /\ x.next \in Nat
  BY <1>1 DEF HostedInv, Reads, Readers
<1>3. Len(new) >= Len(log) /\ \A k \in DOMAIN log : new[k] = log[k]
  BY <1>1 DEF Remain
<1>4. Len(new) \in Nat
  BY <1>1 DEF HostedShape, Remain
<1>5. x.got \in Seq(Sendings)
  BY <1>1 DEF Readers
<1> HIDE DEF x, log, new
<1>6. /\ DOMAIN x.got = 1..Len(x.got) /\ Len(x.got) \in Nat /\ DOMAIN log = 1..Len(log)
      /\ Len(log) \in Nat
  BY <1>2, <1>5
<1>7. \A i \in DOMAIN x.got : x.next - Len(x.got) - 1 + i \in DOMAIN log
  BY <1>2, <1>6 DEF IsPieceOf
<1>8. channels[x.channel] = log /\ channels'[x.channel] = new
  BY DEF log, new
<1>9. x.next <= Len(new) + 1
  BY <1>4, <1>2, <1>3, <1>6 DEF IsPieceOf
<1> QED
  BY <1>2, <1>3, <1>6, <1>7, <1>8, <1>9 DEF IsPieceOf, x

\* The subscribers that do nothing keep what they have.
LEMMA StreamsStay ==
  ASSUME HostedInv, HostedShape', UNCHANGED stream, Remain
  PROVE  Reads'
<1>1. \A s \in Streams : /\ TextsFirst(stream[s])
                         /\ stream'[s] = stream[s] /\ Subscribed(s)' <=> Subscribed(s)
  BY DEF HostedInv, Reads, Subscribed
<1> QED
  BY <1>1, PieceRemains, Zenon DEF Reads, TextsFirst, IsPieceOf

\* No answer loses its channel to another unless a generation starts.
LEMMA NoneStarts ==
  ASSUME HostedInv, overlaps \subseteq overlaps',
         \A q \in Posts : Hosted!Generating(q)' => Hosted!Generating(q)
  PROVE  Alone'
  BY DEF HostedInv, Alone

-----------------------------------------------------------------------------
(* The steps of a POST and its generation.                                 *)

\* Steps that neither send nor look for a channel.
LEMMA QuietKeeps ==
  ASSUME HostedInv, NEW p \in Posts,
         \/ Hosted!InsertQuestion(p) \/ Hosted!Abandon(p) \/ Hosted!Answer(p) \/ Hosted!StoreAnswer(p)
         \/ post[p].phase = "looking" /\ post' = [post EXCEPT ![p].phase = "creating"]
              /\ UNCHANGED <<channels, entry, stream, overlaps>>
  PROVE  HostedInv'
<1>1. /\ HostedShape /\ Promised /\ UNCHANGED <<channels, entry, stream, overlaps>>
      /\ post \in [Posts -> Handlers] /\ post[p] \in Handlers
  BY DEF HostedInv, HostedShape, Hosted!InsertQuestion, Hosted!Abandon, Hosted!Answer, Hosted!StoreAnswer
<1>2. /\ post' \in [Posts -> Handlers] /\ \A q \in Posts \ {p} : post'[q] = post[q]
      /\ post'[p].channel = post[p].channel /\ post'[p].sent = post[p].sent
      /\ \/ /\ post[p].phase \in {"none", "looking", "creating"}
            /\ post'[p].phase \in {"looking", "creating", "over"}
            /\ post'[p].pieces = post[p].pieces
         \/ /\ post[p].phase = "storing" /\ post'[p].phase = "closing"
            /\ post'[p].pieces = post[p].pieces
         \/ /\ post[p].phase = "generating" /\ post'[p].phase = "sending"
            /\ Len(post'[p].pieces) \in 1..MaxParts
  <2>1. CASE Hosted!InsertQuestion(p)
    BY <1>1, <2>1 DEF Hosted!InsertQuestion, Handlers, PostPhases
  <2>2. CASE Hosted!Abandon(p)
    BY <1>1, <2>2 DEF Hosted!Abandon, Handlers, PostPhases
  <2>3. CASE Hosted!Answer(p)
    <3>1. PICK n \in 1..MaxParts : \E says \in Hosted!Says(p, n), split \in Hosted!Splits(p, n) :
            post' = [post EXCEPT ![p].phase = "sending", ![p].pieces = Hosted!Lossy(says, split)]
      BY <2>3 DEF Hosted!Answer
    <3>2. PICK says \in Hosted!Says(p, n), split \in Hosted!Splits(p, n) :
            post' = [post EXCEPT ![p].phase = "sending", ![p].pieces = Hosted!Lossy(says, split)]
      BY <3>1
    <3>3. n \in Nat /\ post[p].phase = "generating"
      BY <2>3, BoundsAreNumbers DEF Hosted!Answer
    <3>4. Hosted!Lossy(says, split) \in [1..n -> Readings]
      BY DEF Hosted!Says, Hosted!Lossy, Readings
    <3> DEFINE pieces == Hosted!Lossy(says, split)
    <3>5. pieces \in Seq(Readings) /\ Len(pieces) = n
      BY <3>3, <3>4
    <3> HIDE DEF pieces
    <3>6. post' = [post EXCEPT ![p].phase = "sending", ![p].pieces = pieces]
      BY <3>2 DEF pieces
    <3> QED
      BY <1>1, <3>3, <3>5, <3>6 DEF Handlers, PostPhases
  <2>4. CASE Hosted!StoreAnswer(p)
    BY <1>1, <2>4 DEF Hosted!StoreAnswer, Handlers, PostPhases
  <2>5. CASE post[p].phase = "looking" /\ post' = [post EXCEPT ![p].phase = "creating"]
    BY <1>1, <2>5 DEF Handlers, PostPhases
  <2> QED
    BY <2>1, <2>2, <2>3, <2>4, <2>5
<1>3. \A q \in Posts : Hosted!Generating(q)' <=> Hosted!Generating(q)
  BY <1>2 DEF Hosted!Generating
<1>4. \A q \in Posts : post'[q].channel = post[q].channel
  BY <1>2
<1>5. HostedShape'
  BY <1>1, <1>2, <1>3, <1>4 DEF HostedShape, Subscribed
<1>6. Promised'
  <2>1. /\ Len(post[p].pieces) <= MaxParts
        /\ post[p].phase # "sending" => post[p].sent = Len(post[p].pieces)
        /\ post[p].phase \in Early => Len(post[p].pieces) = 0
    BY <1>1 DEF Promised
  <2>2. Len(post'[p].pieces) <= MaxParts /\ post'[p].phase # "none"
    BY <1>2, <2>1, BoundsAreNumbers
  <2>3. post'[p].phase = "sending" => post'[p].sent < Len(post'[p].pieces)
    <3> SUFFICES ASSUME post'[p].phase = "sending" PROVE post'[p].sent < Len(post'[p].pieces)
      OBVIOUS
    <3>1. post[p].phase = "generating" /\ Len(post'[p].pieces) \in 1..MaxParts
      BY <1>2
    <3> QED
      BY <1>2, <2>1, <3>1 DEF Early
  <2>4. post'[p].phase # "sending" => post'[p].sent = Len(post'[p].pieces)
    BY <1>2, <2>1
  <2>5. post'[p].phase \in Early => Len(post'[p].pieces) = 0
    BY <1>2, <2>1 DEF Early
  <2> QED
    BY <1>1, <1>2, <2>2, <2>3, <2>4, <2>5 DEF Promised
<1>7. Remain /\ NothingNew
  BY <1>1, Untouched
<1>8. \A q \in Posts : AsFar(q) \/ post[q].phase \in Early
  BY <1>2 DEF AsFar, Early
<1> QED
  BY <1>1, <1>3, <1>5, <1>6, <1>7, <1>8, NothingSent, NoneStarts, StreamsStay

\* The generation starts, on a channel that is there.
LEMMA SpawnKeeps ==
  ASSUME HostedInv, NEW p \in Posts, post[p].phase \in {"looking", "creating"},
         NEW c \in 1..Len(channels'), Hosted!Spawn(p, c), UNCHANGED stream,
         channels' \in Seq(Seq(Sendings)), Len(channels') >= Len(channels),
         entry' \in 0..Len(channels'), Remain, NothingNew
  PROVE  HostedInv'
<1>1. /\ HostedShape /\ Promised /\ Alone
      /\ post \in [Posts -> Handlers] /\ post[p] \in Handlers
      /\ Len(channels) \in Nat /\ Len(channels') \in Nat
  BY DEF HostedInv, HostedShape
<1>2. /\ post' \in [Posts -> Handlers] /\ \A q \in Posts \ {p} : post'[q] = post[q]
      /\ post'[p].channel = c /\ post'[p].sent = post[p].sent /\ post'[p].pieces = post[p].pieces
      /\ post'[p].phase = "generating"
  <2>1. c \in Nat /\ post' = [post EXCEPT ![p].phase = "generating", ![p].channel = c]
    BY <1>1 DEF Hosted!Spawn
  <2> QED
    BY <1>1, <2>1 DEF Handlers, PostPhases
<1>3. HostedShape'
  <2>1. \A q \in Posts : /\ post'[q].channel \in 0..Len(channels')
                         /\ Hosted!Generating(q)' => post'[q].channel # Hosted!NoChannel
    <3>1. \A q \in Posts \ {p} : Hosted!Generating(q)' <=> Hosted!Generating(q)
      BY <1>2 DEF Hosted!Generating
    <3>2. \A q \in Posts : /\ post[q].channel \in 0..Len(channels)
                           /\ Hosted!Generating(q) => post[q].channel # Hosted!NoChannel
      BY <1>1 DEF HostedShape
    <3>3. \A n \in 0..Len(channels) : n \in 0..Len(channels')
      BY <1>1
    <3>4. c \in 0..Len(channels') /\ c # Hosted!NoChannel
      BY <1>1 DEF Hosted!NoChannel
    <3> QED
      BY <1>2, <3>1, <3>2, <3>3, <3>4
  <2>2. \A s \in Streams : stream[s].channel \in 0..Len(channels')
    BY <1>1 DEF HostedShape
  <2> QED
    BY <1>1, <1>2, <2>1, <2>2 DEF HostedShape, Subscribed
<1>4. Promised'
  <2>1. \A q \in Posts : post'[q].sent = post[q].sent /\ post'[q].pieces = post[q].pieces
    BY <1>2
  <2>2. \A q \in Posts : /\ post'[q].phase = "sending" <=> post[q].phase = "sending"
                         /\ post'[q].phase \in Early <=> post[q].phase \in Early
    BY <1>2 DEF Early
  <2> QED
    BY <1>1, <2>1, <2>2 DEF Promised
<1>5. overlaps \subseteq overlaps'
  BY DEF Hosted!Spawn
<1>6. Alone'
  <2> SUFFICES ASSUME NEW q \in Posts \ overlaps', Hosted!Generating(q)',
                      NEW r \in Posts \ {q}, Hosted!Generating(r)'
               PROVE  FALSE
    BY DEF Alone
  <2>1. \A t \in Posts \ {p} : Hosted!Generating(t)' => Hosted!Generating(t)
    BY <1>2 DEF Hosted!Generating
  <2>2. \A t \in Posts : Hosted!Generating(t) => t \in overlaps' /\ p \in overlaps'
    BY DEF Hosted!Spawn
  <2>3. q # p /\ r # p
    BY <2>1, <2>2
  <2> QED
    BY <1>1, <1>5, <2>1, <2>3 DEF Alone
<1>7. \A q \in Posts : AsFar(q) \/ post[q].phase \in Early
  BY <1>2 DEF AsFar, Early
<1> QED
  BY <1>1, <1>3, <1>4, <1>5, <1>6, <1>7, NothingSent, StreamsStay

-----------------------------------------------------------------------------
(* The steps that send.                                                    *)

\* p sends m and goes on.
Advances(p, m) ==
  \/ /\ post[p].phase = "generating" /\ m = Hosted!Error(p)
     /\ post'[p].phase \in {"closing", "over"} /\ post'[p].sent = post[p].sent
  \/ /\ post[p].phase = "sending" /\ m = Shown(p, post[p].sent + 1)
     /\ post'[p].sent = post[p].sent + 1
     /\ post'[p].phase = IF post[p].sent + 1 = Len(post[p].pieces) THEN "storing" ELSE "sending"
  \/ /\ post[p].phase = "closing" /\ m = Hosted!Done(p)
     /\ post'[p].phase = "over" /\ post'[p].sent = post[p].sent

Sends(p, m) ==
  /\ Hosted!SendTo(p, m) /\ Advances(p, m)
  /\ post' \in [Posts -> Handlers] /\ \A q \in Posts \ {p} : post'[q] = post[q]
  /\ post'[p].channel = post[p].channel /\ post'[p].pieces = post[p].pieces
  /\ UNCHANGED <<entry, stream, overlaps>>

\* Each step that sends is one message to the channel of its own post.
LEMMA SendersAdvance ==
  ASSUME HostedShape, NEW p \in Posts,
         Hosted!FailEarly(p) \/ Hosted!FailLate(p) \/ Hosted!SendChunk(p) \/ Hosted!SendDone(p),
         Promised
  PROVE  \E m \in Sendings : m.post = p /\ Sends(p, m)
<1>1. post \in [Posts -> Handlers] /\ post[p] \in Handlers
  BY DEF HostedShape
<1>2. CASE Hosted!FailEarly(p)
  <2>1. Hosted!Error(p) \in Sendings /\ Hosted!Error(p).post = p
    BY DEF Hosted!Error, Sendings, Readings
  <2>2. Sends(p, Hosted!Error(p))
    BY <1>1, <1>2 DEF Hosted!FailEarly, Sends, Advances, Handlers, PostPhases
  <2> QED
    BY <2>1, <2>2
<1>3. CASE Hosted!FailLate(p)
  <2>1. Hosted!Error(p) \in Sendings /\ Hosted!Error(p).post = p
    BY DEF Hosted!Error, Sendings, Readings
  <2>2. Sends(p, Hosted!Error(p))
    BY <1>1, <1>3 DEF Hosted!FailLate, Sends, Advances, Handlers, PostPhases
  <2> QED
    BY <2>1, <2>2
<1>4. CASE Hosted!SendChunk(p)
  <2> DEFINE i == post[p].sent + 1
             to == IF i = Len(post[p].pieces) THEN "storing" ELSE "sending"
  <2>1. i \in Nat /\ to \in PostPhases /\ post[p].phase = "sending"
    BY <1>1, <1>4 DEF Hosted!SendChunk, Handlers, PostPhases
  <2>2. Shown(p, i) \in Sendings /\ Shown(p, i).post = p
    <3>1. post[p].pieces \in Seq(Readings) /\ post[p].sent \in Nat
      BY <1>1 DEF Handlers
    <3>2. i \in 1..Len(post[p].pieces)
      BY <2>1, <3>1 DEF Promised
    <3>3. post[p].pieces[i] \in Readings
      BY <3>1, <3>2
    <3> QED
      BY <2>1, <3>3 DEF Shown, Hosted!Piece, Sendings
  <2>3. /\ Hosted!SendTo(p, Shown(p, i)) /\ UNCHANGED <<entry, stream, overlaps>>
        /\ post' = [post EXCEPT ![p].sent = i, ![p].phase = to]
    BY <1>1, <1>4, <2>1 DEF Hosted!SendChunk, Shown
  <2> HIDE DEF i, to
  <2>4. /\ post' \in [Posts -> Handlers] /\ \A q \in Posts \ {p} : post'[q] = post[q]
        /\ post'[p].channel = post[p].channel /\ post'[p].pieces = post[p].pieces
        /\ post'[p].sent = i /\ post'[p].phase = to
    BY <1>1, <2>1, <2>3 DEF Handlers
  <2>5. Advances(p, Shown(p, i))
    BY <2>1, <2>4 DEF Advances, i, to
  <2> QED
    BY <2>2, <2>3, <2>4, <2>5 DEF Sends
<1>5. CASE Hosted!SendDone(p)
  <2>1. Hosted!Done(p) \in Sendings /\ Hosted!Done(p).post = p
    BY DEF Hosted!Done, Sendings, Readings
  <2>2. Sends(p, Hosted!Done(p))
    BY <1>1, <1>5 DEF Hosted!SendDone, Sends, Advances, Handlers, PostPhases
  <2> QED
    BY <2>1, <2>2
<1> QED
  BY <1>2, <1>3, <1>4, <1>5

\* A send keeps to the number of chunks the answer has.
LEMMA SendingPromised ==
  ASSUME HostedShape, Promised, NEW p \in Posts, NEW m, Sends(p, m)
  PROVE  Promised'
<1>1. /\ Len(post[p].pieces) <= MaxParts
      /\ post[p].phase \in Early => Len(post[p].pieces) = 0
      /\ post[p].phase = "sending" => post[p].sent < Len(post[p].pieces)
      /\ post[p].phase # "sending" => post[p].sent = Len(post[p].pieces)
      /\ post[p].sent \in Nat /\ Len(post[p].pieces) \in Nat
  BY DEF Promised, HostedShape, Handlers
<1>2. post'[p].pieces = post[p].pieces /\ \A q \in Posts \ {p} : post'[q] = post[q]
  BY DEF Sends
<1>3. /\ post'[p].phase \in Early => Len(post'[p].pieces) = 0
      /\ post'[p].phase = "sending" => post'[p].sent < Len(post'[p].pieces)
      /\ post'[p].phase # "sending" => post'[p].sent = Len(post'[p].pieces)
  BY <1>1, <1>2 DEF Sends, Advances, Early
<1> QED
  BY <1>1, <1>2, <1>3 DEF Promised

\* The run of the one that sends.
LEMMA OwnRun ==
  ASSUME HostedInv, HostedShape', NEW p \in Posts \ overlaps, Hosted!Generating(p), NEW m \in Sendings,
         Sends(p, m), NEW k \in DOMAIN channels'[post[p].channel],
         Begins(channels'[post[p].channel][k], p)
  PROVE  RunsFrom(p, k, channels[post[p].channel])'
<1> DEFINE c == post[p].channel
           log == channels[c]
           new == channels'[c]
           n == post[p].sent
<1>1. /\ HostedShape /\ Origins /\ Runs /\ c \in DOMAIN channels /\ log \in Seq(Sendings)
      /\ n \in Nat /\ post'[p].channel = c /\ post'[p].pieces = post[p].pieces
  <2>1. /\ HostedShape /\ Origins /\ Runs /\ channels \in Seq(Seq(Sendings)) /\ post[p] \in Handlers
        /\ c \in 0..Len(channels) /\ c # Hosted!NoChannel
    BY DEF HostedInv, HostedShape
  <2>2. c \in DOMAIN channels /\ log \in Seq(Sendings) /\ n \in Nat
    BY <2>1 DEF Hosted!NoChannel, Handlers
  <2> QED
    BY <2>1, <2>2 DEF Sends
<1>2. /\ Len(new) = Len(log) + 1 /\ new[Len(log) + 1] = m
      /\ new \in Seq(Sendings)
      /\ k \in DOMAIN log \/ k = Len(log) + 1
      /\ \A i \in DOMAIN log : new[i] = log[i]
  <2>1. HostedShape /\ c \in DOMAIN channels /\ Hosted!SendTo(p, m)
    BY <1>1 DEF Sends
  <2>2. /\ channels' \in Seq(Seq(Sendings)) /\ DOMAIN channels' = DOMAIN channels /\ Remain
        /\ \A d \in DOMAIN channels' : \A j \in DOMAIN channels'[d] : Old(d, j) \/ New(d, j, p, m)
        /\ Len(new) = Len(log) + 1 /\ new[Len(log) + 1] = m
    BY <2>1, Sent
  <2> QED
    BY <2>1, <2>2 DEF Old, New, Remain
<1>3. /\ DOMAIN log = 1..Len(log) /\ Len(log) \in Nat /\ DOMAIN new = 1..(Len(log) + 1)
  BY <1>1, <1>2
<1>4. RunsFrom(p, k, channels[c])' <=>
        /\ \A i \in 1..post'[p].sent : k + i - 1 \in DOMAIN new /\ new[k + i - 1] = Shown(p, i)
        /\ Hosted!Generating(p)' => Len(new) = k + post'[p].sent - 1
        /\ post'[p].phase = "over" => /\ k + post'[p].sent \in DOMAIN new
                                      /\ new[k + post'[p].sent] = Hosted!Done(p)
  BY <1>1, Zenon DEF RunsFrom, Shown, Hosted!Piece, Hosted!Done
<1>5. CASE k \in DOMAIN log
  <2>1. Begins(log[k], p) /\ log[k] \in Sendings
    BY <1>1, <1>2, <1>5
  <2>2. post[p].phase \in {"sending", "closing"}
    BY <1>1, <1>5, <2>1 DEF Origins, SendsOn, Begins, Sends, Advances
  <2>3. RunsFrom(p, k, log)
    BY <1>1, <1>5, <2>1 DEF Runs
  <2>4. /\ Len(log) = k + n - 1
        /\ \A i \in 1..n : k + i - 1 \in DOMAIN log /\ log[k + i - 1] = Shown(p, i)
    BY <2>2, <2>3 DEF RunsFrom, Hosted!Generating
  <2> HIDE DEF c, log, new, n
  <2>5. CASE post[p].phase = "sending"
    <3>1. m = Shown(p, n + 1) /\ post'[p].sent = n + 1 /\ post'[p].phase # "over"
      BY <2>5 DEF Sends, Advances, n
    <3>2. \A i \in 1..(n + 1) : i \in 1..n \/ i = n + 1
      BY <1>1
    <3>3. k + (n + 1) - 1 = Len(log) + 1 /\ Len(log) + 1 \in DOMAIN new
      BY <1>1, <1>3, <1>5, <2>4
    <3>4. \A i \in 1..n : k + i - 1 \in DOMAIN new /\ new[k + i - 1] = Shown(p, i)
      BY <1>2, <1>3, <2>4
    <3>5. \A i \in 1..(n + 1) : k + i - 1 \in DOMAIN new /\ new[k + i - 1] = Shown(p, i)
      BY <1>2, <3>1, <3>2, <3>3, <3>4
    <3>6. Len(new) = k + (n + 1) - 1
      BY <1>2, <3>3
    <3> QED
      BY <1>4, <3>1, <3>5, <3>6 DEF c
  <2>6. CASE post[p].phase = "closing"
    <3>1. m = Hosted!Done(p) /\ post'[p].sent = n /\ post'[p].phase = "over" /\ ~Hosted!Generating(p)'
      BY <2>6 DEF Sends, Advances, n, Hosted!Generating
    <3>2. k + n = Len(log) + 1 /\ Len(log) + 1 \in DOMAIN new
      BY <1>1, <1>3, <1>5, <2>4
    <3>3. \A i \in 1..n : k + i - 1 \in DOMAIN new /\ new[k + i - 1] = Shown(p, i)
      BY <1>2, <1>3, <2>4
    <3> QED
      BY <1>2, <1>4, <3>1, <3>2, <3>3 DEF c
  <2> QED
    BY <2>2, <2>5, <2>6
<1>6. CASE k = Len(log) + 1
  <2>1. Begins(m, p)
    BY <1>2, <1>6
  <2>2. /\ post[p].phase = "sending" /\ n = 0 /\ post'[p].sent = 1 /\ post'[p].phase # "over"
        /\ m = Shown(p, 1)
    BY <1>1, <2>1 DEF Sends, Advances, Shown, Begins, Hosted!Piece, Hosted!Error, Hosted!Done
  <2> HIDE DEF c, log, new, n
  <2>3. \A i \in 1..1 : i = 1
    OBVIOUS
  <2>4. k + 1 - 1 = k /\ k \in DOMAIN new /\ new[k] = Shown(p, 1) /\ Len(new) = k
    BY <1>2, <1>3, <1>6, <2>2
  <2> QED
    BY <1>4, <2>2, <2>3, <2>4 DEF c
<1> QED
  BY <1>2, <1>5, <1>6

\* A send keeps the invariant: it goes after the run it belongs to.
LEMMA SendKeeps ==
  ASSUME HostedInv, NEW p \in Posts, NEW m \in Sendings, m.post = p, Sends(p, m)
  PROVE  HostedInv'
<1>1. /\ HostedShape /\ Promised /\ Alone /\ Origins /\ Runs
      /\ \A q \in Posts \ {p} : post'[q] = post[q]
      /\ UNCHANGED <<entry, stream, overlaps>>
      /\ post'[p].channel = post[p].channel
      /\ Hosted!Generating(p)
  BY DEF HostedInv, Sends, Advances, Hosted!Generating
<1>2. /\ channels' \in Seq(Seq(Sendings)) /\ Len(channels') = Len(channels)
      /\ DOMAIN channels' = DOMAIN channels
      /\ Remain
      /\ \A c \in DOMAIN channels' : \A k \in DOMAIN channels'[c] : Old(c, k) \/ New(c, k, p, m)
  BY <1>1, Sent DEF Sends
<1>3. \A q \in Posts : Hosted!Generating(q)' => Hosted!Generating(q)
  BY <1>1 DEF Hosted!Generating
<1>4. HostedShape'
  BY <1>1, <1>2, <1>3 DEF HostedShape, Sends, Subscribed
<1>5. Promised'
  BY <1>1, SendingPromised
<1>6. Alone' /\ Reads'
  BY <1>1, <1>2, <1>3, <1>4, NoneStarts, StreamsStay
<1>7. Origins'
  <2> SUFFICES ASSUME NEW c \in DOMAIN channels', NEW k \in DOMAIN channels'[c]
               PROVE  SendsOn(c, channels[c][k].post)'
    BY DEF Origins
  <2>1. SendsOn(post[p].channel, p)'
    BY <1>1 DEF SendsOn, Sends, Advances
  <2>2. CASE New(c, k, p, m)
    BY <1>1, <2>1, <2>2 DEF New, SendsOn
  <2>3. CASE Old(c, k)
    <3>1. channels'[c][k] = channels[c][k] /\ channels[c][k] \in Sendings
      BY <1>1, <1>2, <2>3 DEF Old, Remain, HostedShape
    <3>2. SendsOn(c, channels[c][k].post) /\ channels[c][k].post \in Posts
      BY <1>1, <2>3, <3>1 DEF Origins, Old, Sendings
    <3> DEFINE q == channels[c][k].post
    <3>3. CASE q # p
      BY <1>1, <3>1, <3>2, <3>3 DEF SendsOn
    <3>4. CASE q = p
      <4>1. post[p].phase \in {"sending", "closing"}
        BY <3>2, <3>4 DEF SendsOn, Sends, Advances
      <4> QED
        BY <1>1, <3>1, <3>2, <3>4, <4>1 DEF SendsOn, Sends, Advances
    <3> QED
      BY <3>3, <3>4
  <2> QED
    BY <1>2, <2>2, <2>3
<1>8. Runs'
  <2> SUFFICES ASSUME NEW c \in DOMAIN channels', NEW k \in DOMAIN channels'[c],
                      NEW q \in Posts \ overlaps, Begins(channels'[c][k], q)
               PROVE  RunsFrom(q, k, channels[c])'
    BY <1>1 DEF Runs, Begins
  <2>1. CASE q = p
    <3>1. c = post[p].channel
      <4>1. CASE New(c, k, p, m)
        BY <4>1 DEF New
      <4>2. CASE Old(c, k)
        BY <1>1, <1>2, <2>1, <4>2 DEF Old, Remain, Origins, SendsOn, Begins
      <4> QED
        BY <1>2, <4>1, <4>2
    <3> QED
      BY <1>1, <1>4, <2>1, <3>1, OwnRun
  <2>2. CASE q # p
    <3>1. Old(c, k) /\ Begins(channels[c][k], q)
      BY <1>2, <2>2 DEF New, Begins, Old, Remain
    <3>2. RunsFrom(q, k, channels[c]) /\ ~Hosted!Generating(q) /\ AsFar(q)
      BY <1>1, <2>2, <3>1 DEF Runs, Old, Alone, AsFar
    <3> QED
      BY <1>1, <1>2, <3>1, <3>2, RunRemains DEF Old
  <2> QED
    BY <2>1, <2>2
<1> QED
  BY <1>4, <1>5, <1>6, <1>7, <1>8 DEF HostedInv

-----------------------------------------------------------------------------
(* The steps of a stream.                                                  *)

\* What holds of the one stream that moves is enough.
LEMMA StreamKeeps ==
  ASSUME HostedInv, UNCHANGED <<post, overlaps>>, Remain, NothingNew,
         channels' \in Seq(Seq(Sendings)), Len(channels') >= Len(channels),
         entry' \in 0..Len(channels'),
         NEW s \in Streams, NEW x \in Readers, stream' = [stream EXCEPT ![s] = x],
         x.channel \in 0..Len(channels'),
         x.phase \in {"open", "ended"} => x.channel # Hosted!NoChannel,
         TextsFirst(x),
         x.phase \in {"open", "ended"} /\ ~x.lagged => IsPieceOf(x, channels'[x.channel])
  PROVE  HostedInv'
<1>1. /\ HostedShape /\ Promised /\ Reads /\ Len(channels) \in Nat /\ Len(channels') \in Nat
      /\ stream \in [Streams -> Readers]
  BY DEF HostedInv, HostedShape
<1>2. /\ stream' \in [Streams -> Readers] /\ stream'[s] = x
      /\ \A t \in Streams \ {s} : stream'[t] = stream[t]
  BY <1>1
<1>3. \A n \in 0..Len(channels) : n \in 0..Len(channels')
  BY <1>1
<1>4. HostedShape'
  <2>1. \A p \in Posts : /\ post[p].channel \in 0..Len(channels')
                         /\ Hosted!Generating(p)' => post[p].channel # Hosted!NoChannel
    BY <1>1, <1>3 DEF HostedShape, Hosted!Generating
  <2>2. \A t \in Streams : /\ stream'[t].channel \in 0..Len(channels')
                           /\ Subscribed(t)' => stream'[t].channel # Hosted!NoChannel
    BY <1>1, <1>2, <1>3 DEF HostedShape, Subscribed
  <2> QED
    BY <1>1, <1>2, <2>1, <2>2 DEF HostedShape
<1>5. Promised'
  BY <1>1 DEF Promised
<1>6. Alone'
  BY NoneStarts DEF Hosted!Generating
<1>7. Reads'
  <2> SUFFICES ASSUME NEW t \in Streams
               PROVE  /\ TextsFirst(stream'[t])
                      /\ Subscribed(t)' /\ ~stream'[t].lagged
                           => IsPieceOf(stream'[t], channels'[stream'[t].channel])
    BY Zenon DEF Reads, TextsFirst, IsPieceOf
  <2>1. CASE t = s
    BY <1>2, <2>1 DEF Subscribed
  <2>2. CASE t # s
    <3>1. stream'[t] = stream[t] /\ TextsFirst(stream[t]) /\ Subscribed(t)' = Subscribed(t)
      BY <1>1, <1>2, <2>2 DEF Reads, Subscribed
    <3> QED
      BY <1>4, <3>1, PieceRemains
  <2> QED
    BY <2>1, <2>2
<1>8. \A q \in Posts : AsFar(q)
  BY DEF AsFar
<1> QED
  BY <1>4, <1>5, <1>6, <1>7, <1>8, NothingSent

\* A stream that subscribes has read nothing and starts behind the last message.
LEMMA SubscribeKeeps ==
  ASSUME HostedInv, UNCHANGED <<post, overlaps>>, Remain, NothingNew,
         channels' \in Seq(Seq(Sendings)), Len(channels') >= Len(channels),
         entry' \in 0..Len(channels'),
         NEW s \in Streams, stream[s].phase \in {"looking", "creating"},
         NEW c \in 1..Len(channels'), Hosted!Subscribe(s, c)
  PROVE  HostedInv'
<1> DEFINE n == Len(channels'[c]) + 1
           x == [stream[s] EXCEPT !.phase = "open", !.channel = c, !.next = n]
<1>1. /\ stream[s] \in Readers /\ stream[s].got = <<>> /\ stream' = [stream EXCEPT ![s] = x]
      /\ Len(channels') \in Nat
  <2>1. stream \in [Streams -> Readers] /\ stream[s].got = <<>>
    BY DEF HostedInv, HostedShape, Reads, TextsFirst
  <2>2. stream' = [stream EXCEPT ![s].phase = "open", ![s].channel = c, ![s].next = n]
    BY DEF Hosted!Subscribe
  <2> HIDE DEF n
  <2>3. stream' = [stream EXCEPT ![s] = x]
    BY <2>1, <2>2
  <2>4. Len(channels') \in Nat
    OBVIOUS
  <2> QED
    BY <2>1, <2>3, <2>4
<1>2. channels'[c] \in Seq(Sendings) /\ Len(channels'[c]) \in Nat /\ c \in Nat
  BY <1>1
<1>3. n \in Nat \ {0}
  BY <1>2
<1> HIDE DEF n
<1>4. /\ x \in Readers /\ x.phase = "open" /\ x.channel = c /\ x.next = n /\ x.got = <<>>
  BY <1>1, <1>2, <1>3 DEF Readers
<1> HIDE DEF x
<1>5. TextsFirst(x)
  BY <1>4 DEF TextsFirst
<1>6. IsPieceOf(x, channels'[x.channel])
  BY <1>2, <1>3, <1>4 DEF IsPieceOf, n
<1>7. c \in 0..Len(channels') /\ c # Hosted!NoChannel
  BY <1>1 DEF Hosted!NoChannel
<1> QED
  BY <1>1, <1>4, <1>5, <1>6, <1>7, StreamKeeps

\* A stream that opens or finds no channel has no channel yet.
LEMMA WaitKeeps ==
  ASSUME HostedInv, UNCHANGED <<post, overlaps, channels, entry>>, NEW s \in Streams,
         stream[s].phase \in {"none", "looking"}, NEW to \in {"looking", "creating"},
         stream' = [stream EXCEPT ![s].phase = to]
  PROVE  HostedInv'
<1> DEFINE x == [stream[s] EXCEPT !.phase = to]
<1>1. /\ HostedShape /\ stream[s] \in Readers /\ stream[s].got = <<>>
      /\ stream' = [stream EXCEPT ![s] = x]
      /\ stream[s].channel \in 0..Len(channels) /\ entry \in 0..Len(channels)
  BY DEF HostedInv, HostedShape, Reads, TextsFirst
<1>2. /\ x \in Readers /\ x.phase = to /\ x.channel = stream[s].channel /\ x.got = <<>>
  BY <1>1 DEF Readers
<1> HIDE DEF x
<1>3. TextsFirst(x)
  BY <1>2 DEF TextsFirst
<1>4. /\ channels' \in Seq(Seq(Sendings)) /\ Len(channels') >= Len(channels)
      /\ Remain /\ NothingNew
  BY <1>1, Untouched
<1> QED
  BY <1>1, <1>2, <1>3, <1>4, StreamKeeps

\* The place of the message a subscriber gets next, as a number.
LEMMA LastPlace == \A a \in Int, l \in Nat : a - l - 1 + (l + 1) = a
  OBVIOUS

\* A message received extends the piece of the log, or the subscriber lags.
LEMMA ReceiveKeeps ==
  ASSUME HostedInv, NEW s \in Streams, Hosted!Receive(s)
  PROVE  HostedInv'
<1> DEFINE old == stream[s]
           log == channels[old.channel]
           lags == Len(log) - old.next >= Capacity
           at == IF lags THEN Len(log) - Capacity + 1 ELSE old.next
           to == IF Hosted!IsEnd(log[at]) THEN "ended" ELSE "open"
           x == [old EXCEPT !.next = at + 1, !.got = Append(old.got, log[at]),
                            !.lagged = old.lagged \/ lags, !.phase = to]
<1>1. /\ HostedShape /\ old \in Readers /\ TextsFirst(old) /\ old.phase = "open"
      /\ channels \in Seq(Seq(Sendings)) /\ old.channel \in DOMAIN channels
      /\ old.channel \in 0..Len(channels) /\ entry \in 0..Len(channels)
      /\ ~old.lagged => IsPieceOf(old, log)
      /\ UNCHANGED <<rows, channels, entry, post, overlaps>>
  <2>1. HostedShape /\ Reads /\ old.phase = "open" /\ Subscribed(s)
    BY DEF HostedInv, Hosted!Receive, Subscribed
  <2>2. /\ old \in Readers /\ channels \in Seq(Seq(Sendings)) /\ entry \in 0..Len(channels)
        /\ old.channel \in 0..Len(channels) /\ old.channel # Hosted!NoChannel
    BY <2>1 DEF HostedShape
  <2>3. TextsFirst(old) /\ (~old.lagged => IsPieceOf(old, log))
    BY <2>1 DEF Reads
  <2>4. old.channel \in DOMAIN channels
    BY <2>2 DEF Hosted!NoChannel
  <2>5. UNCHANGED <<rows, channels, entry, post, overlaps>>
    BY DEF Hosted!Receive
  <2> QED
    BY <2>1, <2>2, <2>3, <2>4, <2>5
<1>2. at <= Len(log) /\ stream' = [stream EXCEPT ![s] = x]
  BY <1>1 DEF Hosted!Receive, HostedShape
<1>3. /\ log \in Seq(Sendings) /\ Len(log) \in Nat /\ DOMAIN log = 1..Len(log)
      /\ old.next \in Nat \ {0} /\ old.got \in Seq(Sendings)
  BY <1>1 DEF Readers
<1>4. at \in 1..Len(log) /\ at + 1 \in Nat \ {0} /\ (~lags => at = old.next)
  <2>1. at <= Len(log) /\ Len(log) \in Nat /\ old.next \in Nat \ {0}
    BY <1>2, <1>3
  <2> HIDE DEF old, log
  <2>2. Capacity \in Nat \ {0}
    BY BoundsAreNumbers
  <2>3. CASE lags
    BY <2>1, <2>2, <2>3
  <2>4. CASE ~lags
    BY <2>1, <2>4
  <2> QED
    BY <2>3, <2>4
<1>5. log[at] \in Sendings
  BY <1>3, <1>4
<1>6. lags \in BOOLEAN /\ old.lagged \in BOOLEAN
  BY <1>1 DEF Readers
<1> HIDE DEF log, lags, at
<1>7. /\ Append(old.got, log[at]) \in Seq(Sendings)
      /\ Len(Append(old.got, log[at])) = Len(old.got) + 1
      /\ DOMAIN old.got = 1..Len(old.got) /\ Len(old.got) \in Nat
      /\ DOMAIN Append(old.got, log[at]) = 1..(Len(old.got) + 1)
      /\ \A i \in 1..Len(old.got) : Append(old.got, log[at])[i] = old.got[i]
      /\ Append(old.got, log[at])[Len(old.got) + 1] = log[at]
  BY <1>3, <1>5
<1> DEFINE got == Append(old.got, log[at])
<1> HIDE DEF got
<1>8. to \in {"open", "ended"} /\ (to = "ended" <=> Hosted!IsEnd(log[at]))
  OBVIOUS
<1> HIDE DEF to
<1>9. x = [old EXCEPT !.next = at + 1, !.got = got, !.lagged = old.lagged \/ lags, !.phase = to]
  BY DEF got
<1> HIDE DEF old
<1>10. /\ x.phase = to /\ x.channel = old.channel /\ x.next = at + 1 /\ x.got = got
  BY <1>1, <1>9 DEF Readers
<1>11. x.lagged = (old.lagged \/ lags)
  BY <1>1, <1>9, Zenon DEF Readers
<1>12. x \in Readers
  <2>1. (old.lagged \/ lags) \in BOOLEAN
    OBVIOUS
  <2> DEFINE lagged == old.lagged \/ lags
  <2> HIDE DEF lagged
  <2>2. lagged \in BOOLEAN /\ got \in Seq(Sendings)
    BY <1>7, <2>1 DEF lagged, got
  <2>3. x = [old EXCEPT !.next = at + 1, !.got = got, !.lagged = lagged, !.phase = to]
    BY <1>9 DEF lagged
  <2> QED
    BY <1>1, <1>4, <1>8, <2>2, <2>3 DEF Readers
<1> HIDE DEF x
<1>13. TextsFirst(x)
  <2>1. \A i \in 1..Len(old.got) : ~Hosted!IsEnd(old.got[i])
    BY <1>1, <1>7 DEF TextsFirst
  <2>2. ASSUME NEW i \in DOMAIN got
        PROVE  Hosted!IsEnd(got[i]) <=> to = "ended" /\ i = Len(got)
    <3>1. CASE i \in 1..Len(old.got)
      BY <1>7, <2>1, <3>1 DEF got
    <3>2. CASE i = Len(old.got) + 1
      BY <1>7, <1>8, <3>2 DEF got
    <3> QED
      BY <1>7, <2>2, <3>1, <3>2 DEF got
  <2>3. got # <<>>
    BY <1>7 DEF got
  <2> QED
    BY <1>8, <1>10, <2>2, <2>3 DEF TextsFirst
<1>14. ASSUME ~x.lagged
       PROVE  IsPieceOf(x, log)
  <2>1. ~old.lagged /\ ~lags /\ at = old.next
    BY <1>4, <1>11, <1>14
  <2>2. /\ Len(old.got) < at
        /\ \A i \in 1..Len(old.got) : old.got[i] = log[at - Len(old.got) - 1 + i]
    BY <1>1, <1>7, <2>1 DEF IsPieceOf, log
  <2>3. /\ Len(got) = Len(old.got) + 1 /\ DOMAIN got = 1..(Len(old.got) + 1)
        /\ \A i \in 1..Len(old.got) : got[i] = old.got[i]
        /\ got[Len(old.got) + 1] = log[at]
    BY <1>7 DEF got
  <2>4. ASSUME NEW i \in 1..(Len(old.got) + 1)
        PROVE  got[i] = log[(at + 1) - Len(got) - 1 + i]
    <3>1. (at + 1) - Len(got) - 1 + i = at - Len(old.got) - 1 + i
      BY <1>3, <1>4, <1>7, <2>3
    <3>2. CASE i \in 1..Len(old.got)
      BY <2>2, <2>3, <3>1, <3>2
    <3>3. CASE i = Len(old.got) + 1
      <4>1. at \in Int
        BY <1>3, <1>4
      <4>2. at - Len(old.got) - 1 + i = at
        BY <1>7, <3>3, <4>1, LastPlace
      <4> QED
        BY <2>3, <3>1, <3>3, <4>2
    <3> QED
      BY <1>7, <3>2, <3>3
  <2>5. Len(got) < at + 1 /\ at + 1 <= Len(log) + 1
    BY <1>3, <1>4, <1>7, <2>2, <2>3
  <2> QED
    BY <1>10, <2>3, <2>4, <2>5 DEF IsPieceOf
<1>15. /\ channels' \in Seq(Seq(Sendings)) /\ Len(channels') >= Len(channels)
       /\ Remain /\ NothingNew
  BY <1>1, Untouched
<1>16. /\ channels'[x.channel] = log /\ x.channel \in 0..Len(channels') /\ entry' \in 0..Len(channels')
       /\ x.channel # Hosted!NoChannel
  BY <1>1, <1>10 DEF log, Hosted!NoChannel
<1> QED
  BY <1>1, <1>2, <1>12, <1>13, <1>14, <1>15, <1>16, StreamKeeps

-----------------------------------------------------------------------------

\* The hosted conversations start in the invariant.
LEMMA HostedInitial == Hosted!Init => HostedInv
<1> SUFFICES ASSUME Hosted!Init PROVE HostedInv
  OBVIOUS
<1>1. /\ channels = <<>> /\ DOMAIN channels = {} /\ Len(channels) = 0
      /\ channels \in Seq(Seq(Sendings)) /\ entry = 0
  BY DEF Hosted!Init, Hosted!NoChannel
<1>2. /\ post \in [Posts -> Handlers]
      /\ \A p \in Posts : /\ post[p].phase = "none" /\ post[p].channel = 0
                          /\ post[p].pieces = <<>> /\ post[p].sent = 0
  BY DEF Hosted!Init, Handlers, PostPhases, Hosted!NoChannel
<1>3. /\ stream \in [Streams -> Readers]
      /\ \A s \in Streams : /\ stream[s].phase = "none" /\ stream[s].channel = 0
                            /\ stream[s].got = <<>>
  BY DEF Hosted!Init, Readers, Hosted!NoChannel
<1>4. HostedShape
  BY <1>1, <1>2, <1>3 DEF HostedShape, Hosted!Generating, Subscribed
<1>5. Promised /\ Alone
  BY <1>2, BoundsAreNumbers DEF Promised, Alone, Hosted!Generating
<1>6. Origins /\ Runs
  BY <1>1 DEF Origins, Runs
<1>7. Reads
  BY <1>3 DEF Reads, TextsFirst, Subscribed
<1> QED
  BY <1>4, <1>5, <1>6, <1>7 DEF HostedInv

\* Every step of the hosted conversations keeps the invariant.
LEMMA HostedInductive == HostedInv /\ [Hosted!Next]_Hosted!vars => HostedInv'
<1> SUFFICES ASSUME HostedInv, [Hosted!Next]_Hosted!vars PROVE HostedInv'
  OBVIOUS
<1>1. /\ HostedShape /\ channels \in Seq(Seq(Sendings)) /\ Len(channels) \in Nat
      /\ entry \in 0..Len(channels)
  BY DEF HostedInv, HostedShape
<1>2. ASSUME NEW p \in Posts, Hosted!PostLooks(p)
      PROVE  HostedInv'
  <2>1. CASE Hosted!Missed(post[p])
    BY <1>2, <2>1, QuietKeeps DEF Hosted!PostLooks, Hosted!Missed, Hosted!Found
  <2>2. CASE Hosted!Found(post[p])
    <3>1. /\ post[p].phase = "looking" /\ Hosted!Spawn(p, entry) /\ UNCHANGED <<channels, entry, stream>>
          /\ entry \in 1..Len(channels')
      BY <1>1, <1>2, <2>2 DEF Hosted!PostLooks, Hosted!Missed, Hosted!Found, Hosted!NoChannel
    <3>2. /\ Remain /\ NothingNew /\ channels' \in Seq(Seq(Sendings))
          /\ Len(channels') >= Len(channels)
      BY <1>1, <3>1, Untouched
    <3> QED
      BY <1>1, <3>1, <3>2, SpawnKeeps
  <2> QED
    BY <1>2, <2>1, <2>2 DEF Hosted!PostLooks
<1>3. ASSUME NEW p \in Posts, Hosted!PostCreates(p)
      PROVE  HostedInv'
  <2>1. /\ Remain /\ NothingNew /\ channels' \in Seq(Seq(Sendings))
        /\ Len(channels') >= Len(channels) /\ entry' \in 1..Len(channels')
    BY <1>1, <1>3, Inserted DEF Hosted!PostCreates
  <2>2. entry' \in 0..Len(channels')
    BY <1>1, <2>1
  <2> QED
    BY <1>3, <2>1, <2>2, SpawnKeeps DEF Hosted!PostCreates
<1>4. ASSUME NEW p \in Posts, Hosted!Generate(p)
      PROVE  HostedInv'
  BY <1>1, <1>4, QuietKeeps, SendersAdvance, SendKeeps DEF Hosted!Generate, HostedInv
<1>5. ASSUME NEW p \in Posts, Hosted!InsertQuestion(p) \/ Hosted!Abandon(p)
      PROVE  HostedInv'
  BY <1>5, QuietKeeps
<1>6. ASSUME NEW s \in Streams, Hosted!Open(s)
      PROVE  HostedInv'
  BY <1>6, WaitKeeps DEF Hosted!Open
<1>7. ASSUME NEW s \in Streams, Hosted!StreamLooks(s)
      PROVE  HostedInv'
  <2>1. CASE Hosted!Missed(stream[s])
    BY <1>7, <2>1, WaitKeeps DEF Hosted!StreamLooks, Hosted!Missed, Hosted!Found
  <2>2. CASE Hosted!Found(stream[s])
    <3>1. /\ stream[s].phase = "looking" /\ Hosted!Subscribe(s, entry)
          /\ UNCHANGED <<channels, entry, post, overlaps>> /\ entry \in 1..Len(channels')
      BY <1>1, <1>7, <2>2 DEF Hosted!StreamLooks, Hosted!Missed, Hosted!Found, Hosted!NoChannel
    <3>2. /\ Remain /\ NothingNew /\ channels' \in Seq(Seq(Sendings))
          /\ Len(channels') >= Len(channels)
      BY <1>1, <3>1, Untouched
    <3> QED
      BY <1>1, <3>1, <3>2, SubscribeKeeps
  <2> QED
    BY <1>7, <2>1, <2>2 DEF Hosted!StreamLooks
<1>8. ASSUME NEW s \in Streams, Hosted!StreamCreates(s)
      PROVE  HostedInv'
  <2>1. /\ Remain /\ NothingNew /\ channels' \in Seq(Seq(Sendings))
        /\ Len(channels') >= Len(channels) /\ entry' \in 1..Len(channels')
    BY <1>1, <1>8, Inserted DEF Hosted!StreamCreates
  <2>2. entry' \in 0..Len(channels')
    BY <1>1, <2>1
  <2> QED
    BY <1>8, <2>1, <2>2, SubscribeKeeps DEF Hosted!StreamCreates
<1>9. ASSUME NEW s \in Streams, Hosted!Receive(s)
      PROVE  HostedInv'
  BY <1>9, ReceiveKeeps
<1>10. CASE UNCHANGED Hosted!vars
  BY <1>10 DEF Hosted!vars, HostedInv, HostedShape, Promised, Alone, Origins, Runs, Reads, Subscribed,
               Hosted!Generating, SendsOn, RunsFrom, Shown
<1> QED
  BY <1>2, <1>3, <1>4, <1>5, <1>6, <1>7, <1>8, <1>9, <1>10 DEF Hosted!Next

\* The invariant of the hosted conversations always holds.
LEMMA HostedInvariance == Hosted!Spec => []HostedInv
  BY HostedInitial, HostedInductive, PTL DEF Hosted!Spec

\* The invariant gives the type, and answers that are whole.
LEMMA HostedInvGives == HostedInv => Hosted!TypeOK /\ Hosted!WholeAnswer
<1> SUFFICES ASSUME HostedInv PROVE Hosted!TypeOK /\ Hosted!WholeAnswer
  OBVIOUS
<1>1. HostedShape /\ Promised /\ Origins /\ Runs /\ Reads
  BY DEF HostedInv
<1>2. Hosted!TypeOK
  <2>1. \A p \in Posts : post[p].sent \in 0..MaxParts
    <3> SUFFICES ASSUME NEW p \in Posts PROVE post[p].sent \in 0..MaxParts
      OBVIOUS
    <3>1. post[p].sent \in Nat /\ Len(post[p].pieces) \in Nat
      BY <1>1 DEF HostedShape, Handlers
    <3>2. Len(post[p].pieces) <= MaxParts /\ post[p].sent <= Len(post[p].pieces)
      BY <1>1, <3>1 DEF Promised
    <3> QED
      BY <3>1, <3>2, BoundsAreNumbers
  <2> QED
    BY <1>1, <2>1 DEF HostedShape, Hosted!TypeOK
<1>3. ASSUME NEW s \in Streams, stream[s].phase = "ended", stream[s].got[1].chunk = 1,
             stream[s].got[1].post \notin overlaps, ~stream[s].lagged
      PROVE  LET got == stream[s].got
                 p == got[1].post
             IN /\ got = [i \in 1..Len(got) |-> Hosted!Message(p, i)]
                /\ \A i \in 1..Len(got) : Hosted!IsEnd(got[i]) <=> i = Len(got)
  <2> DEFINE x == stream[s]
             got == x.got
             p == got[1].post
             n == Len(post[p].pieces)
             log == channels[x.channel]
             k == x.next - Len(got)
  <2>1. /\ x \in Readers /\ got \in Seq(Sendings) /\ got # <<>> /\ TextsFirst(x)
        /\ x.channel \in DOMAIN channels /\ IsPieceOf(x, log) /\ log \in Seq(Sendings)
    BY <1>1, <1>3 DEF HostedShape, Reads, Subscribed, Hosted!NoChannel, Readers, TextsFirst
  <2>2. /\ DOMAIN got = 1..Len(got) /\ Len(got) \in Nat \ {0} /\ 1 \in DOMAIN got
    BY <2>1
  <2>3. p \in Posts \ overlaps
    <3>1. got[1] \in Sendings
      BY <2>1, <2>2
    <3>2. p \in Posts
      BY <3>1 DEF Sendings
    <3> QED
      BY <1>3, <3>2
  <2>4. /\ x.next \in Nat \ {0} /\ Len(got) < x.next /\ x.next <= Len(log) + 1
        /\ \A i \in DOMAIN got : got[i] = log[x.next - Len(got) - 1 + i]
    BY <2>1 DEF Readers, IsPieceOf
  <2>5. /\ DOMAIN log = 1..Len(log) /\ Len(log) \in Nat
    BY <2>1
  <2> HIDE DEF x, got, p, log
  <2>6. /\ k \in DOMAIN log /\ k \in Nat /\ k + Len(got) - 1 <= Len(log) /\ k + 1 - 1 = k
        /\ \A i \in DOMAIN got : x.next - Len(got) - 1 + i = k + i - 1
    <3>1. \A i \in 1..Len(got) : x.next - Len(got) - 1 + i = k + i - 1
      BY <2>2, <2>4
    <3>2. k \in 1..Len(log) /\ k \in Nat /\ k + Len(got) - 1 <= Len(log) /\ k + 1 - 1 = k
      BY <2>2, <2>4, <2>5
    <3> QED
      BY <2>2, <2>5, <3>1, <3>2
  <2>7. \A i \in DOMAIN got : got[i] = log[k + i - 1]
    BY <2>4, <2>6
  <2> HIDE DEF k
  <2>8. log[k] = got[1] /\ Begins(log[k], p)
    <3>1. log[k] = got[1]
      BY <2>2, <2>6, <2>7
    <3> QED
      BY <1>3, <3>1 DEF Begins, x, got, p
  <2>9. RunsFrom(p, k, log) /\ SendsOn(x.channel, p)
    <3>1. RunsFrom(p, k, log)
      BY <1>1, <2>1, <2>3, <2>6, <2>8 DEF Runs, log
    <3>2. SendsOn(x.channel, log[k].post)
      BY <1>1, <2>1, <2>6 DEF Origins, log
    <3> QED
      BY <2>8, <3>1, <3>2 DEF Begins
  <2>10. /\ post[p].sent \in Nat /\ n \in Nat /\ post[p].sent <= n
         /\ post[p].phase = "over" => post[p].sent = n
    <3>1. post[p].sent \in Nat /\ post[p].pieces \in Seq(Readings)
      BY <1>1, <2>3 DEF HostedShape, Handlers
    <3>2. n \in Nat
      BY <3>1
    <3> QED
      BY <1>1, <2>3, <3>1, <3>2 DEF Promised
  <2> HIDE DEF n
  <2>11. \A i \in DOMAIN got : Hosted!IsEnd(got[i]) <=> i = Len(got)
    BY <1>3, <2>1 DEF TextsFirst, x, got
  <2>12. \A i \in 1..post[p].sent : log[k + i - 1] = Shown(p, i)
    BY <2>9 DEF RunsFrom
  <2>13. \A i \in DOMAIN got : i <= post[p].sent \/ (i = n + 1 /\ log[k + i - 1] = Hosted!Done(p))
    <3>1. CASE Hosted!Generating(p)
      <4>1. Len(log) = k + post[p].sent - 1
        BY <2>9, <3>1 DEF RunsFrom
      <4> QED
        BY <2>2, <2>5, <2>6, <2>10, <4>1
    <3>2. CASE ~Hosted!Generating(p)
      <4>1. post[p].phase = "over"
        BY <2>9, <3>2 DEF SendsOn, Hosted!Generating
      <4>2. post[p].sent = n /\ k + n \in DOMAIN log /\ log[k + n] = Hosted!Done(p)
        BY <2>9, <2>10, <4>1 DEF RunsFrom
      <4>3. k + (n + 1) - 1 = k + n
        BY <2>6, <2>10
      <4>4. n + 1 \in 1..Len(got) => n + 1 = Len(got)
        <5> SUFFICES ASSUME n + 1 \in DOMAIN got PROVE n + 1 = Len(got)
          BY <2>2
        <5>1. got[n + 1] = Hosted!Done(p)
          BY <2>7, <4>2, <4>3
        <5> QED
          BY <2>11, <5>1 DEF Hosted!IsEnd, Hosted!Done
      <4>5. Len(got) <= n + 1
        <5>1. Len(got) \in Nat /\ n \in Nat
          BY <2>2, <2>10
        <5> QED
          BY <4>4, <5>1
      <4> QED
        BY <2>2, <2>10, <4>2, <4>3, <4>5
    <3> QED
      BY <3>1, <3>2
  <2>14. ASSUME NEW i \in DOMAIN got
         PROVE  got[i] = Hosted!Message(p, i)
    <3>1. CASE i <= post[p].sent
      <4>1. i \in 1..post[p].sent /\ i <= n
        BY <2>2, <2>10, <3>1
      <4>2. got[i] = Shown(p, i)
        BY <2>7, <2>12, <4>1
      <4> QED
        BY <4>1, <4>2 DEF Hosted!Message, Shown, n
    <3>2. CASE i = n + 1 /\ log[k + i - 1] = Hosted!Done(p)
      <4>1. ~(i <= n)
        BY <2>10, <3>2
      <4> QED
        BY <2>7, <3>2, <4>1 DEF Hosted!Message, n
    <3> QED
      BY <2>13, <3>1, <3>2
  <2>15. got = [i \in 1..Len(got) |-> Hosted!Message(p, i)]
    <3>1. got \in Seq(Sendings)
      BY <2>1
    <3>2. got = [i \in 1..Len(got) |-> got[i]]
      BY <3>1
    <3> QED
      BY <2>2, <2>14, <3>2, Zenon
  <2>16. \A i \in 1..Len(got) : Hosted!IsEnd(got[i]) <=> i = Len(got)
    BY <2>2, <2>11
  <2> QED
    BY <2>15, <2>16, Zenon DEF x, got, p
<1>4. Hosted!WholeAnswer
  BY <1>3, Zenon DEF Hosted!WholeAnswer
<1> QED
  BY <1>2, <1>4

-----------------------------------------------------------------------------
(***************************************************************************)
(* Strict writes.                                                          *)
(***************************************************************************)

\* What is assumed of the constants: the three markers are no contents.
SwdSound ==
  /\ InitialFiles \in [Paths -> Contents \cup {Swd!Absent}]
  /\ Contents \cap {Swd!Absent, Swd!Torn, Swd!None} = {}
  /\ MaxActions \in Nat

\* The batch and its snapshots, which nothing changes once they are taken.
BatchShapes ==
  /\ batch \in Seq(Swd!Action) /\ snaps \in Seq(Swd!Content)
  /\ Len(snaps) = Len(batch)
  /\ phase = "idle" => batch = <<>>
  /\ phase \in {"idle", "executing"} => failed_at = 0
  /\ phase = "rolling_back" => failed_at \in 1..Len(batch) /\ step <= failed_at
  /\ phase = "rolling_back" /\ mode # "tool" => step < failed_at
  /\ mode = "notebook" => Len(batch) = 1
  /\ phase = "done" => step = IF failed_at = 0 THEN Len(batch) ELSE 0

\* The snapshots tell the beginning, or nothing.
Taken ==
  /\ phase = "idle" => files = InitialFiles
  /\ \A i \in 1..Len(batch) : snaps[i] \in {Swd!Absent, InitialFiles[batch[i].path]}
  /\ mode = "notebook" => \A i \in 1..Len(batch) : snaps[i] = Swd!Absent

\* The files that nobody has meddled with.
Watched == Paths \ disturbed

\* No action that is executed and not rolled back is on p.
Unwritten(p) == \A i \in 1..step : batch[i].path # p

AsFound(p) == files[p] = InitialFiles[p] \/ (p \in Swd!Unseen /\ files[p] = Swd!Absent)

\* A file no executed action is on is as it was found, or gone when it was not
\* seen, or torn when nothing puts it back.
Found0 ==
  /\ phase \in {"idle", "executing"} =>
       \A p \in Watched : Unwritten(p) => files[p] = InitialFiles[p]
  /\ failed_at # 0 =>
       \A p \in Watched : Unwritten(p) => \/ AsFound(p)
                                          \/ Swd!LeftTorn(p) /\ files[p] = Swd!Torn

IsLast(i, n) == \A k \in (i + 1)..n : batch[k].path # batch[i].path

Left(a) == IF a.op = "delete" THEN Swd!Absent ELSE a.content

\* A file holds what the last of the executed actions on it leaves.
Progresses ==
  failed_at = 0 =>
    /\ \A i \in 1..step : \E j \in i..step : batch[j].path = batch[i].path /\ IsLast(j, step)
    /\ \A i \in 1..step : IsLast(i, step) /\ batch[i].path \notin disturbed =>
                            files[batch[i].path] = Left(batch[i])

\* A file that cannot be read was there, and its snapshots say it was not.
Unread ==
  /\ \A p \in unreadable : p \in Paths /\ InitialFiles[p] # Swd!Absent
  /\ \A i \in DOMAIN batch : batch[i].path \in unreadable => snaps[i] = Swd!Absent

OutcomesFit == phase = "done" => \A i \in DOMAIN batch :
  IF failed_at = 0 THEN transactions[i] = Swd!OutcomeOf(i) ELSE transactions[i] # "Verified"

SwdInv == Swd!TypeOK /\ BatchShapes /\ Taken /\ Found0 /\ Progresses /\ Unread /\ OutcomesFit

LEMMA EffectsGive ==
  ASSUME SwdSound, Swd!TypeOK, NEW a \in Swd!Action, NEW e \in Swd!Effects(a)
  PROVE  /\ a.path \in Paths /\ e.now \in Swd!Content
         /\ \/ e.ok = TRUE /\ e.now = Left(a)
            \/ e.ok = FALSE /\ e.now \in {files[a.path], Swd!Torn}
<1>0. /\ a.path \in Paths /\ a.op \in {"write", "delete"} /\ a.content \in Contents \cup {Swd!None}
      /\ files[a.path] \in Swd!Content
  BY DEF Swd!Action, Swd!TypeOK
<1>1. CASE a.op = "delete"
  <2>1. e = [ok |-> TRUE, now |-> Swd!Absent] \/ e = [ok |-> FALSE, now |-> files[a.path]]
    BY <1>1 DEF Swd!Effects
  <2>2. e.now \in Swd!Content
    BY <1>0, <2>1 DEF Swd!Content
  <2> QED
    BY <1>0, <1>1, <2>1, <2>2 DEF Left
<1>2. CASE a.op = "write" /\ Swd!NothingToWrite(a)
  <2>1. e = [ok |-> FALSE, now |-> files[a.path]]
    BY <1>2 DEF Swd!Effects
  <2> QED
    BY <1>0, <2>1
<1>3. CASE a.op = "write" /\ ~Swd!NothingToWrite(a)
  <2>1. \/ e = [ok |-> TRUE, now |-> a.content]
        \/ e = [ok |-> FALSE, now |-> Swd!Torn]
        \/ e = [ok |-> FALSE, now |-> files[a.path]]
    BY <1>3 DEF Swd!Effects
  <2>2. e.now \in Swd!Content
    BY <1>0, <1>3, <2>1 DEF Swd!Content, Swd!NothingToWrite
  <2> QED
    BY <1>0, <1>3, <2>1, <2>2 DEF Left
<1> QED
  BY <1>0, <1>1, <1>2, <1>3

\* Where the handler is, and the action it is at.
LEMMA AtWork ==
  ASSUME SwdInv
  PROVE  /\ phase \in {"executing", "rolling_back"} => phase # "idle" /\ phase # "done"
         /\ \A i \in 1..Len(batch) : batch[i] \in Swd!Action /\ snaps[i] \in Swd!Content /\ batch[i].path \in Paths
         /\ step \in Nat /\ Len(batch) \in Nat /\ step <= Len(batch)
         /\ DOMAIN batch = 1..Len(batch)
  BY DEF SwdInv, Swd!TypeOK, BatchShapes, Swd!Action

\* What the ways to start have in common.
StartsAs(m, b) == Swd!Start(m, b) /\ (m = "notebook" => Len(b) = 1)

LEMMA Started ==
  ASSUME SwdSound, Swd!StartTool \/ Swd!StartBatch
  PROVE  \E m \in {"tool", "notebook", "batch"}, b \in Seq(Swd!Action) : StartsAs(m, b)
<1>1. CASE Swd!StartTool
  <2>1. PICK a \in Swd!Action, m \in {"tool", "notebook"} : Swd!Start(m, <<a>>)
    BY <1>1 DEF Swd!StartTool
  <2>2. <<a>> \in Seq(Swd!Action) /\ Len(<<a>>) = 1
    OBVIOUS
  <2> QED
    BY <2>1, <2>2 DEF StartsAs
<1>2. CASE Swd!StartBatch
  <2>1. PICK b \in Swd!Batches : Swd!Start("batch", b)
    BY <1>2 DEF Swd!StartBatch
  <2>2. b \in Seq(Swd!Action)
    BY DEF Swd!Batches
  <2> QED
    BY <2>1, <2>2 DEF StartsAs
<1> QED
  BY <1>1, <1>2

LEMMA SwdTypeStep ==
  ASSUME SwdSound, SwdInv, [Swd!Next]_Swd!vars
  PROVE  Swd!TypeOK' /\ BatchShapes'
<1>0. /\ Swd!TypeOK /\ BatchShapes
      /\ \A m, p : p \in Paths => Swd!SnapshotFor(m, p) \in Swd!Content
  BY DEF SwdInv, Swd!TypeOK, Swd!Content, Swd!SnapshotFor, Swd!Snapshot
<1>1. CASE Swd!StartTool \/ Swd!StartBatch
  <2>1. PICK m \in {"tool", "notebook", "batch"}, b \in Seq(Swd!Action) : StartsAs(m, b)
    BY <1>1, Started
  <2>2. step = 0 /\ failed_at = 0
    BY <1>0, <2>1 DEF Swd!TypeOK, BatchShapes, StartsAs, Swd!Start
  <2>3. snaps' \in Seq(Swd!Content) /\ Len(snaps') = Len(b)
    <3>1. \A i \in 1..Len(b) : Swd!SnapshotFor(m, b[i].path) \in Swd!Content
      BY <1>0 DEF Swd!Action
    <3> QED
      BY <2>1, <3>1 DEF StartsAs, Swd!Start
  <2> QED
    BY <1>0, <2>1, <2>2, <2>3 DEF Swd!TypeOK, BatchShapes, StartsAs, Swd!Start
<1>2. CASE Swd!Execute
  <2>1. batch[step + 1] \in Swd!Action /\ step + 1 \in 1..Len(batch)
    BY <1>0, <1>2 DEF Swd!Execute, Swd!TypeOK, BatchShapes
  <2>2. PICK e \in Swd!Effects(batch[step + 1]) :
          /\ Swd!Put(batch[step + 1].path, e.now)
          /\ IF e.ok THEN step' = step + 1 /\ UNCHANGED <<phase, failed_at>>
             ELSE /\ failed_at' = step + 1
                  /\ step' = Swd!RollbackFrom(step + 1)
                  /\ phase' = "rolling_back"
    BY <1>2 DEF Swd!Execute
  <2>3. files' \in [Paths -> Swd!Content] /\ unreadable' \in SUBSET Paths
    BY <1>0, <2>1, <2>2, EffectsGive DEF Swd!Put, Swd!TypeOK
  <2>4. phase = "executing" /\ UNCHANGED <<mode, batch, snaps, transactions, disturbed>>
    BY <1>2 DEF Swd!Execute
  <2>5. CASE e.ok
    BY <1>0, <2>1, <2>2, <2>3, <2>4, <2>5 DEF Swd!TypeOK, BatchShapes
  <2>6. CASE ~e.ok
    BY <1>0, <2>1, <2>2, <2>3, <2>4, <2>6 DEF Swd!TypeOK, BatchShapes, Swd!RollbackFrom
  <2> QED
    BY <2>5, <2>6
<1>3. CASE Swd!RollBack
  <2>1. step \in 1..Len(batch) /\ batch[step].path \in Paths /\ snaps[step] \in Swd!Content
    BY <1>0, <1>3 DEF Swd!RollBack, Swd!TypeOK, BatchShapes, Swd!Action
  <2>2. files' \in [Paths -> Swd!Content] /\ unreadable' \in SUBSET Paths /\ disturbed' \in SUBSET Paths
    BY <1>0, <1>3, <2>1 DEF Swd!RollBack, Swd!Put, Swd!TypeOK, Swd!Content
  <2> QED
    BY <1>0, <1>3, <2>1, <2>2 DEF Swd!RollBack, Swd!TypeOK, BatchShapes
<1>4. CASE Swd!ReportFailure
  BY <1>0, <1>4 DEF Swd!ReportFailure, Swd!TypeOK, BatchShapes
<1>5. CASE Swd!Verify
  BY <1>0, <1>5 DEF Swd!Verify, Swd!TypeOK, BatchShapes
<1>6. CASE \E p \in Paths : Swd!WriteElsewhere(p)
  BY <1>0, <1>6 DEF Swd!WriteElsewhere, Swd!TypeOK, BatchShapes, Swd!Content
<1>7. CASE UNCHANGED Swd!vars
  BY <1>0, <1>7 DEF Swd!vars, Swd!TypeOK, BatchShapes
<1> QED
  BY <1>1, <1>2, <1>3, <1>4, <1>5, <1>6, <1>7 DEF Swd!Next

\* What an execution of the next action leaves.
LEMMA Executed ==
  ASSUME SwdSound, SwdInv, Swd!Execute
  PROVE  /\ phase = "executing" /\ failed_at = 0 /\ step + 1 \in 1..Len(batch)
         /\ UNCHANGED <<mode, batch, snaps, transactions, disturbed>>
         /\ \A p \in Paths : p # batch[step + 1].path => files'[p] = files[p]
         /\ unreadable' \subseteq unreadable
         /\ \/ /\ step' = step + 1 /\ failed_at' = 0 /\ phase' = phase
               /\ files'[batch[step + 1].path] = Left(batch[step + 1])
            \/ /\ failed_at' = step + 1 /\ step' = Swd!RollbackFrom(step + 1) /\ phase' = "rolling_back"
               /\ files'[batch[step + 1].path] \in {files[batch[step + 1].path], Swd!Torn}
<1>0. Swd!TypeOK /\ BatchShapes
  BY DEF SwdInv
<1>1. batch[step + 1] \in Swd!Action /\ step + 1 \in 1..Len(batch)
  BY <1>0 DEF Swd!Execute, Swd!TypeOK, BatchShapes
<1>2. PICK e \in Swd!Effects(batch[step + 1]) :
        /\ Swd!Put(batch[step + 1].path, e.now)
        /\ IF e.ok THEN step' = step + 1 /\ UNCHANGED <<phase, failed_at>>
           ELSE /\ failed_at' = step + 1
                /\ step' = Swd!RollbackFrom(step + 1)
                /\ phase' = "rolling_back"
  BY DEF Swd!Execute
<1>3. phase = "executing" /\ failed_at = 0 /\ UNCHANGED <<mode, batch, snaps, transactions, disturbed>>
  BY <1>0 DEF Swd!Execute, BatchShapes
<1>4. /\ \A p \in Paths : p # batch[step + 1].path => files'[p] = files[p]
      /\ unreadable' \subseteq unreadable
      /\ batch[step + 1].path \in Paths
      /\ files'[batch[step + 1].path] = e.now
  BY <1>0, <1>1, <1>2, EffectsGive DEF Swd!Put, Swd!TypeOK
<1> QED
  BY <1>0, <1>1, <1>2, <1>3, <1>4, EffectsGive

LEMMA TakenStep ==
  ASSUME SwdSound, SwdInv, [Swd!Next]_Swd!vars
  PROVE  Taken'
<1>0. Swd!TypeOK /\ BatchShapes /\ Taken
  BY DEF SwdInv
<1>1. CASE Swd!StartTool \/ Swd!StartBatch
  <2>1. PICK m \in {"tool", "notebook", "batch"}, b \in Seq(Swd!Action) : StartsAs(m, b)
    BY <1>1, Started
  <2>2. /\ phase = "idle" /\ phase' = "executing" /\ batch' = b /\ mode' = m
        /\ files = InitialFiles
    BY <1>0, <2>1 DEF StartsAs, Swd!Start, Taken
  <2>3. \A i \in 1..Len(b) : snaps'[i] = Swd!SnapshotFor(m, b[i].path)
    BY <2>1 DEF StartsAs, Swd!Start
  <2> QED
    BY <2>2, <2>3 DEF Taken, Swd!SnapshotFor, Swd!Snapshot
<1>2. CASE ~(Swd!StartTool \/ Swd!StartBatch)
  <2>1. UNCHANGED <<batch, snaps, mode>> /\ (phase' = "idle" => phase = "idle" /\ files' = files)
    BY <1>0, <1>2 DEF Swd!Next, Swd!Execute, Swd!RollBack, Swd!ReportFailure, Swd!Verify,
       Swd!WriteElsewhere, Swd!vars
  <2> QED
    BY <1>0, <2>1 DEF Taken
<1> QED
  BY <1>1, <1>2

LEMMA FoundStep ==
  ASSUME SwdSound, SwdInv, [Swd!Next]_Swd!vars
  PROVE  Found0'
<1>0. Swd!TypeOK /\ BatchShapes /\ Found0 /\ Taken
  BY DEF SwdInv
<1>1. CASE Swd!StartTool \/ Swd!StartBatch
  <2>1. PICK m \in {"tool", "notebook", "batch"}, b \in Seq(Swd!Action) : StartsAs(m, b)
    BY <1>1, Started
  <2>2. step' = 0 /\ failed_at' = 0 /\ files' = files /\ phase = "idle"
    BY <1>0, <2>1 DEF Swd!TypeOK, BatchShapes, StartsAs, Swd!Start
  <2> QED
    BY <1>0, <2>2 DEF Found0, Taken
<1>2. CASE Swd!Execute
  <2> SUFFICES ASSUME NEW p \in Watched', Unwritten(p)'
               PROVE  IF failed_at' = 0 THEN files'[p] = InitialFiles[p]
                      ELSE /\ phase' = "rolling_back"
                           /\ \/ files'[p] = InitialFiles[p]
                              \/ Swd!LeftTorn(p)' /\ files'[p] = Swd!Torn
    BY <1>2, Executed DEF Found0, AsFound
  <2>1. p \in Watched /\ p \in Paths
    BY <1>2, Executed DEF Watched
  <2>2. \A q \in Watched : Unwritten(q) => files[q] = InitialFiles[q]
    BY <1>0, <1>2, Executed DEF Found0
  <2>3. step \in Nat /\ step' \in {step, step + 1}
    BY <1>0, <1>2, Executed DEF Swd!TypeOK, Swd!RollbackFrom
  <2>4. Unwritten(p)
    BY <1>2, <2>3, Executed DEF Unwritten
  <2>5. CASE p # batch[step + 1].path
    BY <1>2, <2>1, <2>2, <2>3, <2>4, <2>5, Executed
  <2>6. CASE p = batch[step + 1].path
    <3>1. step' = step
      BY <1>2, <2>3, <2>6, Executed DEF Unwritten
    <3>2. failed_at' = step + 1 /\ phase' = "rolling_back" /\ mode # "tool"
      BY <1>0, <1>2, <2>3, <3>1, Executed DEF Swd!RollbackFrom, Swd!TypeOK
    <3>3. files'[p] \in {files[p], Swd!Torn}
      BY <1>2, <2>3, <2>6, <3>1, Executed
    <3>4. \A i \in 1..step : batch[i].path # p
      BY <2>4 DEF Unwritten
    <3> QED
      BY <1>2, <2>1, <2>2, <2>3, <2>4, <2>6, <3>2, <3>3, <3>4, Executed DEF Swd!LeftTorn
  <2> QED
    BY <2>5, <2>6
<1>3. CASE Swd!RollBack
  <2>1. /\ phase = "rolling_back" /\ phase' = phase /\ failed_at # 0 /\ failed_at' = failed_at
        /\ step \in 1..Len(batch) /\ step' = step - 1 /\ UNCHANGED <<batch, snaps, mode>>
        /\ disturbed \subseteq disturbed' /\ batch[step].path \in Paths
    BY <1>0, <1>3 DEF Swd!RollBack, Swd!TypeOK, BatchShapes, Swd!Action
  <2> SUFFICES ASSUME NEW p \in Watched', Unwritten(p)'
               PROVE  AsFound(p)' \/ (Swd!LeftTorn(p)' /\ files'[p] = Swd!Torn)
    BY <2>1 DEF Found0
  <2>2. p \in Watched /\ p \in Paths /\ p \notin disturbed'
    BY <2>1 DEF Watched
  <2>3. CASE p = batch[step].path
    <3>1. files'[p] = snaps[step]
      BY <1>0, <1>3, <2>2, <2>3 DEF Swd!RollBack, Swd!Put, Swd!TypeOK
    <3>2. mode # "notebook"
      BY <1>0, <2>1 DEF BatchShapes
    <3>3. snaps[step] \in {Swd!Absent, InitialFiles[p]}
      BY <1>0, <2>1, <2>3 DEF Taken
    <3>4. snaps[step] = Swd!Absent /\ InitialFiles[p] # Swd!Absent => p \in Swd!Unseen'
      BY <1>0, <2>1, <2>3, <3>2 DEF Swd!Unseen, BatchShapes
    <3> QED
      BY <3>1, <3>3, <3>4 DEF AsFound
  <2>4. CASE p # batch[step].path
    <3>1. files'[p] = files[p]
      BY <1>0, <1>3, <2>1, <2>2, <2>4 DEF Swd!RollBack, Swd!Put, Swd!TypeOK
    <3>2. Unwritten(p)
      BY <2>1, <2>4 DEF Unwritten
    <3> QED
      BY <1>0, <2>1, <2>2, <3>1, <3>2 DEF Found0, AsFound, Swd!Unseen, Swd!LeftTorn
  <2> QED
    BY <2>3, <2>4
<1>4. CASE Swd!ReportFailure \/ Swd!Verify
  <2>1. UNCHANGED <<files, mode, batch, snaps, step, failed_at, disturbed>> /\ phase' = "done"
    BY <1>4 DEF Swd!ReportFailure, Swd!Verify
  <2> QED
    BY <1>0, <2>1 DEF Found0, AsFound, Watched, Swd!Unseen, Unwritten, Swd!LeftTorn
<1>5. CASE \E q \in Paths : Swd!WriteElsewhere(q)
  <2>1. PICK q \in Paths : Swd!WriteElsewhere(q)
    BY <1>5
  <2>2. UNCHANGED <<mode, batch, snaps, step, failed_at, phase>> /\ disturbed = {} /\ disturbed' = {q}
    BY <2>1 DEF Swd!WriteElsewhere
  <2>3. Watched' \subseteq Watched
    BY <2>2 DEF Watched
  <2>4. \A p \in Watched' : p \in Paths /\ files'[p] = files[p]
    BY <1>0, <2>1, <2>2 DEF Swd!WriteElsewhere, Watched, Swd!TypeOK
  <2> QED
    BY <1>0, <2>2, <2>3, <2>4 DEF Found0, AsFound, Swd!Unseen, Unwritten, Swd!LeftTorn
<1>6. CASE UNCHANGED Swd!vars
  BY <1>0, <1>6 DEF Swd!vars, Found0, AsFound, Watched, Swd!Unseen, Unwritten, Swd!LeftTorn
<1> QED
  BY <1>1, <1>2, <1>3, <1>4, <1>5, <1>6 DEF Swd!Next

LEMMA ProgressStep ==
  ASSUME SwdSound, SwdInv, [Swd!Next]_Swd!vars
  PROVE  Progresses'
<1>0. Swd!TypeOK /\ BatchShapes /\ Progresses
  BY DEF SwdInv
<1>1. CASE Swd!StartTool \/ Swd!StartBatch
  <2>1. PICK m \in {"tool", "notebook", "batch"}, b \in Seq(Swd!Action) : StartsAs(m, b)
    BY <1>1, Started
  <2>2. step' = 0
    BY <1>0, <2>1 DEF Swd!TypeOK, BatchShapes, StartsAs, Swd!Start
  <2> QED
    BY <2>2 DEF Progresses
<1>2. CASE Swd!Execute
  <2>1. CASE failed_at' # 0
    BY <2>1 DEF Progresses
  <2>2. CASE failed_at' = 0
    <3>1. /\ step \in Nat /\ step' = step + 1 /\ failed_at = 0 /\ step + 1 \in 1..Len(batch)
          /\ UNCHANGED <<batch, disturbed>>
          /\ files'[batch[step + 1].path] = Left(batch[step + 1])
          /\ \A p \in Paths : p # batch[step + 1].path => files'[p] = files[p]
      BY <1>0, <1>2, <2>2, Executed DEF Swd!TypeOK
    <3>2. \A i \in 1..step' : \E j \in i..step' : batch[j].path = batch[i].path /\ IsLast(j, step')
      <4> SUFFICES ASSUME NEW i \in 1..step'
                   PROVE  \E j \in i..step' : batch[j].path = batch[i].path /\ IsLast(j, step')
        OBVIOUS
      <4>1. CASE batch[i].path = batch[step'].path
        <5>1. step' \in i..step' /\ IsLast(step', step')
          BY <3>1 DEF IsLast
        <5> QED
          BY <4>1, <5>1
      <4>2. CASE batch[i].path # batch[step'].path
        <5>1. i \in 1..step
          BY <3>1, <4>2
        <5>2. PICK j \in i..step : batch[j].path = batch[i].path /\ IsLast(j, step)
          BY <1>0, <3>1, <5>1 DEF Progresses
        <5>3. IsLast(j, step') /\ j \in i..step'
          BY <3>1, <4>2, <5>1, <5>2 DEF IsLast
        <5> QED
          BY <5>2, <5>3
      <4> QED
        BY <4>1, <4>2
    <3>3. ASSUME NEW i \in 1..step', IsLast(i, step'), batch[i].path \notin disturbed
          PROVE  files'[batch[i].path] = Left(batch[i])
      <4>1. CASE i = step'
        BY <3>1, <4>1
      <4>2. CASE i # step'
        <5>1. i \in 1..step /\ IsLast(i, step) /\ batch[i].path # batch[step + 1].path
          BY <3>1, <3>3, <4>2 DEF IsLast
        <5>2. files[batch[i].path] = Left(batch[i])
          BY <1>0, <3>1, <3>3, <5>1 DEF Progresses
        <5>3. batch[i].path \in Paths
          BY <3>1, <5>1, AtWork
        <5> QED
          BY <3>1, <5>1, <5>2, <5>3
      <4> QED
        BY <4>1, <4>2
    <3>4. (\A i \in 1..step : \E j \in i..step : batch[j].path = batch[i].path /\ IsLast(j, step))'
      BY <3>1, <3>2 DEF IsLast
    <3>5. (\A i \in 1..step : IsLast(i, step) /\ batch[i].path \notin disturbed =>
                              files[batch[i].path] = Left(batch[i]))'
      BY <3>1, <3>3 DEF IsLast, Left
    <3> QED
      BY <3>4, <3>5 DEF Progresses
  <2> QED
    BY <2>1, <2>2
<1>3. CASE Swd!RollBack
  BY <1>0, <1>3 DEF Swd!RollBack, BatchShapes, Progresses
<1>4. CASE Swd!ReportFailure \/ Swd!Verify
  <2>1. UNCHANGED <<files, batch, step, failed_at, disturbed>>
    BY <1>4 DEF Swd!ReportFailure, Swd!Verify
  <2> QED
    BY <1>0, <2>1 DEF Progresses, IsLast
<1>5. CASE \E q \in Paths : Swd!WriteElsewhere(q)
  <2>1. PICK q \in Paths : Swd!WriteElsewhere(q)
    BY <1>5
  <2>2. UNCHANGED <<batch, step, failed_at>> /\ disturbed = {} /\ disturbed' = {q}
    BY <2>1 DEF Swd!WriteElsewhere
  <2>3. \A p \in Paths : p # q => files'[p] = files[p]
    BY <1>0, <2>1 DEF Swd!WriteElsewhere, Swd!TypeOK
  <2>4. \A i \in 1..step : batch[i].path \in Paths
    BY AtWork
  <2> QED
    BY <1>0, <2>2, <2>3, <2>4 DEF Progresses, IsLast
<1>6. CASE UNCHANGED Swd!vars
  BY <1>0, <1>6 DEF Swd!vars, Progresses, IsLast
<1> QED
  BY <1>1, <1>2, <1>3, <1>4, <1>5, <1>6 DEF Swd!Next

LEMMA UnreadStep ==
  ASSUME SwdSound, SwdInv, [Swd!Next]_Swd!vars
  PROVE  Unread'
<1>0. Swd!TypeOK /\ BatchShapes /\ Unread
  BY DEF SwdInv
<1>1. CASE Swd!StartTool \/ Swd!StartBatch
  <2>1. PICK m \in {"tool", "notebook", "batch"}, b \in Seq(Swd!Action) : StartsAs(m, b)
    BY <1>1, Started
  <2> QED
    BY <1>0, <2>1 DEF Unread, StartsAs, Swd!Start, Swd!SnapshotFor, Swd!Snapshot
<1>2. CASE Swd!Execute
  BY <1>0, <1>2, Executed DEF Unread
<1>3. CASE Swd!RollBack
  <2>1. unreadable' \subseteq unreadable /\ UNCHANGED <<batch, snaps>>
    BY <1>3 DEF Swd!RollBack, Swd!Put
  <2> QED
    BY <1>0, <2>1 DEF Unread
<1>4. CASE Swd!ReportFailure \/ Swd!Verify \/ (\E q \in Paths : Swd!WriteElsewhere(q)) \/ UNCHANGED Swd!vars
  <2>1. UNCHANGED <<unreadable, batch, snaps>>
    BY <1>4 DEF Swd!ReportFailure, Swd!Verify, Swd!WriteElsewhere, Swd!vars
  <2> QED
    BY <1>0, <2>1 DEF Unread
<1> QED
  BY <1>1, <1>2, <1>3, <1>4 DEF Swd!Next

LEMMA ReportsStep ==
  ASSUME SwdSound, SwdInv, [Swd!Next]_Swd!vars
  PROVE  OutcomesFit'
<1>0. Swd!TypeOK /\ BatchShapes /\ OutcomesFit
  BY DEF SwdInv
<1>1. CASE Swd!StartTool \/ Swd!StartBatch
  BY <1>1 DEF Swd!StartTool, Swd!StartBatch, Swd!Start, OutcomesFit
<1>2. CASE Swd!Execute
  BY <1>2, Executed DEF OutcomesFit
<1>3. CASE Swd!RollBack
  BY <1>3 DEF Swd!RollBack, OutcomesFit
<1>4. CASE Swd!ReportFailure
  BY <1>0, <1>4 DEF Swd!ReportFailure, OutcomesFit, BatchShapes
<1>5. CASE Swd!Verify
  <2>1. failed_at' = 0 /\ UNCHANGED <<files, unreadable, mode, batch, snaps>>
    BY <1>0, <1>5 DEF Swd!Verify, BatchShapes
  <2>2. \A i \in DOMAIN batch : transactions'[i] = Swd!OutcomeOf(i)
    BY <1>5 DEF Swd!Verify
  <2> QED
    BY <2>1, <2>2 DEF OutcomesFit, Swd!OutcomeOf, Swd!SnapshotFor, Swd!Snapshot
<1>6. CASE \E q \in Paths : Swd!WriteElsewhere(q)
  BY <1>6 DEF Swd!WriteElsewhere, OutcomesFit
<1>7. CASE UNCHANGED Swd!vars
  BY <1>0, <1>7 DEF Swd!vars, OutcomesFit, Swd!OutcomeOf, Swd!SnapshotFor, Swd!Snapshot
<1> QED
  BY <1>1, <1>2, <1>3, <1>4, <1>5, <1>6, <1>7 DEF Swd!Next

LEMMA SwdInitial ==
  ASSUME SwdSound, Swd!Init
  PROVE  SwdInv
<1> USE DEF SwdSound, Swd!Init
<1>1. Swd!TypeOK
  BY DEF Swd!TypeOK, Swd!Content
<1>2. BatchShapes
  BY DEF BatchShapes
<1>3. Taken /\ Found0 /\ Progresses /\ Unread /\ OutcomesFit
  BY DEF Taken, Found0, Progresses, Unread, OutcomesFit, Watched
<1> QED
  BY <1>1, <1>2, <1>3 DEF SwdInv

LEMMA SwdInvariance ==
  ASSUME SwdSound
  PROVE  Swd!Spec => []SwdInv
<1>1. Swd!Init => SwdInv
  BY SwdInitial
<1>2. SwdInv /\ [Swd!Next]_Swd!vars => SwdInv'
  BY SwdTypeStep, TakenStep, FoundStep, ProgressStep, UnreadStep, ReportsStep DEF SwdInv
<1> QED
  BY <1>1, <1>2, PTL DEF Swd!Spec

\* The constants are as the invariant needs them.
LEMMA SwdIsSound == SwdSound
  BY BoundsAreNumbers, MarkersAreApart DEF SwdSound

\* A handler that failed leaves the files as it found them.
LEMMA SwdFailures == SwdInv => Swd!FailureLeavesNothing
<1>1. ASSUME SwdInv, phase = "done", failed_at # 0, NEW p \in Paths \ disturbed
      PROVE  AsFound(p) \/ (Swd!LeftTorn(p) /\ files[p] = Swd!Torn)
  <2>1. p \in Watched /\ step = 0
    BY <1>1 DEF Watched, SwdInv, BatchShapes
  <2> QED
    BY <1>1, <2>1 DEF SwdInv, Found0, Unwritten
<1>2. SwdInv => Swd!FailureLeavesNothing
  BY <1>1 DEF Swd!FailureLeavesNothing, AsFound
<1> QED
  BY <1>2

\* A file reported as verified holds what the last action on it was to leave.
LEMMA SwdVerified == SwdInv => Swd!VerifiedIsLast
<1>1. ASSUME SwdInv, phase = "done", NEW i \in DOMAIN batch, transactions[i] = "Verified",
             batch[i].path \notin disturbed \cup Swd!Unseen
      PROVE  LET same == {j \in DOMAIN batch : batch[j].path = batch[i].path}
                 last == CHOOSE j \in same : \A k \in same : k <= j
             IN  /\ files[batch[i].path] # InitialFiles[batch[i].path]
                 /\ files[batch[i].path] = IF batch[last].op = "delete" THEN Swd!Absent
                                           ELSE batch[last].content
  <2> DEFINE p == batch[i].path
             same == {j \in DOMAIN batch : batch[j].path = p}
             last == CHOOSE j \in same : \A k \in same : k <= j
  <2>1. /\ failed_at = 0 /\ step = Len(batch) /\ Len(batch) \in Nat
        /\ i \in 1..Len(batch) /\ p \in Paths /\ DOMAIN batch = 1..Len(batch)
    BY <1>1, AtWork DEF SwdInv, OutcomesFit, BatchShapes
  <2>2. PICK j \in i..step : batch[j].path = p /\ IsLast(j, step)
    BY <1>1, <2>1 DEF SwdInv, Progresses
  <2>3. j \in same /\ \A k \in same : k <= j
    BY <2>1, <2>2 DEF IsLast
  <2>4. last \in same /\ \A k \in same : k <= last
    BY <2>3
  <2>5. last = j
    BY <2>1, <2>2, <2>3, <2>4
  <2>6. files[p] = Left(batch[last])
    <3>1. j \in 1..step /\ batch[j].path \notin disturbed
      BY <1>1, <2>1, <2>2
    <3>2. files[batch[j].path] = Left(batch[j])
      BY <1>1, <2>1, <2>2, <3>1 DEF SwdInv, Progresses
    <3> QED
      BY <2>2, <2>5, <3>2
  <2>7. snaps[i] = InitialFiles[p] /\ snaps[i] # Swd!Snapshot(p)
    <3>1. Swd!OutcomeOf(i) = "Verified"
      BY <1>1, <2>1 DEF SwdInv, OutcomesFit
    <3>2. snaps[i] # Swd!SnapshotFor(mode, p)
      BY <3>1 DEF Swd!OutcomeOf, Swd!VerifyOutcome
    <3>3. mode # "notebook"
      BY <1>1, <2>1, <3>2 DEF SwdInv, Taken, Swd!SnapshotFor
    <3>4. snaps[i] = Swd!Absent => InitialFiles[p] = Swd!Absent
      BY <1>1, <2>1, <3>3 DEF Swd!Unseen
    <3> QED
      BY <1>1, <2>1, <3>2, <3>3, <3>4 DEF SwdInv, Taken, Swd!SnapshotFor
  <2>8. p \notin unreadable
    BY <1>1, <2>1, <2>7 DEF SwdInv, Unread
  <2> QED
    BY <2>6, <2>7, <2>8 DEF Swd!Snapshot, Left
<1>2. SwdInv => Swd!VerifiedIsLast
  BY <1>1 DEF Swd!VerifiedIsLast
<1> QED
  BY <1>2

-----------------------------------------------------------------------------
(***************************************************************************)
(* A behaviour of the whole is one of each component, and the definitions  *)
(* of a component are those its theorems were proved for.                  *)
(***************************************************************************)

PluginsP == INSTANCE PluginStore_proofs
AnswerP == INSTANCE ModelStream_proofs
LspP == INSTANCE LspClient_proofs WITH reader <- lsp_reader
McpP == INSTANCE McpManager_proofs WITH next_request_id <- mcp_request_id, op <- mcp_op,
                                 MaxRequests <- MaxAsked

\* A step of the composition is a step of the front end or none of it.
LEMMA TuiSpec == Spec => Tui!Spec
<1>1. Init => Tui!Init
  BY DEF Init
<1>2. [Next]_vars => [Tui!Next]_Tui!vars
  BY DEF Next, vars, tuiVars, Tui!vars
<1> QED
  BY <1>1, <1>2, PTL DEF Spec, Tui!Spec

\* A step of the composition is a step of the orchestrator or none of it.
LEMMA FallbackSpec == Spec => Fallback!Spec
<1>1. Init => Fallback!Init
  BY DEF Init
<1>2. [Next]_vars => [Fallback!Next]_Fallback!vars
  BY DEF Next, vars, fallbackVars, Fallback!vars
<1> QED
  BY <1>1, <1>2, PTL DEF Spec, Fallback!Spec

\* A step of the composition is a step of the hosted conversations or none.
LEMMA HostedSpec == Spec => Hosted!Spec
<1>1. Init => Hosted!Init
  BY DEF Init
<1>2. [Next]_vars => [Hosted!Next]_Hosted!vars
  BY DEF Next, vars, hostedVars, Hosted!vars
<1> QED
  BY <1>1, <1>2, PTL DEF Spec, Hosted!Spec

\* A step of the composition is a step of the transactions or none of them.
LEMMA SwdSpec == Spec => Swd!Spec
<1>1. Init => Swd!Init
  BY DEF Init
<1>2. [Next]_vars => [Swd!Next]_Swd!vars
  BY DEF Next, vars, swdVars, Swd!vars
<1> QED
  BY <1>1, <1>2, PTL DEF Spec, Swd!Spec

\* A step of the composition is a step of the plugin store or none of it.
LEMMA PluginsSpec == Spec => PluginsP!Spec
<1>1. Plugins!Init => PluginsP!Init
  BY Zenon DEF Plugins!Plugins, PluginsP!Plugins, Plugins!Versions, PluginsP!Versions,
               Plugins!Absent, PluginsP!Absent, Plugins!NoRecords, PluginsP!NoRecords,
               Plugins!NoEntries, PluginsP!NoEntries, Plugins!NoOp, PluginsP!NoOp, Plugins!Init,
               PluginsP!Init
<1>2. Plugins!Next => PluginsP!Next
  BY Zenon DEF Plugins!Plugins, PluginsP!Plugins, Plugins!Versions, PluginsP!Versions,
               Plugins!Absent, PluginsP!Absent, Plugins!Bare, PluginsP!Bare, Plugins!Broken,
               PluginsP!Broken, Plugins!disk, PluginsP!disk, Plugins!NoRecords, PluginsP!NoRecords,
               Plugins!NoEntries, PluginsP!NoEntries, Plugins!NoOp, PluginsP!NoOp, Plugins!Kinds,
               PluginsP!Kinds, Plugins!Ready, PluginsP!Ready, Plugins!At, PluginsP!At, Plugins!Goto,
               PluginsP!Goto, Plugins!Succeed, PluginsP!Succeed, Plugins!GiveUp, PluginsP!GiveUp,
               Plugins!Begin, PluginsP!Begin, Plugins!Install, PluginsP!Install, Plugins!Load,
               PluginsP!Load, Plugins!Update, PluginsP!Update, Plugins!Uninstall,
               PluginsP!Uninstall, Plugins!List, PluginsP!List, Plugins!Files, PluginsP!Files,
               Plugins!Register, PluginsP!Register, Plugins!Entry, PluginsP!Entry,
               Plugins!WriteSettings, PluginsP!WriteSettings, Plugins!NeedsSync, PluginsP!NeedsSync,
               Plugins!Sync, PluginsP!Sync, Plugins!StoreSynced, PluginsP!StoreSynced,
               Plugins!Stale, PluginsP!Stale, Plugins!Discover, PluginsP!Discover,
               Plugins!StopBetween, PluginsP!StopBetween, Plugins!StopInFiles, PluginsP!StopInFiles,
               Plugins!StopInRegistry, PluginsP!StopInRegistry, Plugins!StopInSettings,
               PluginsP!StopInSettings, Plugins!Stop, PluginsP!Stop, Plugins!Upgrade,
               PluginsP!Upgrade, Plugins!Next, PluginsP!Next
<1>3. Init => PluginsP!Init
  BY <1>1 DEF Init
<1>4. [Next]_vars => [PluginsP!Next]_PluginsP!vars
  BY <1>2 DEF Next, vars, pluginsVars, PluginsP!vars
<1> QED
  BY <1>3, <1>4, PTL DEF Spec, PluginsP!Spec

\* The property of the proved module is the one the run checks.
LEMMA PluginsAgreeSame == PluginsP!PluginsAgree => PluginsAgree
  BY Zenon DEF PluginsAgree, Plugins!Plugins, PluginsP!Plugins, Plugins!Absent, PluginsP!Absent, Plugins!Ready,
               PluginsP!Ready, Plugins!PluginsAgree, PluginsP!PluginsAgree

\* The property of the proved module is the one the run checks.
LEMMA ListingMendsSame == PluginsP!ListingMends => ListingMends
  BY Zenon DEF ListingMends, Plugins!Plugins, PluginsP!Plugins, Plugins!Versions, PluginsP!Versions,
               Plugins!Absent, PluginsP!Absent, Plugins!At, PluginsP!At, Plugins!ListingMends,
               PluginsP!ListingMends

\* The events and the steps of single calls and blocks are those of the proved module.
LEMMA EventsSame ==
  /\ \A b, args : /\ Answer!Start(b, args) = AnswerP!Start(b, args)
                  /\ Answer!Delta(b, args) = AnswerP!Delta(b, args)
  /\ \A b : Answer!BlockStop(b) = AnswerP!BlockStop(b)
  /\ \A content : Answer!MessageStart(content) = AnswerP!MessageStart(content)
  /\ Answer!MessageStop = AnswerP!MessageStop
  /\ \A s, e : Answer!Emit(s, e) = AnswerP!Emit(s, e)
  BY Zenon DEF Answer!MessageStart, AnswerP!MessageStart, Answer!Start, AnswerP!Start, Answer!Delta,
               AnswerP!Delta, Answer!BlockStop, AnswerP!BlockStop, Answer!MessageStop,
               AnswerP!MessageStop, Answer!Emit, AnswerP!Emit

\* So are the steps that change the state of one call, of the talk, or start the message,
\* and the order the calls are closed in.
LEMMA CallsSame ==
  /\ \A s, c : /\ Answer!StartCall(s, c) = AnswerP!StartCall(s, c)
               /\ Answer!FlushArgs(s, c) = AnswerP!FlushArgs(s, c)
               /\ Answer!StopCall(s, c) = AnswerP!StopCall(s, c)
               /\ Answer!CloseCall(s, c) = AnswerP!CloseCall(s, c)
  /\ \A s, d, finish : Answer!CallDelta(s, d, finish) = AnswerP!CallDelta(s, d, finish)
  /\ \A s, b : Answer!Say(s, b) = AnswerP!Say(s, b) /\ Answer!StopTalk(s, b) = AnswerP!StopTalk(s, b)
  /\ \A s : Answer!StartMessage(s) = AnswerP!StartMessage(s)
  /\ Answer!CallsInOrder = AnswerP!CallsInOrder
<1>1. \A s, c : /\ Answer!StartCall(s, c) = AnswerP!StartCall(s, c)
                /\ Answer!FlushArgs(s, c) = AnswerP!FlushArgs(s, c)
                /\ Answer!StopCall(s, c) = AnswerP!StopCall(s, c)
  BY EventsSame DEF Answer!StartCall, AnswerP!StartCall, Answer!FlushArgs, AnswerP!FlushArgs,
                    Answer!StopCall, AnswerP!StopCall
<1>2. \A s, c : Answer!CloseCall(s, c) = AnswerP!CloseCall(s, c)
  BY <1>1, Zenon DEF Answer!CloseCall, AnswerP!CloseCall
<1>3. \A s, d, finish : Answer!CallDelta(s, d, finish) = AnswerP!CallDelta(s, d, finish)
  BY <1>1 DEF Answer!CallDelta, AnswerP!CallDelta
<1>4. \A s, b : Answer!Say(s, b) = AnswerP!Say(s, b) /\ Answer!StopTalk(s, b) = AnswerP!StopTalk(s, b)
  BY EventsSame DEF Answer!Say, AnswerP!Say, Answer!StopTalk, AnswerP!StopTalk
<1>5. \A s : Answer!StartMessage(s) = AnswerP!StartMessage(s)
  BY EventsSame DEF Answer!StartMessage, AnswerP!StartMessage
<1>6. Answer!CallsInOrder = AnswerP!CallsInOrder
  BY Zenon DEF Answer!CallsInOrder, AnswerP!CallsInOrder, Answer!InOrder, AnswerP!InOrder,
               Answer!Cardinality, AnswerP!Cardinality,
               Answer!IsFiniteSet, AnswerP!IsFiniteSet
<1> QED
  BY <1>1, <1>2, <1>3, <1>4, <1>5, <1>6, Zenon

\* The steps of the stream are those of the proved module.
LEMMA StreamSame ==
  /\ \A s, chunk : Answer!Ingest(s, chunk) = AnswerP!Ingest(s, chunk)
  /\ \A s : Answer!Finish(s) = AnswerP!Finish(s)
<1>1. ASSUME NEW s, NEW chunk
      PROVE  Answer!Ingest(s, chunk) = AnswerP!Ingest(s, chunk)
  <2> DEFINE begun == Answer!StartMessage(s)
             begunP == AnswerP!StartMessage(s)
             said == Answer!FoldLeft(Answer!Say, begun, chunk.talk)
             saidP == AnswerP!FoldLeft(AnswerP!Say, begunP, chunk.talk)
             called == Answer!FoldLeft(LAMBDA acc, d : Answer!CallDelta(acc, d, chunk.finish), said, chunk.deltas)
             calledP == AnswerP!FoldLeft(LAMBDA acc, d : AnswerP!CallDelta(acc, d, chunk.finish), saidP, chunk.deltas)
             ended == IF chunk.finish = "none" THEN called ELSE [called EXCEPT !.stop_reason = chunk.finish]
             endedP == IF chunk.finish = "none" THEN calledP ELSE [calledP EXCEPT !.stop_reason = chunk.finish]
             order == Answer!CallsInOrder
             orderP == AnswerP!CallsInOrder
             closed == Answer!FoldLeft(Answer!StopCall, ended, order)
             closedP == AnswerP!FoldLeft(AnswerP!StopCall, endedP, orderP)
  <2>1. Answer!Ingest(s, chunk) = IF chunk.finish = "tool_calls" THEN closed ELSE ended
    BY Zenon DEF Answer!Ingest
  <2>2. AnswerP!Ingest(s, chunk) = IF chunk.finish = "tool_calls" THEN closedP ELSE endedP
    BY Zenon DEF AnswerP!Ingest
  <2>3. begun = begunP
    BY CallsSame, Zenon
  <2> HIDE DEF begun, begunP
  <2>4. said = saidP
    BY <2>3, CallsSame, Zenon
       DEF Answer!FoldLeft, AnswerP!FoldLeft, Answer!MapThenFoldSet,
              AnswerP!MapThenFoldSet, Answer!Max, AnswerP!Max
  <2> HIDE DEF said, saidP
  <2>5. called = calledP
    BY <2>4, CallsSame, Zenon
       DEF Answer!FoldLeft, AnswerP!FoldLeft, Answer!MapThenFoldSet,
              AnswerP!MapThenFoldSet, Answer!Max, AnswerP!Max
  <2> HIDE DEF called, calledP
  <2>6. ended = endedP
    BY <2>5, Zenon
  <2> HIDE DEF ended, endedP
  <2>7. closed = closedP
    <3> DEFINE F(x, q) == Answer!FoldLeft(Answer!StopCall, x, q)
               FP(x, q) == AnswerP!FoldLeft(AnswerP!StopCall, x, q)
    <3>1. order = orderP /\ \A x, c : Answer!StopCall(x, c) = AnswerP!StopCall(x, c)
      BY CallsSame, Zenon
    <3>2. ASSUME NEW x, NEW q
          PROVE  F(x, q) = FP(x, q)
      BY <3>1, Zenon DEF Answer!FoldLeft, AnswerP!FoldLeft, Answer!MapThenFoldSet,
                         AnswerP!MapThenFoldSet, Answer!Max, AnswerP!Max
    <3>3. closed = F(ended, order) /\ closedP = FP(endedP, orderP)
      BY Zenon
    <3> HIDE DEF F, FP, closed, closedP, order, orderP
    <3> QED
      BY <2>6, <3>1, <3>2, <3>3, Zenon
  <2> HIDE DEF closed, closedP
  <2> QED
    BY <2>1, <2>2, <2>6, <2>7
<1>2. ASSUME NEW s
      PROVE  Answer!Finish(s) = AnswerP!Finish(s)
  <2> DEFINE quiet == Answer!StopTalk(Answer!StopTalk(s, 999), 0)
             quietP == AnswerP!StopTalk(AnswerP!StopTalk(s, 999), 0)
             order == Answer!CallsInOrder
             orderP == AnswerP!CallsInOrder
             closed == Answer!FoldLeft(Answer!CloseCall, quiet, order)
             closedP == AnswerP!FoldLeft(AnswerP!CloseCall, quietP, orderP)
  <2>1. Answer!Finish(s) = IF s.message_started THEN Answer!Emit(closed, Answer!MessageStop) ELSE closed
    BY Zenon DEF Answer!Finish
  <2>2. AnswerP!Finish(s) = IF s.message_started THEN AnswerP!Emit(closedP, AnswerP!MessageStop) ELSE closedP
    BY Zenon DEF AnswerP!Finish
  <2>3. quiet = quietP
    BY CallsSame
  <2> HIDE DEF quiet, quietP
  <2>4. closed = closedP
    <3> DEFINE F(x, q) == Answer!FoldLeft(Answer!CloseCall, x, q)
               FP(x, q) == AnswerP!FoldLeft(AnswerP!CloseCall, x, q)
    <3>1. order = orderP /\ \A x, c : Answer!CloseCall(x, c) = AnswerP!CloseCall(x, c)
      BY CallsSame, Zenon
    <3>2. ASSUME NEW x, NEW q
          PROVE  F(x, q) = FP(x, q)
      BY <3>1, Zenon DEF Answer!FoldLeft, AnswerP!FoldLeft, Answer!MapThenFoldSet,
                         AnswerP!MapThenFoldSet, Answer!Max, AnswerP!Max
    <3>3. closed = F(quiet, order) /\ closedP = FP(quietP, orderP)
      BY Zenon
    <3> HIDE DEF F, FP, closed, closedP, order, orderP
    <3> QED
      BY <2>3, <3>1, <3>2, <3>3, Zenon
  <2> HIDE DEF closed, closedP
  <2> QED
    BY <2>1, <2>2, <2>4, EventsSame
<1> QED
  BY <1>1, <1>2, Zenon

\* What the readers make of events is what they make of them in the proved module.
LEMMA ReadersSame ==
  /\ \A by, r, events : Answer!ReadAll(by, r, events) = AnswerP!ReadAll(by, r, events)
  /\ \A r : Answer!Collected(r) = AnswerP!Collected(r)
  /\ \A content : Answer!Replay(content) = AnswerP!Replay(content)
  /\ Answer!By = AnswerP!By /\ Answer!NewReader = AnswerP!NewReader
<1>1. /\ \A by, b : Answer!Slot(by, b) = AnswerP!Slot(by, b)
      /\ Answer!Talk = AnswerP!Talk
      /\ \A S : Answer!SetToSeq(S) = AnswerP!SetToSeq(S)
  BY Zenon DEF Answer!Slot, AnswerP!Slot, Answer!Nothing, AnswerP!Nothing, Answer!Talk, AnswerP!Talk,
               Answer!SetToSeq, AnswerP!SetToSeq, Answer!IsInjective, AnswerP!IsInjective,
               Answer!Cardinality, AnswerP!Cardinality,
               Answer!IsFiniteSet, AnswerP!IsFiniteSet
<1>2. \A by, r, b, args :
        Answer!PushOutputBlock(by, r, b, args) = AnswerP!PushOutputBlock(by, r, b, args)
  BY <1>1 DEF Answer!PushOutputBlock, AnswerP!PushOutputBlock
<1>3. \A by, r, e : Answer!Read(by, r, e) = AnswerP!Read(by, r, e)
  <2> SUFFICES ASSUME NEW by, NEW r, NEW e
               PROVE  Answer!Read(by, r, e) = AnswerP!Read(by, r, e)
    OBVIOUS
  <2> DEFINE pushed == Answer!FoldLeft(LAMBDA acc, c : Answer!PushOutputBlock(by, acc, c.block, c.args), r, e.content)
             pushedP == AnswerP!FoldLeft(LAMBDA acc, c : AnswerP!PushOutputBlock(by, acc, c.block, c.args), r, e.content)
  <2>1. pushed = pushedP
    BY <1>2, Zenon DEF Answer!FoldLeft, AnswerP!FoldLeft, Answer!MapThenFoldSet,
              AnswerP!MapThenFoldSet, Answer!Max, AnswerP!Max
  <2> QED
    BY <1>1, <1>2, <2>1, Zenon DEF Answer!Read, AnswerP!Read
<1>4. \A by, r, events : Answer!ReadAll(by, r, events) = AnswerP!ReadAll(by, r, events)
  BY <1>3 DEF Answer!ReadAll, AnswerP!ReadAll, Answer!FoldLeft, AnswerP!FoldLeft, Answer!MapThenFoldSet,
     AnswerP!MapThenFoldSet, Answer!Max, AnswerP!Max
<1>5. \A r : Answer!Collected(r) = AnswerP!Collected(r)
  BY Zenon DEF Answer!ToSet, AnswerP!ToSet, Answer!InOrder, AnswerP!InOrder, Answer!Said, AnswerP!Said,
               Answer!Parsed, AnswerP!Parsed, Answer!Collected, AnswerP!Collected,
               Answer!Cardinality, AnswerP!Cardinality,
               Answer!IsFiniteSet, AnswerP!IsFiniteSet
<1>6. \A content : Answer!Replay(content) = AnswerP!Replay(content)
  BY Zenon DEF Answer!MessageStart, AnswerP!MessageStart, Answer!Start, AnswerP!Start,
               Answer!BlockStop, AnswerP!BlockStop, Answer!MessageStop, AnswerP!MessageStop,
               Answer!Replay, AnswerP!Replay
<1>7. Answer!By = AnswerP!By /\ Answer!NewReader = AnswerP!NewReader
  BY Zenon DEF Answer!By, AnswerP!By, Answer!NewReader, AnswerP!NewReader
<1> QED
  BY <1>4, <1>5, <1>6, <1>7, Zenon

\* A step of the composition is a step of the streamed answers or none of them.
LEMMA AnswerSpec == Spec => AnswerP!Spec
<1>1. Answer!Init => AnswerP!Init
  BY Zenon DEF Answer!Talk, AnswerP!Talk, Answer!Routes, AnswerP!Routes, Answer!NewReader,
               AnswerP!NewReader, Answer!Init, AnswerP!Init
<1>2. \A s : Answer!Take(s) => AnswerP!Take(s)
  BY ReadersSame, Zenon DEF Answer!Take, AnswerP!Take
<1>3. Answer!Chunk => AnswerP!Chunk
  <2>1. Answer!DeltaSeqs = AnswerP!DeltaSeqs
    BY DEF Answer!Deltas, AnswerP!Deltas, Answer!DeltaSeqs, AnswerP!DeltaSeqs
  <2> QED
    BY <1>2, <2>1, StreamSame DEF Answer!Chunk, AnswerP!Chunk
<1>4. Answer!BodyEnds => AnswerP!BodyEnds
  BY ReadersSame, StreamSame DEF Answer!BodyEnds, AnswerP!BodyEnds
<1>5. Answer!BodyBreaks => AnswerP!BodyBreaks
  BY ReadersSame, Zenon DEF Answer!BodyBreaks, AnswerP!BodyBreaks
<1>6. Init => AnswerP!Init
  BY <1>1 DEF Init
<1>7. [Next]_vars => [AnswerP!Next]_AnswerP!vars
  BY <1>3, <1>4, <1>5 DEF Next, vars, answerVars, AnswerP!vars, Answer!Next, AnswerP!Next
<1> QED
  BY <1>6, <1>7, PTL DEF Spec, AnswerP!Spec

\* The constants are as the proofs about streamed answers need them.
LEMMA AnswerIsNumbered == AnswerP!Numbered
<1>1. MaxPieces \in Nat /\ MaxChunks \in Nat
  BY BoundsAreNumbers
<1>2. Calls \subseteq Nat \ AnswerP!Talk
  BY BlocksAreApart DEF Answer!Talk, AnswerP!Talk
<1>3. AnswerP!IsFiniteSet(Calls)
  BY BlocksAreApart, Zenon DEF IsFiniteSet, AnswerP!IsFiniteSet
<1> QED
  BY <1>1, <1>2, <1>3, Zenon DEF AnswerP!Numbered

\* The property of the proved module is the one the run checks.
LEMMA CallsArriveSame == AnswerP!CallsArrive => CallsArrive
  BY Zenon DEF CallsArrive, Answer!Talk, AnswerP!Talk, Answer!Pieces, AnswerP!Pieces,
               Answer!CallsArrive, AnswerP!CallsArrive, Answer!ToSet, AnswerP!ToSet, Answer!Cardinality, AnswerP!Cardinality, Answer!IsFiniteSet, AnswerP!IsFiniteSet

\* The types of the proved module are those the run checks.
LEMMA AnswerTypesSame == AnswerP!TypeOK => Answer!TypeOK
  BY Zenon DEF Answer!Talk, AnswerP!Talk, Answer!Routes, AnswerP!Routes, Answer!TypeOK,
               AnswerP!TypeOK

\* A step of the composition is a step of the language client or none of it.
LEMMA LspSpec == Spec => LspP!Spec
<1>1. Lsp!Init => LspP!Init
  BY Zenon DEF Lsp!Closed, LspP!Closed, Lsp!Init, LspP!Init
<1>2. Lsp!Next => LspP!Next
  BY Zenon DEF Lsp!Kinds, LspP!Kinds, Lsp!Closed, LspP!Closed, Lsp!pipes, LspP!pipes, Lsp!DidOpen,
               LspP!DidOpen, Lsp!DidChange, LspP!DidChange, Lsp!DidClose, LspP!DidClose,
               Lsp!Request, LspP!Request, Lsp!Answer, LspP!Answer, Lsp!Garbage, LspP!Garbage,
               Lsp!At, LspP!At, Lsp!Goto, LspP!Goto, Lsp!Begin, LspP!Begin, Lsp!Check, LspP!Check,
               Lsp!Written, LspP!Written, Lsp!NotWritten, LspP!NotWritten, Lsp!Doing, LspP!Doing,
               Lsp!Clash, LspP!Clash, Lsp!SendOpen, LspP!SendOpen, Lsp!Insert, LspP!Insert,
               Lsp!Bump, LspP!Bump, Lsp!SendChange, LspP!SendChange, Lsp!SendClose, LspP!SendClose,
               Lsp!Remove, LspP!Remove, Lsp!Register, LspP!Register, Lsp!AfterRequest,
               LspP!AfterRequest, Lsp!Ask, LspP!Ask, Lsp!Kill, LspP!Kill, Lsp!Exit, LspP!Exit,
               Lsp!CallStep, LspP!CallStep, Lsp!Wake, LspP!Wake, Lsp!Drain, LspP!Drain,
               Lsp!ReadMessage, LspP!ReadMessage, Lsp!ReadEnd, LspP!ReadEnd, Lsp!ReaderStep,
               LspP!ReaderStep, Lsp!Unchanged, LspP!Unchanged, Lsp!Serve, LspP!Serve, Lsp!Respond,
               LspP!Respond, Lsp!ServerAnswers, LspP!ServerAnswers, Lsp!Interject, LspP!Interject,
               Lsp!Die, LspP!Die, Lsp!Next, LspP!Next
<1>3. Init => LspP!Init
  BY <1>1 DEF Init
<1>4. [Next]_vars => [LspP!Next]_LspP!vars
  BY <1>2 DEF Next, vars, lspVars, LspP!vars
<1> QED
  BY <1>3, <1>4, PTL DEF Spec, LspP!Spec

\* The property of the proved module is the one the run checks.
LEMMA DocumentsAgreeSame == LspP!DocumentsAgree => DocumentsAgree
  BY Zenon DEF DocumentsAgree, Lsp!Closed, LspP!Closed, Lsp!Doing, LspP!Doing, Lsp!DocumentsAgree,
               LspP!DocumentsAgree

\* A step of the composition is a step of the MCP manager or none of it.
LEMMA McpSpec == Spec => McpP!Spec
<1>1. Mcp!Init => McpP!Init
  BY Zenon DEF Mcp!Servers, McpP!Servers, Mcp!history, McpP!history, Mcp!NoProcess, McpP!NoProcess,
               Mcp!Idle, McpP!Idle, Mcp!Init, McpP!Init
<1>2. Mcp!Next => McpP!Next
  BY Zenon DEF Mcp!Servers, McpP!Servers, Mcp!tools, McpP!tools, Mcp!history, McpP!history,
               Mcp!NoProcess, McpP!NoProcess, Mcp!Spawned, McpP!Spawned, Mcp!Idle, McpP!Idle,
               Mcp!Qualified, McpP!Qualified, Mcp!NameFor, McpP!NameFor, Mcp!Route,
               McpP!Route, Mcp!Begin, McpP!Begin,
               Mcp!DiscoverTools, McpP!DiscoverTools, Mcp!CallTool, McpP!CallTool, Mcp!Shutdown,
               McpP!Shutdown, Mcp!Goto, McpP!Goto, Mcp!Spawn, McpP!Spawn, Mcp!Send, McpP!Send,
               Mcp!Initialize, McpP!Initialize, Mcp!AlreadyReady, McpP!AlreadyReady, Mcp!Forget,
               McpP!Forget, Mcp!Learn, McpP!Learn, Mcp!Ask, McpP!Ask, Mcp!NextPage, McpP!NextPage,
               Mcp!NextServer, McpP!NextServer, Mcp!Readable, McpP!Readable, Mcp!InitializeAnswered,
               McpP!InitializeAnswered, Mcp!ListAnswered, McpP!ListAnswered, Mcp!ReadResponse,
               McpP!ReadResponse, Mcp!ReadEnd, McpP!ReadEnd, Mcp!Dropped, McpP!Dropped, Mcp!Kill,
               McpP!Kill, Mcp!Operation, McpP!Operation, Mcp!Unchanged, McpP!Unchanged, Mcp!Reply,
               McpP!Reply, Mcp!Interject, McpP!Interject, Mcp!Die, McpP!Die, Mcp!Next, McpP!Next
<1>3. Init => McpP!Init
  BY <1>1 DEF Init
<1>4. [Next]_vars => [McpP!Next]_McpP!vars
  BY <1>2 DEF Next, vars, mcpVars, McpP!vars
<1> QED
  BY <1>3, <1>4, PTL DEF Spec, McpP!Spec

\* The property of the proved module is the one the run checks.
LEMMA ToolsShownAreRoutedSame == McpP!ToolsShownAreRouted => ToolsShownAreRouted
  BY Zenon DEF ToolsShownAreRouted, Mcp!Servers, McpP!Servers, Mcp!Qualified, McpP!Qualified,
               Mcp!NameFor, McpP!NameFor, Mcp!Route, McpP!Route, Mcp!Contested, McpP!Contested,
               Mcp!ToolsShownAreRouted, McpP!ToolsShownAreRouted

\* The property of the proved module is the one the run checks.
LEMMA AnswersMatchSame == McpP!AnswersMatch => AnswersMatch
  BY Zenon DEF AnswersMatch, Mcp!AnswersMatch, McpP!AnswersMatch

-----------------------------------------------------------------------------
(***************************************************************************)
(* What the components promise holds of every behaviour of the whole.      *)
(***************************************************************************)

\* For any number of messages: the terminal shows a turn as running only while the
\* end of some turn is still to reach it.
THEOREM ThinkingHasATurn == Spec => []ThinkingIsOfATurn
<1>1. TuiInv => ThinkingIsOfATurn
  BY TuiInvGives DEF ThinkingIsOfATurn
<1> QED
  BY <1>1, TuiSpec, TuiInvariance, PTL

\* For any number of messages: a queued message has a turn whose end will send it.
THEOREM QueuesHaveATurn == Spec => []QueueHasATurn
<1>1. TuiInv => QueueHasATurn
  BY TuiInvGives DEF QueueHasATurn
<1> QED
  BY <1>1, TuiSpec, TuiInvariance, PTL

\* For any number of messages: what was typed waits, is on its way or has a turn,
\* until one poll drains the ends of two turns.
THEOREM NothingTypedIsLost == Spec => []NothingTypedVanishes
<1>1. TuiInv => NothingTypedVanishes
  BY TuiInvGives DEF NothingTypedVanishes
<1> QED
  BY <1>1, TuiSpec, TuiInvariance, PTL

\* For any number of messages: when all threads are over, the file holds what
\* memory holds, unless a command replaced the session.
THEOREM QuietIsSaved == Spec => []SavedWhenQuiet
<1>1. TuiInv => SavedWhenQuiet
  BY TuiInvGives DEF SavedWhenQuiet
<1> QED
  BY <1>1, TuiSpec, TuiInvariance, PTL

\* For any providers and cooldown: a provider that is left alone is Degraded, one
\* is Degraded exactly while its rate is below three tenths, and none is asked
\* while it is left alone.
THEOREM BreakersConsistent == Spec => []BreakerConsistent
<1>1. FallbackInv => BreakerConsistent
  BY FallbackInvGives DEF BreakerConsistent
<1> QED
  BY <1>1, FallbackSpec, FallbackInvariance, PTL

\* For any posts, streams, pieces and capacity of a channel: a stream that saw an
\* answer begin shows its pieces in order, up to the first that reads as an end,
\* whatever the cuts garble, unless generations overlapped or it lagged.
THEOREM AnswersAreWhole == Spec => []WholeAnswer
<1>1. HostedInv => WholeAnswer
  BY HostedInvGives DEF WholeAnswer
<1> QED
  BY <1>1, HostedSpec, HostedInvariance, PTL

\* For any files, contents and batches: a handler of strict writes that failed
\* leaves the files as it found them, but that one it could not read may be gone,
\* and one it was writing torn when nothing puts it back (a notebook, above all).
THEOREM FailuresLeaveNothing == Spec => []FailureLeavesNothing
<1>1. SwdInv => FailureLeavesNothing
  BY SwdFailures DEF FailureLeavesNothing
<1> QED
  BY <1>1, SwdIsSound, SwdSpec, SwdInvariance, PTL

\* For any files, contents and batches: a file reported as verified holds what the
\* last action on it was to leave.
THEOREM VerifiedIsLastAlways == Spec => []VerifiedIsLast
<1>1. SwdInv => VerifiedIsLast
  BY SwdVerified DEF VerifiedIsLast
<1> QED
  BY <1>1, SwdIsSound, SwdSpec, SwdInvariance, PTL

\* For any plugins and versions: after an operation that succeeds the directory,
\* the record and the setting of every plugin agree.
THEOREM PluginsAgreeAlways == Spec => []PluginsAgree
<1>1. PluginsP!Disjoint
  BY BoundsAreNumbers, BundleIsApart DEF PluginsP!Disjoint
<1>2. PluginsP!Spec => []PluginsP!PluginsAgree
  BY <1>1, PluginsP!PluginsAgreeAlways
<1> QED
  BY <1>2, PluginsSpec, PluginsAgreeSame, PTL

\* For any plugins and versions: a listing mends the bundled plugins and drops
\* records without a plugin.
THEOREM ListingMendsAlways == Spec => []ListingMends
<1>1. PluginsP!Disjoint
  BY BoundsAreNumbers, BundleIsApart DEF PluginsP!Disjoint
<1>2. PluginsP!Spec => []PluginsP!ListingMends
  BY <1>1, PluginsP!ListingMendsAlways
<1> QED
  BY <1>2, PluginsSpec, ListingMendsSame, PTL

\* For any number of calls: client and language server agree on what is open and
\* on which versions exist, unless calls on one document overlapped.
THEOREM DocumentsAgreeAlways == Spec => []DocumentsAgree
<1>1. LspP!Spec => []LspP!DocumentsAgree
  BY LspP!DocumentsAgreeAlways
<1> QED
  BY <1>1, LspSpec, DocumentsAgreeSame, PTL

\* For any number of MCP servers and tools, whatever names they share: under the
\* name of a tool that was discovered a call reaches a tool of its server, wherever
\* a discovery broke off, unless another server has the name.
THEOREM ToolsShownAreRoutedAlways == Spec => []ToolsShownAreRouted
<1>1. McpP!Sound
  BY BoundsAreNumbers DEF McpP!Sound
<1>2. McpP!Spec => []McpP!ToolsShownAreRouted
  BY <1>1, McpP!ToolsShownAreRoutedAlways
<1> QED
  BY <1>2, McpSpec, ToolsShownAreRoutedSame, PTL

\* For any number of MCP servers and requests: no answer is taken for that of
\* another request as long as no server speaks unasked and no caller leaves early.
THEOREM AnswersMatchAlways == Spec => []AnswersMatch
<1>1. McpP!Sound
  BY BoundsAreNumbers DEF McpP!Sound
<1>2. McpP!Spec => []McpP!AnswersMatch
  BY <1>1, McpP!AnswersMatchAlways
<1> QED
  BY <1>2, McpSpec, AnswersMatchSame, PTL

\* For any blocks, pieces and chunks: when an answer ends well, every call with a
\* name reached the agent loop once and with all its arguments that came, however
\* its chunks mixed the calls; with the exceptions of the terminal's single slot
\* and of the orchestrator's replay that the property states.
THEOREM CallsArriveAlways == Spec => []CallsArrive
<1>1. AnswerP!Spec => []AnswerP!CallsArrive
  BY AnswerIsNumbered, AnswerP!AllCallsArrive
<1> QED
  BY <1>1, AnswerSpec, CallsArriveSame, PTL

\* For any constants: whatever the component that runs does (a turn ends, a write
\* fails, a server dies, chunks come mixed), its variables keep to their types.
THEOREM ComponentsKeepTheirTypes == Spec => []TypeOK
<1>1. /\ TuiInv => Tui!TypeOK
      /\ FallbackInv => Fallback!TypeOK
      /\ HostedInv => Hosted!TypeOK
      /\ SwdInv => Swd!TypeOK
  BY TuiInvGives, FallbackInvGives, HostedInvGives DEF SwdInv
<1>2. AnswerP!Spec => []AnswerP!TypeOK
  BY AnswerIsNumbered, AnswerP!StreamTypeCorrect
<1>3. PluginsP!Spec => []PluginsP!TypeOK
  <2>1. PluginsP!Disjoint
    BY BoundsAreNumbers, BundleIsApart DEF PluginsP!Disjoint
  <2> QED
    BY <2>1, PluginsP!TypeCorrect
<1>4. LspP!Spec => []LspP!TypeOK
  BY LspP!TypeCorrect
<1>5. McpP!Spec => []McpP!TypeOK
  <2>1. McpP!Sound
    BY BoundsAreNumbers DEF McpP!Sound
  <2> QED
    BY <2>1, McpP!TypeCorrect
<1>6. AnswerP!TypeOK => Answer!TypeOK
  BY AnswerTypesSame
<1>7. PluginsP!TypeOK => Plugins!TypeOK
  BY Zenon DEF Plugins!TypeOK, PluginsP!TypeOK, Plugins!Versions, PluginsP!Versions,
               Plugins!Absent, PluginsP!Absent, Plugins!Plugins, PluginsP!Plugins,
               Plugins!Broken, PluginsP!Broken, Plugins!Kinds, PluginsP!Kinds
<1>8. LspP!TypeOK => Lsp!TypeOK
  BY Zenon DEF Lsp!TypeOK, LspP!TypeOK, Lsp!Kinds, LspP!Kinds
<1>9. McpP!TypeOK => Mcp!TypeOK
  BY Zenon DEF Mcp!TypeOK, McpP!TypeOK, Mcp!Servers, McpP!Servers, Mcp!Idle, McpP!Idle
<1>10. (/\ Tui!TypeOK /\ Swd!TypeOK /\ Plugins!TypeOK /\ Hosted!TypeOK
        /\ Answer!TypeOK /\ Fallback!TypeOK /\ Lsp!TypeOK /\ Mcp!TypeOK) => TypeOK
  BY Zenon DEF TypeOK
<1>11. Spec => [](/\ Tui!TypeOK /\ Fallback!TypeOK /\ Hosted!TypeOK /\ Swd!TypeOK)
  BY <1>1, TuiSpec, TuiInvariance, FallbackSpec, FallbackInvariance, HostedSpec, HostedInvariance,
     SwdSpec, SwdIsSound, SwdInvariance, PTL
<1> QED
  BY <1>2, <1>3, <1>4, <1>5, <1>6, <1>7, <1>8, <1>9, <1>10, <1>11, AnswerSpec, PluginsSpec, LspSpec,
     McpSpec, PTL
=============================================================================
