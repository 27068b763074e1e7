--------------------------- MODULE AgentLoop_proofs ---------------------------
(***************************************************************************)
(* Proofs about AgentLoop, for any tool calls and any bounds.              *)
(***************************************************************************)
EXTENDS AgentLoop, TLAPS, WellFoundedInduction, SequenceTheorems, FiniteSetTheorems

-----------------------------------------------------------------------------
(* The invariant.                                                          *)

\* The number of summaries at the front.
PrefixLen(s) == IF HasSummary(s) THEN 1 ELSE 0

\* Only answers call tools, each result message has the result of one call,
\* and a summary can only be the first message.
Plain(s) ==
  \A i \in DOMAIN s :
    /\ s[i].role = "system" => i = 1
    /\ s[i].role # "assistant" => s[i].uses = {}
    /\ s[i].role # "tool" => s[i].results = {}
    /\ s[i].role = "tool" => \E id \in Calls : s[i].results = {id}

\* No call is made twice, and none is answered twice.
Once(s) ==
  \A i, j \in DOMAIN s : i # j => /\ s[i].uses \cap s[j].uses = {}
                                  /\ s[i].results \cap s[j].results = {}

\* The j-th message stands in the row of results behind the answer it is for.
Owned(s, j) ==
  \E i \in 1..(j - 1) : /\ s[i].role = "assistant"
                        /\ s[j].results \subseteq s[i].uses
                        /\ \A k \in (i + 1)..j : s[k].role = "tool"

\* Nothing but results comes before the j-th message, a result itself.
Leading(s, j) == \A k \in (PrefixLen(s) + 1)..j : s[k].role = "tool"

\* Results whose call a compaction has cut off lead the history.
Placed(s) ==
  \A j \in DOMAIN s :
    s[j].role = "tool" => Owned(s, j) \/ (Leading(s, j) /\ s[j].results \cap Uses(s) = {})

\* The j-th message has the result of the call `id` of the i-th.
Answers(s, i, j, id) ==
  /\ i < j
  /\ id \in s[j].results
  /\ \A k \in (i + 1)..j : s[k].role # "assistant"

\* Every call but the pending ones has its result.
Complete(s, p) ==
  \A i \in DOMAIN s : \A id \in s[i].uses \ p : \E j \in DOMAIN s : Answers(s, i, j, id)

\* The pending calls are of the last answer, and not answered.
Waiting(s, p) ==
  p # {} => \E i \in DOMAIN s : /\ s[i].role = "assistant" /\ p \subseteq s[i].uses
                                /\ \A k \in (i + 1)..Len(s) : s[k].role = "tool"

Good(s, p) ==
  /\ s \in Seq(Message)
  /\ Plain(s) /\ Once(s) /\ Placed(s) /\ Complete(s, p) /\ Waiting(s, p)
  /\ p \cap Results(s) = {}

\* What a request looks like: nothing leads it but the user.
Opened(s) == Recent(s) # <<>> => Head(Recent(s)).role = "user"

\* Somebody has spoken since the summary.
Talks(s) == \E i \in DOMAIN s : s[i].role \in {"user", "assistant"}

IInv ==
  /\ TypeOK
  /\ Good(messages, pending)
  /\ phase = "tools" <=> pending # {}
  /\ phase = "awaiting" => Opened(messages)
  /\ failures <= 1
  /\ failures = 1 /\ phase # "idle" => Talks(messages)

-----------------------------------------------------------------------------
(* Numbers, sequences, and the operators of the community modules.         *)

\* A set of natural numbers that is not empty has a least element.
LEMMA Smallest ==
  ASSUME NEW T, T \subseteq Nat, T # {}
  PROVE  \E x \in T : \A y \in T : x <= y
<1>1. \E x \in T : \A y \in T : ~ (<<y, x>> \in OpToRel(<, Nat))
  BY NatLessThanWellFounded, WFMin, Zenon
<1>2. \A x, y \in T : <<y, x>> \in OpToRel(<, Nat) <=> y < x
  BY Zenon DEF OpToRel
<1>3. \E x \in T : \A y \in T : ~ (y < x)
  BY <1>1, <1>2, Zenon
<1> QED
  BY <1>3

\* Min of the community modules names an element of the set.
LEMMA MinIn ==
  ASSUME NEW T, T \subseteq Nat, T # {}
  PROVE  Min(T) \in T
  BY Smallest DEF Min

\* Max of the community modules names an element no other exceeds.
LEMMA MaxIn ==
  ASSUME NEW n \in Nat, NEW T, T \subseteq 0..n, T # {}
  PROVE  /\ Max(T) \in T
         /\ \A x \in T : x <= Max(T)
<1> DEFINE R == {n - x : x \in T}
<1>1. R \subseteq Nat /\ R # {}
  <2>1. \A x \in T : n - x \in Nat
    OBVIOUS
  <2> QED
    BY <2>1, Zenon
<1>2. PICK r \in R : \A y \in R : r <= y
  BY <1>1, Smallest
<1>3. n - r \in T /\ \A y \in T : n - r >= y
  BY <1>2
<1> QED
  BY <1>3 DEF Max

\* Induction, stated for a set instead of a predicate.
LEMMA SetInduction ==
  ASSUME NEW S, 0 \in S, \A n \in Nat : n \in S => n + 1 \in S
  PROVE  Nat \subseteq S
<1> SUFFICES ASSUME Nat \ S # {}
             PROVE  FALSE
  OBVIOUS
<1>1. PICK x \in Nat \ S : \A y \in Nat \ S : x <= y
  BY Smallest
<1>2. x # 0 /\ x - 1 \in Nat /\ x - 1 \in S
  BY <1>1
<1> QED
  BY <1>1, <1>2

\* The length and the elements of three sequences in a row.
LEMMA Joined ==
  ASSUME NEW a \in Seq(Message), NEW b \in Seq(Message), NEW c \in Seq(Message)
  PROVE  /\ a \o b \o c \in Seq(Message)
         /\ Len(a \o b \o c) = Len(a) + Len(b) + Len(c)
         /\ \A i \in 1..Len(a) : (a \o b \o c)[i] = a[i]
         /\ \A i \in 1..Len(b) : (a \o b \o c)[Len(a) + i] = b[i]
         /\ \A i \in 1..Len(c) : (a \o b \o c)[Len(a) + Len(b) + i] = c[i]
<1> DEFINE ab == a \o b
<1>1. /\ ab \in Seq(Message) /\ Len(ab) = Len(a) + Len(b)
      /\ \A i \in 1..Len(a) : ab[i] = a[i]
      /\ \A i \in 1..Len(b) : ab[Len(a) + i] = b[i]
  OBVIOUS
<1> HIDE DEF ab
<1>2. ab \o c \in Seq(Message) /\ Len(ab \o c) = Len(ab) + Len(c)
  <2>1. ab \in Seq(Message)
    BY <1>1
  <2> QED
    BY <2>1, ConcatProperties
<1>3. \A i \in 1..Len(ab) : (ab \o c)[i] = ab[i]
  BY <1>1
<1>4. \A i \in 1..Len(c) : (ab \o c)[Len(ab) + i] = c[i]
  BY <1>1
<1>5. \A i \in 1..Len(a) : i \in 1..Len(ab)
  BY <1>1
<1>6. \A i \in 1..Len(b) : Len(a) + i \in 1..Len(ab)
  <2>1. Len(a) \in Nat /\ Len(b) \in Nat /\ Len(ab) = Len(a) + Len(b)
    BY <1>1
  <2> QED
    BY <2>1
<1>7. a \o b \o c = ab \o c
  BY Zenon DEF ab
<1>8. Len(ab) + Len(c) = Len(a) + Len(b) + Len(c)
  BY <1>1, Zenon
<1>9. \A i \in 1..Len(a) : (ab \o c)[i] = a[i]
  BY <1>1, <1>3, <1>5, Zenon
<1>10. \A i \in 1..Len(b) : (ab \o c)[Len(a) + i] = b[i]
  BY <1>1, <1>3, <1>6, Zenon
<1>11. \A i \in 1..Len(c) : (ab \o c)[Len(a) + Len(b) + i] = c[i]
  BY <1>1, <1>4, Zenon
<1> QED
  BY <1>2, <1>7, <1>8, <1>9, <1>10, <1>11, Zenon

\* g[i] is the concatenation of the first i of the n sequences.
Concatenations(g, ss, n) ==
  /\ g[1] = ss[1]
  /\ \A i \in 2..n : g[i] = g[i - 1] \o ss[i]

\* FlattenSeq is what concatenating one sequence after another reaches.
LEMMA Flattened ==
  ASSUME NEW n \in Nat \ {0}, NEW ss, Len(ss) = n,
         NEW g, Concatenations(g, ss, n)
  PROVE  FlattenSeq(ss) = g[n]
<1> DEFINE Step(f) == [i \in 1..n |-> IF i = 1 THEN ss[i] ELSE f[i - 1] \o ss[i]]
           flatten == CHOOSE f : f = Step(f)
           h == [i \in 1..n |-> g[i]]
<1>1. h = Step(h)
  <2>1. \A i \in 1..n : h[i] = IF i = 1 THEN ss[i] ELSE h[i - 1] \o ss[i]
    <3> SUFFICES ASSUME NEW i \in 1..n, i # 1
                 PROVE  h[i] = h[i - 1] \o ss[i]
      BY DEF Concatenations
    <3>1. i - 1 \in 1..n /\ i \in 2..n
      OBVIOUS
    <3> QED
      BY <3>1, Zenon DEF Concatenations
  <2> QED
    BY <2>1, Zenon
<1>2. flatten = Step(flatten)
  BY <1>1
<1> HIDE DEF flatten
<1> DEFINE Agree == {i \in Nat : i \in 1..n => flatten[i] = g[i]}
<1>3. Nat \subseteq Agree
  <2>1. 0 \in Agree
    OBVIOUS
  <2>2. ASSUME NEW i \in Nat, i \in Agree
        PROVE  i + 1 \in Agree
    <3>1. CASE i = 0
      BY <1>2, <3>1 DEF Concatenations
    <3>2. CASE i + 1 \in 2..n
      <4>1. i + 1 \in 1..n /\ i \in 1..n /\ i + 1 # 1 /\ (i + 1) - 1 = i
        BY <3>2
      <4>2. flatten[i + 1] = flatten[i] \o ss[i + 1]
        BY <1>2, <4>1
      <4>3. g[i + 1] = g[i] \o ss[i + 1]
        BY <3>2, <4>1 DEF Concatenations
      <4>4. flatten[i] = g[i]
        BY <2>2, <4>1
      <4>5. flatten[i + 1] = g[i + 1]
        BY <4>2, <4>3, <4>4
      <4> QED
        BY <4>5
    <3>3. CASE i + 1 > n
      BY <3>3
    <3> QED
      BY <3>1, <3>2, <3>3
  <2> HIDE DEF Agree
  <2> QED
    BY <2>1, <2>2, SetInduction
<1>4. FlattenSeq(ss) = flatten[n]
  BY Zenon DEF FlattenSeq, flatten
<1> QED
  BY <1>3, <1>4

-----------------------------------------------------------------------------
(* Compaction: what is left is the end of the history behind a summary.    *)

\* A conversation is its summary, if it has one, and the rest.
LEMMA PrefixAndRecent ==
  ASSUME NEW s \in Seq(Message)
  PROVE  /\ PrefixLen(s) \in {0, 1} /\ PrefixLen(s) <= Len(s)
         /\ PrefixLen(s) = 1 <=> (Len(s) > 0 /\ s[1].role = "system")
         /\ Recent(s) \in Seq(Message)
         /\ Len(Recent(s)) = Len(s) - PrefixLen(s)
         /\ \A i \in 1..Len(Recent(s)) : Recent(s)[i] = s[i + PrefixLen(s)]
<1>1. CASE s = <<>>
  BY <1>1 DEF PrefixLen, Recent, HasSummary
<1>2. CASE s # <<>>
  <2>1. Head(s) = s[1] /\ Len(s) > 0
    BY <1>2
  <2>2. Tail(s) \in Seq(Message) /\ Len(Tail(s)) = Len(s) - 1
        /\ \A i \in 1..Len(Tail(s)) : Tail(s)[i] = s[i + 1]
    BY <1>2, HeadTailProperties
  <2> QED
    BY <1>2, <2>1, <2>2 DEF PrefixLen, Recent, HasSummary
<1> QED
  BY <1>1, <1>2

\* safe_compaction_boundary cuts no further than the conversation goes.
LEMMA CutsAreInside ==
  ASSUME NEW s \in Seq(Message), NEW limit \in Int
  PROVE  /\ SafeCut(s, limit) \in 0..Len(s)
         /\ limit = Len(s) => SafeCut(s, limit) = Len(s)
<1> DEFINE T == {0} \cup {i \in 1..Len(s) : i <= limit /\ ~Paired(s, i)}
<1>1. T \subseteq 0..Len(s) /\ T # {} /\ Len(s) \in Nat
  OBVIOUS
<1>2. Max(T) \in T /\ \A x \in T : x <= Max(T)
  BY <1>1, MaxIn
<1>3. limit = Len(s) => Len(s) \in T
  BY DEF Paired
<1>4. SafeCut(s, limit) = Max(T)
  BY Zenon DEF SafeCut
<1>5. Max(T) \in 0..Len(s)
  BY <1>1, <1>2, Zenon
<1>6. limit = Len(s) => Len(s) <= Max(T)
  BY <1>2, <1>3, Zenon
<1> HIDE DEF T
<1> QED
  BY <1>1, <1>4, <1>5, <1>6

\* compact_session removes no more than there is.
LEMMA RemovalsAreInside ==
  ASSUME NEW s \in Seq(Message), NEW p \in {PreserveRecent, 2, 1, 0}
  PROVE  /\ Removed(s, p) \in 0..Len(Recent(s))
         /\ p = 0 /\ Len(Recent(s)) > 0 => Removed(s, p) > 0
<1> DEFINE S == {q \in {p, 2, 1, 0} : q <= p /\ CutFor(s, q) > 0}
<1>0. Recent(s) \in Seq(Message) /\ Len(Recent(s)) \in Nat /\ p \in 0..4
  BY PrefixAndRecent DEF PreserveRecent
<1>1. \A q \in 0..4 : CutFor(s, q) \in 0..Len(Recent(s))
  <2> SUFFICES ASSUME NEW q \in 0..4
               PROVE  SafeCut(Recent(s), Len(Recent(s)) - q) \in 0..Len(Recent(s))
    BY DEF CutFor
  <2>1. Len(Recent(s)) - q \in Int
    BY <1>0
  <2> QED
    BY <1>0, <2>1, CutsAreInside
<1>2. S # {} => Max(S) \in S
  <2>1. S \subseteq 0..4
    BY <1>0
  <2> QED
    BY <2>1, MaxIn
<1>3. Removed(s, p) = IF ShouldCompact(s, p) /\ S # {} THEN CutFor(s, Max(S)) ELSE 0
  BY Zenon DEF Removed
<1>4. ASSUME p = 0, Len(Recent(s)) > 0
      PROVE  0 \in S /\ ShouldCompact(s, p)
  <2>1. CutFor(s, 0) = Len(Recent(s))
    BY <1>0, CutsAreInside DEF CutFor
  <2> QED
    BY <1>0, <1>4, <2>1 DEF ShouldCompact
<1>5. \A q \in S : q \in 0..4 /\ CutFor(s, q) > 0
  BY <1>0
<1> HIDE DEF S
<1> QED
  BY <1>0, <1>1, <1>2, <1>3, <1>4, <1>5, SMTT(30)

\* A compaction drops a prefix and puts the summary in its place.
LEMMA CompactedGives ==
  ASSUME NEW s \in Seq(Message), NEW p \in {PreserveRecent, 2, 1, 0}, Removed(s, p) > 0
  PROVE  /\ Compacted(s, p) \in Seq(Message)
         /\ \E d \in 0..(Len(s) - 1) :
              /\ Len(Compacted(s, p)) = Len(s) - d
              /\ Compacted(s, p)[1] = Summary
              /\ \A i \in 2..(Len(s) - d) : Compacted(s, p)[i] = s[i + d]
<1> DEFINE r == Removed(s, p)
           t == SubSeq(Recent(s), r + 1, Len(Recent(s)))
           d == PrefixLen(s) + r - 1
<1>1. r \in 1..Len(Recent(s)) /\ Compacted(s, p) = <<Summary>> \o t
  <2>1. r \in 0..Len(Recent(s))
    BY RemovalsAreInside
  <2>2. Len(Recent(s)) \in Nat
    BY PrefixAndRecent
  <2> QED
    BY <2>1, <2>2 DEF Compacted
<1>2. Summary \in Message
  BY DEF Summary, Said, Message
<1> HIDE DEF r
<1>0. /\ Recent(s) \in Seq(Message) /\ PrefixLen(s) \in {0, 1} /\ Len(s) \in Nat
      /\ Len(Recent(s)) = Len(s) - PrefixLen(s)
      /\ \A i \in 1..Len(Recent(s)) : Recent(s)[i] = s[i + PrefixLen(s)]
  BY PrefixAndRecent
<1>3. /\ t \in Seq(Message)
      /\ Len(t) = Len(Recent(s)) - r
      /\ \A i \in 1..Len(t) : t[i] = Recent(s)[i + r]
  BY <1>0, <1>1
<1>4. d \in 0..(Len(s) - 1) /\ Len(t) = Len(s) - d - 1
  BY <1>0, <1>1, <1>3
<1>5. \A i \in 1..Len(t) : t[i] = s[i + d + 1]
  <2> SUFFICES ASSUME NEW i \in 1..Len(t)
               PROVE  t[i] = s[i + d + 1]
    OBVIOUS
  <2>1. i \in Nat /\ i + r \in 1..Len(Recent(s)) /\ (i + r) + PrefixLen(s) = i + d + 1
    BY <1>0, <1>1, <1>3
  <2>2. t[i] = Recent(s)[i + r] /\ Recent(s)[i + r] = s[(i + r) + PrefixLen(s)]
    BY <1>0, <1>3, <2>1
  <2> QED
    BY <2>1, <2>2
<1> HIDE DEF t, d
<1>6. /\ <<Summary>> \o t \in Seq(Message)
      /\ Len(<<Summary>> \o t) = Len(s) - d
      /\ (<<Summary>> \o t)[1] = Summary
      /\ \A i \in 2..(Len(s) - d) : (<<Summary>> \o t)[i] = t[i - 1]
  BY <1>2, <1>3, <1>4
<1>7. \A i \in 2..(Len(s) - d) : t[i - 1] = s[i + d]
  BY <1>4, <1>5
<1> QED
  BY <1>1, <1>4, <1>6, <1>7

\* What stands behind a cut is a history as good as the whole was: the results
\* whose call is gone lead it.
LEMMA CutKeepsGood ==
  ASSUME NEW s, Good(s, {}), NEW d \in 0..(Len(s) - 1),
         NEW t \in Seq(Message), Len(t) = Len(s) - d,
         t[1] = Summary, \A i \in 2..Len(t) : t[i] = s[i + d]
  PROVE  Good(t, {})
<1>0. /\ s \in Seq(Message) /\ Len(s) \in Nat /\ d \in Nat
      /\ DOMAIN s = 1..Len(s) /\ DOMAIN t = 1..Len(t)
      /\ t[1] = [role |-> "system", uses |-> {}, results |-> {}]
      /\ t # <<>> /\ PrefixLen(t) = 1
  BY DEF Good, Summary, Said, PrefixLen, HasSummary
<1>1. \A i \in 2..Len(t) : i + d \in DOMAIN s /\ t[i] = s[i + d] /\ i + d # 1
  BY <1>0
<1>2. Plain(t)
  <2> SUFFICES ASSUME NEW i \in 1..Len(t)
               PROVE  /\ t[i].role = "system" => i = 1
                      /\ t[i].role # "assistant" => t[i].uses = {}
                      /\ t[i].role # "tool" => t[i].results = {}
                      /\ t[i].role = "tool" => \E id \in Calls : t[i].results = {id}
    BY <1>0 DEF Plain
  <2>1. CASE i = 1
    BY <1>0, <2>1
  <2>2. CASE i \in 2..Len(t)
    BY <1>1, <2>2 DEF Good, Plain
  <2> QED
    BY <2>1, <2>2
<1>3. Once(t)
  <2> SUFFICES ASSUME NEW i \in 1..Len(t), NEW j \in 1..Len(t), i # j
               PROVE  /\ t[i].uses \cap t[j].uses = {}
                      /\ t[i].results \cap t[j].results = {}
    BY <1>0 DEF Once
  <2>1. CASE i = 1 \/ j = 1
    BY <1>0, <2>1
  <2>2. CASE i \in 2..Len(t) /\ j \in 2..Len(t)
    <3>1. i + d # j + d
      OBVIOUS
    <3> QED
      BY <1>1, <2>2, <3>1 DEF Good, Once
  <2> QED
    BY <2>1, <2>2
<1>4. Placed(t)
  <2> SUFFICES ASSUME NEW j \in 1..Len(t), t[j].role = "tool"
               PROVE  Owned(t, j) \/ (Leading(t, j) /\ t[j].results \cap Uses(t) = {})
    BY <1>0 DEF Placed
  <2>1. j \in 2..Len(t) /\ j + d \in DOMAIN s /\ t[j] = s[j + d]
    BY <1>0, <1>1
  <2>2. CASE Owned(s, j + d)
    <3>1. PICK i \in 1..(j + d - 1) :
             /\ s[i].role = "assistant" /\ s[j + d].results \subseteq s[i].uses
             /\ \A k \in (i + 1)..(j + d) : s[k].role = "tool"
      BY <2>2 DEF Owned
    <3>2. CASE i - d >= 2
      <4>1. i - d \in 1..(j - 1) /\ t[i - d] = s[i]
        BY <1>0, <1>1, <2>1, <3>1, <3>2
      <4>2. \A k \in (i - d + 1)..j : t[k].role = "tool"
        <5> SUFFICES ASSUME NEW k \in (i - d + 1)..j
                     PROVE  t[k].role = "tool"
          OBVIOUS
        <5>1. k \in 2..Len(t) /\ k + d \in (i + 1)..(j + d)
          BY <1>0, <2>1, <3>1, <3>2
        <5> QED
          BY <1>1, <3>1, <5>1
      <4> QED
        BY <2>1, <3>1, <4>1, <4>2 DEF Owned
    <3>3. CASE i - d <= 1
      <4>1. Leading(t, j)
        <5> SUFFICES ASSUME NEW k \in 2..j
                     PROVE  t[k].role = "tool"
          BY <1>0 DEF Leading
        <5>1. k \in 2..Len(t) /\ k + d \in (i + 1)..(j + d)
          BY <1>0, <2>1, <3>1, <3>3, SMTT(30)
        <5> QED
          BY <1>1, <3>1, <5>1
      <4>2. \A k \in 1..Len(t) : t[k].uses \cap t[j].results = {}
        <5> SUFFICES ASSUME NEW k \in 2..Len(t)
                     PROVE  t[k].uses \cap t[j].results = {}
          BY <1>0
        <5>1. k + d \in DOMAIN s /\ k + d # i /\ i \in DOMAIN s /\ t[k] = s[k + d]
          BY <1>0, <1>1, <2>1, <3>1, <3>3
        <5>2. s[k + d].uses \cap s[i].uses = {}
          BY <5>1 DEF Good, Once
        <5> QED
          BY <2>1, <3>1, <5>1, <5>2
      <4> QED
        BY <1>0, <4>1, <4>2 DEF Uses
    <3> QED
      BY <1>0, <3>1, <3>2, <3>3
  <2>3. CASE Leading(s, j + d) /\ s[j + d].results \cap Uses(s) = {}
    <3>1. Leading(t, j)
      <4> SUFFICES ASSUME NEW k \in 2..j
                   PROVE  t[k].role = "tool"
        BY <1>0 DEF Leading
      <4>1. k \in 2..Len(t) /\ k + d \in (PrefixLen(s) + 1)..(j + d)
        <5>1. PrefixLen(s) \in {0, 1}
          BY <1>0, PrefixAndRecent
        <5> QED
          BY <1>0, <2>1, <5>1
      <4> QED
        BY <1>1, <2>3, <4>1 DEF Leading
    <3>2. \A k \in 1..Len(t) : t[k].uses \cap t[j].results = {}
      <4> SUFFICES ASSUME NEW k \in 2..Len(t)
                   PROVE  t[k].uses \cap t[j].results = {}
        BY <1>0
      <4> QED
        BY <1>1, <2>1, <2>3 DEF Uses
    <3> QED
      BY <1>0, <3>1, <3>2 DEF Uses
  <2> QED
    BY <2>1, <2>2, <2>3 DEF Good, Placed
<1>5. Complete(t, {})
  <2> SUFFICES ASSUME NEW i \in 1..Len(t), NEW id \in t[i].uses
               PROVE  \E j \in DOMAIN t : Answers(t, i, j, id)
    BY <1>0 DEF Complete
  <2>1. i \in 2..Len(t) /\ i + d \in DOMAIN s /\ t[i] = s[i + d]
    BY <1>0, <1>1
  <2>2. PICK j \in DOMAIN s : Answers(s, i + d, j, id)
    BY <2>1 DEF Good, Complete
  <2>3. j - d \in 2..Len(t) /\ t[j - d] = s[j] /\ j - d > i
    BY <1>0, <1>1, <2>1, <2>2 DEF Answers
  <2>4. \A k \in (i + 1)..(j - d) : t[k].role # "assistant"
    <3> SUFFICES ASSUME NEW k \in (i + 1)..(j - d)
                 PROVE  t[k].role # "assistant"
      OBVIOUS
    <3>1. k \in 2..Len(t) /\ k + d \in (i + d + 1)..j
      BY <1>0, <2>1, <2>3
    <3> QED
      BY <1>1, <2>2, <3>1 DEF Answers
  <2> QED
    BY <1>0, <2>2, <2>3, <2>4 DEF Answers
<1> QED
  BY <1>2, <1>3, <1>4, <1>5 DEF Good, Waiting

-----------------------------------------------------------------------------
(* The repair: results that lead the history go, and the user opens it.    *)

\* A history behind which k leading results are left out and o messages of the
\* user put in their place.
Reopened(s, t, k, o) ==
  /\ t \in Seq(Message)
  /\ Len(t) = Len(s) - k + o
  /\ \A i \in 1..PrefixLen(s) : t[i] = s[i]
  /\ \A i \in (PrefixLen(s) + 1)..(PrefixLen(s) + o) : t[i] = Said("user")
  /\ \A i \in (PrefixLen(s) + o + 1)..Len(t) : t[i] = s[i - o + k]

\* The k results that lead a history.
LeadingResults(s, k) ==
  /\ k \in 0..(Len(s) - PrefixLen(s))
  /\ \A i \in (PrefixLen(s) + 1)..(PrefixLen(s) + k) : s[i].role = "tool"
  /\ PrefixLen(s) + k < Len(s) => s[PrefixLen(s) + k + 1].role # "tool"

\* Every conversation starts with some number of tool results, maybe none.
LEMMA LeadingExist ==
  ASSUME NEW s \in Seq(Message)
  PROVE  \E k : LeadingResults(s, k)
<1> DEFINE f == PrefixLen(s)
           T == {k \in 0..(Len(s) - f) : \A i \in (f + 1)..(f + k) : s[i].role = "tool"}
<1>1. f \in {0, 1} /\ f <= Len(s) /\ Len(s) \in Nat
  BY PrefixAndRecent
<1> HIDE DEF f
<1>2. 0 \in T /\ T \subseteq 0..Len(s)
  BY <1>1
<1>3. PICK k \in T : \A x \in T : x <= k
  BY <1>1, <1>2, MaxIn
<1>4. ASSUME f + k < Len(s), s[f + k + 1].role = "tool"
      PROVE  FALSE
  <2>1. k + 1 \in 0..(Len(s) - f)
    BY <1>1, <1>3, <1>4
  <2>2. \A i \in (f + 1)..(f + (k + 1)) : i \in (f + 1)..(f + k) \/ i = f + k + 1
    BY <1>1, <1>3
  <2>3. k + 1 \in T
    BY <1>3, <1>4, <2>1, <2>2
  <2> QED
    BY <1>3, <2>3
<1> QED
  BY <1>3, <1>4 DEF LeadingResults, f

\* The results that lead are those the first pass removes.
LEMMA OrphansLead ==
  ASSUME NEW s, Good(s, {}), NEW k, LeadingResults(s, k), NEW i \in DOMAIN s
  PROVE  IF i \in (PrefixLen(s) + 1)..(PrefixLen(s) + k)
         THEN s[i].role = "tool" /\ s[i].results \cap Uses(s) = {}
         ELSE /\ s[i].results \cap Uses(s) = s[i].results
              /\ s[i].role = "tool" => s[i].results # {}
<1> DEFINE f == PrefixLen(s)
<1>0. /\ s \in Seq(Message) /\ DOMAIN s = 1..Len(s) /\ Len(s) \in Nat
      /\ f \in {0, 1} /\ f <= Len(s) /\ (f = 1 <=> Len(s) > 0 /\ s[1].role = "system")
      /\ k \in Nat /\ f \in Nat /\ f + k <= Len(s) /\ i \in 1..Len(s)
  BY PrefixAndRecent DEF Good, LeadingResults
<1>1. \A j \in (f + 1)..(f + k) : s[j].role = "tool"
  BY DEF LeadingResults
<1>2. ASSUME i \in (f + 1)..(f + k), Owned(s, i)
      PROVE  FALSE
  <2>1. PICK j \in 1..(i - 1) : s[j].role = "assistant"
    BY <1>2 DEF Owned
  <2>2. j \in (f + 1)..(f + k) \/ (j = 1 /\ f = 1)
    <3> HIDE DEF f
    <3> QED
      BY <1>0, <1>2, <2>1
  <2> QED
    BY <1>0, <1>1, <2>1, <2>2
<1>3. ASSUME i \notin (f + 1)..(f + k), s[i].role = "tool", Leading(s, i)
      PROVE  FALSE
  <2>1. i > f + k
    <3>1. i # 1 \/ f # 1
      BY <1>0, <1>3
    <3> QED
      BY <1>0, <1>3, <3>1
  <2>2. f + k + 1 \in (f + 1)..i /\ f + k < Len(s)
    BY <1>0, <2>1
  <2> QED
    BY <1>3, <2>2 DEF Leading, LeadingResults
<1>4. s[i].role = "tool" => s[i].results # {}
  BY DEF Good, Plain
<1>5. ASSUME Owned(s, i)
      PROVE  s[i].results \subseteq Uses(s)
  BY <1>0, <1>5 DEF Owned, Uses
<1>6. CASE i \in (f + 1)..(f + k)
  BY <1>1, <1>2, <1>6 DEF Good, Placed
<1>7. CASE i \notin (f + 1)..(f + k)
  <2>1. s[i].results \subseteq Uses(s)
    <3>1. CASE s[i].role = "tool"
      BY <1>3, <1>5, <1>7, <3>1 DEF Good, Placed
    <3>2. CASE s[i].role # "tool"
      BY <3>2 DEF Good, Plain
    <3> QED
      BY <3>1, <3>2
  <2> QED
    BY <1>4, <1>7, <2>1
<1> QED
  BY <1>6, <1>7

\* Removing the orphans takes away the results the conversation leads with,
\* and those alone.
LEMMA WithoutOrphansGives ==
  ASSUME NEW s, Good(s, {}), NEW k, LeadingResults(s, k)
  PROVE  Reopened(s, WithoutOrphans(s), k, 0)
<1> DEFINE f == PrefixLen(s)
           n == Len(s)
           known(i) == s[i].results \cap Uses(s)
           ss == [i \in DOMAIN s |->
                    IF s[i].role = "tool" /\ known(i) = {} THEN <<>>
                    ELSE <<[s[i] EXCEPT !.results = known(i)]>>]
           count(i) == IF i <= f THEN i ELSE IF i <= f + k THEN f ELSE i - k
           g == [i \in 1..n |-> [m \in 1..count(i) |-> IF m <= f THEN s[m] ELSE s[m + k]]]
<1>0. /\ s \in Seq(Message) /\ DOMAIN s = 1..n /\ n \in Nat
      /\ f \in {0, 1} /\ k \in Nat /\ f \in Nat /\ f + k <= n
      /\ \A i \in 1..n : s[i] \in Message
  BY PrefixAndRecent DEF Good, LeadingResults
<1>1. ASSUME NEW i \in 1..n
      PROVE  ss[i] = IF i \in (f + 1)..(f + k) THEN <<>> ELSE <<s[i]>>
  <2>1. s[i] \in [role : {"system", "user", "assistant", "tool"},
                  uses : SUBSET Calls, results : SUBSET Calls]
    BY <1>0 DEF Message
  <2>2. [s[i] EXCEPT !.results = s[i].results] = s[i]
    BY <2>1
  <2>3. CASE i \in (f + 1)..(f + k)
    BY <1>0, <2>3, OrphansLead
  <2>4. CASE i \notin (f + 1)..(f + k)
    <3>1. known(i) = s[i].results /\ (s[i].role = "tool" => known(i) # {})
      BY <1>0, <2>4, OrphansLead
    <3> QED
      BY <1>0, <2>2, <2>4, <3>1
  <2> QED
    BY <2>3, <2>4
<1>2. CASE n = 0
  <2>1. s = <<>> /\ k = 0 /\ f = 0
    BY <1>0, <1>2
  <2>2. Len(ss) = 0 /\ ss = <<>>
    BY <2>1
  <2>3. WithoutOrphans(s) = <<>>
    BY <2>2, Zenon DEF WithoutOrphans, FlattenSeq
  <2>4. <<>> \in Seq(Message) /\ Len(<<>>) = 0
    OBVIOUS
  <2>5. /\ \A i \in 1..f : WithoutOrphans(s)[i] = s[i]
        /\ \A i \in (f + 1)..(f + 0) : WithoutOrphans(s)[i] = Said("user")
        /\ \A i \in (f + 0 + 1)..Len(WithoutOrphans(s)) : WithoutOrphans(s)[i] = s[i - 0 + k]
    BY <2>1, <2>3, <2>4
  <2>6. WithoutOrphans(s) \in Seq(Message) /\ Len(WithoutOrphans(s)) = Len(s) - k + 0
    <3>1. Len(s) - k + 0 = 0
      BY <1>2, <2>1
    <3> QED
      BY <2>3, <2>4, <3>1, Zenon
  <2> QED
    BY <2>5, <2>6 DEF Reopened
<1>3. n \in Nat /\ k \in Nat /\ f \in Nat /\ f + k <= n
  BY <1>0
<1>4. CASE n # 0
  <2> HIDE DEF ss
  <2>1. \A i \in 1..n : count(i) \in 0..i
    BY <1>0
  <2> HIDE DEF f
  <2>2. \A i \in 1..n : g[i] \in Seq(Message) /\ Len(g[i]) = count(i)
    <3> SUFFICES ASSUME NEW i \in 1..n
                 PROVE  [m \in 1..count(i) |-> IF m <= f THEN s[m] ELSE s[m + k]] \in Seq(Message)
                        /\ Len([m \in 1..count(i) |-> IF m <= f THEN s[m] ELSE s[m + k]]) = count(i)
      OBVIOUS
    <3>1. \A m \in 1..count(i) : m > f => m + k \in 1..n
      BY <1>0
    <3>2. \A m \in 1..count(i) : (IF m <= f THEN s[m] ELSE s[m + k]) \in Message
      BY <1>0, <2>1, <3>1
    <3> QED
      BY <2>1, <3>2
  <2>3. g[1] = ss[1]
    <3>1. ss[1] = IF f = 0 /\ k > 0 THEN <<>> ELSE <<s[1]>>
      BY <1>0, <1>1, <1>4
    <3>2. count(1) = IF f = 0 /\ k > 0 THEN 0 ELSE 1
      BY <1>0
    <3>3. g[1] = [m \in 1..count(1) |-> IF m <= f THEN s[m] ELSE s[m + k]]
      BY <1>0, <1>4
    <3>4. CASE f = 0 /\ k > 0
      BY <3>1, <3>2, <3>3, <3>4
    <3>5. CASE ~(f = 0 /\ k > 0)
      <4>1. g[1] = [m \in 1..1 |-> IF m <= f THEN s[m] ELSE s[m + k]]
        BY <3>2, <3>3, <3>5
      <4>2. \A m \in 1..1 : (IF m <= f THEN s[m] ELSE s[m + k]) = s[1]
        BY <1>0, <3>5
      <4> QED
        BY <3>1, <3>5, <4>1, <4>2
    <3> QED
      BY <3>4, <3>5
  <2>4. \A i \in 2..n : g[i] = g[i - 1] \o ss[i]
    <3> SUFFICES ASSUME NEW i \in 2..n
                 PROVE  g[i] = g[i - 1] \o ss[i]
      OBVIOUS
    <3>1. i \in 1..n /\ i - 1 \in 1..n
      OBVIOUS
    <3>2. g[i] \in Seq(Message) /\ Len(g[i]) = count(i)
          /\ g[i - 1] \in Seq(Message) /\ Len(g[i - 1]) = count(i - 1)
      BY <2>2, <3>1
    <3>3. \A m \in 1..count(i) : g[i][m] = IF m <= f THEN s[m] ELSE s[m + k]
      BY <3>1
    <3>4. \A m \in 1..count(i - 1) : g[i - 1][m] = IF m <= f THEN s[m] ELSE s[m + k]
      BY <3>1
    <3> HIDE DEF g
    <3>5. CASE i \in (f + 1)..(f + k)
      <4>1. ss[i] = <<>>
        BY <1>1, <3>1, <3>5
      <4>2. count(i) = count(i - 1)
        BY <1>0, <3>5
      <4>3. \A m \in 1..count(i) : g[i][m] = g[i - 1][m]
        BY <3>3, <3>4, <4>2
      <4>4. g[i] = g[i - 1]
        BY <3>2, <4>2, <4>3, SeqEqual
      <4> QED
        BY <3>2, <4>1, <4>4
    <3>6. CASE i \notin (f + 1)..(f + k)
      <4>1. ss[i] = <<s[i]>> /\ s[i] \in Message
        BY <1>0, <1>1, <3>1, <3>6
      <4>2. count(i) = count(i - 1) + 1 /\ count(i - 1) \in Nat
        BY <1>0, <2>1, <3>1, <3>6
      <4>3. IF count(i) <= f THEN count(i) = i ELSE count(i) + k = i
        BY <1>0, <3>6
      <4>4. g[i][count(i)] = s[i]
        BY <3>3, <4>2, <4>3
      <4> DEFINE u == g[i - 1]
                 v == u \o <<s[i]>>
      <4>5. /\ v \in Seq(Message) /\ Len(v) = count(i) /\ v[count(i)] = s[i]
            /\ \A m \in 1..count(i - 1) : v[m] = u[m]
        <5>1. u \in Seq(Message) /\ Len(u) = count(i - 1) /\ <<s[i]>> \in Seq(Message)
          BY <3>2, <4>1
        <5> HIDE DEF u
        <5> QED
          BY <4>1, <4>2, <5>1
      <4>6. \A m \in 1..count(i) : g[i][m] = v[m]
        <5> SUFFICES ASSUME NEW m \in 1..count(i)
                     PROVE  g[i][m] = v[m]
          OBVIOUS
        <5>1. CASE m = count(i)
          BY <4>4, <4>5, <5>1
        <5>2. CASE m \in 1..count(i - 1)
          BY <3>3, <3>4, <4>5, <5>2
        <5>3. m = count(i) \/ m \in 1..count(i - 1)
          <6> HIDE DEF count
          <6> QED
            BY <4>2
        <5> QED
          BY <5>1, <5>2, <5>3, Zenon
      <4> QED
        BY <3>2, <4>1, <4>5, <4>6, SeqEqual
    <3> QED
      BY <3>5, <3>6
  <2>5. Len(ss) = n
    BY <1>0 DEF ss
  <2>6. WithoutOrphans(s) = g[n]
    <3> HIDE DEF g, n
    <3>1. n \in Nat \ {0}
      BY <1>0, <1>4
    <3>2. Concatenations(g, ss, n)
      BY <2>3, <2>4, Zenon DEF Concatenations
    <3>3. FlattenSeq(ss) = g[n]
      BY <2>5, <3>1, <3>2, Flattened, Zenon
    <3> QED
      BY <3>3, Zenon DEF WithoutOrphans, ss
  <2>7. count(n) = n - k
    <3>1. n \in Nat /\ k \in Nat /\ f \in Nat /\ f + k <= n /\ n # 0 /\ f \in {0, 1}
      BY <1>0, <1>4
    <3> HIDE DEF n
    <3> QED
      BY <3>1
  <2>8. /\ g[n] \in Seq(Message) /\ Len(g[n]) = n - k
        /\ \A m \in 1..(n - k) : g[n][m] = IF m <= f THEN s[m] ELSE s[m + k]
    <3>1. n \in 1..n
      BY <1>0, <1>4
    <3> QED
      BY <2>2, <2>7, <3>1
  <2> HIDE DEF g
  <2>9. /\ \A i \in 1..f : g[n][i] = s[i]
        /\ \A i \in (f + 1)..(f + 0) : g[n][i] = Said("user")
        /\ \A i \in (f + 0 + 1)..(n - k) : g[n][i] = s[i - 0 + k]
    <3> HIDE DEF n
    <3>1. \A i \in (f + 0 + 1)..(n - k) : i - 0 + k = i + k /\ i \in 1..(n - k) /\ ~(i <= f)
      BY <1>3
    <3>2. \A i \in 1..f : i \in 1..(n - k) /\ i <= f
      BY <1>3
    <3>3. (f + 1)..(f + 0) = {}
      BY <1>3
    <3> QED
      BY <2>8, <3>1, <3>2, <3>3
  <2>10. g[n] \in Seq(Message) /\ Len(g[n]) = n - k + 0
    <3> HIDE DEF n
    <3> QED
      BY <1>3, <2>8
  <2> QED
    BY <2>6, <2>8, <2>9, <2>10 DEF Reopened, f
<1> QED
  BY <1>2, <1>4

\* A history without missing results passes the second pass unchanged.
LEMMA WithMissingIdle ==
  ASSUME NEW s \in Seq(Message), \A i \in DOMAIN s : Missing(s, i) = {}
  PROVE  WithMissing(s) = s
<1> DEFINE n == Len(s)
           ss == [i \in DOMAIN s |->
                    IF s[i].role = "assistant" /\ Missing(s, i) # {}
                    THEN <<s[i], Giving(Missing(s, i))>> ELSE <<s[i]>>]
           g == [i \in 1..n |-> SubSeq(s, 1, i)]
<1>0. n \in Nat /\ DOMAIN s = 1..n
  OBVIOUS
<1>1. \A i \in 1..n : ss[i] = <<s[i]>>
  BY <1>0
<1>2. Len(ss) = n /\ DOMAIN ss = 1..n
  BY <1>0
<1>3. WithMissing(s) = FlattenSeq(ss)
  BY Zenon DEF WithMissing
<1>4. CASE n = 0
  <2>1. s = <<>> /\ ss = <<>>
    BY <1>4
  <2> HIDE DEF ss
  <2> QED
    BY <1>3, <2>1, Zenon DEF FlattenSeq
<1>5. CASE n # 0
  <2>1. g[1] = ss[1]
    <3>1. 1 \in 1..n
      BY <1>0, <1>5
    <3>2. SubSeq(s, 1, 1) = <<s[1]>>
      <4>1. 1 \in 1..Len(s) /\ s[1] \in Message
        BY <3>1
      <4>2. SubSeq(s, 1, 1) \in Seq(Message) /\ Len(SubSeq(s, 1, 1)) = 1
        BY <4>1
      <4>3. SubSeq(s, 1, 1)[1] = s[1]
        BY <4>1
      <4>4. <<s[1]>> \in Seq(Message) /\ Len(<<s[1]>>) = 1 /\ <<s[1]>>[1] = s[1]
        BY <4>1
      <4>5. \A i \in 1..1 : SubSeq(s, 1, 1)[i] = <<s[1]>>[i]
        BY <4>3, <4>4
      <4> QED
        BY <4>2, <4>4, <4>5, SeqEqual
    <3>3. ss[1] = <<s[1]>>
      BY <1>1, <3>1, Zenon
    <3> QED
      BY <3>1, <3>2, <3>3
  <2>2. \A i \in 2..n : g[i] = g[i - 1] \o ss[i]
    <3> SUFFICES ASSUME NEW i \in 2..n
                 PROVE  SubSeq(s, 1, i) = SubSeq(s, 1, i - 1) \o <<s[i]>>
      <4> HIDE DEF ss, n
      <4>1. \A i \in 2..n : i \in 1..n /\ i - 1 \in 1..n
        BY <1>0
      <4> QED
        BY <1>1, <4>1
    <3>1. 1 \in 1..Len(s) /\ i \in 1..Len(s)
      BY <1>0
    <3> QED
      BY <3>1, SubSeqRecursiveSecond
  <2>3. Concatenations(g, ss, n)
    BY <2>1, <2>2, Zenon DEF Concatenations
  <2>4. g[n] = s
    BY <1>0, <1>5, SubSeqFull
  <2> HIDE DEF g, ss, n
  <2>5. FlattenSeq(ss) = g[n]
    BY <1>0, <1>2, <1>5, <2>3, Flattened
  <2> QED
    BY <1>3, <2>4, <2>5
<1> QED
  BY <1>4, <1>5

\* Where every call is answered no result is missing.
LEMMA CompleteMissesNothing ==
  ASSUME NEW s \in Seq(Message), Complete(s, {})
  PROVE  \A i \in DOMAIN s : Missing(s, i) = {}
<1> SUFFICES ASSUME NEW i \in DOMAIN s, NEW id \in s[i].uses
             PROVE  id \in Covered(s, i)
  BY DEF Missing
<1>1. PICK j \in DOMAIN s : Answers(s, i, j, id)
  BY DEF Complete
<1>2. j \in Following(s, i)
  BY <1>1 DEF Answers, Following
<1> QED
  BY <1>1, <1>2 DEF Answers, Covered

\* Behind the summary stand what the user is to have said and what was there.
LEMMA OpenedByUserGives ==
  ASSUME NEW s \in Seq(Message), LeadingResults(s, 0)
  PROVE  \E o \in {0, 1} :
           /\ Reopened(s, OpenedByUser(s), 0, o)
           /\ o = 1 <=> (Len(s) > PrefixLen(s) /\ s[PrefixLen(s) + 1].role = "assistant")
<1> DEFINE f == PrefixLen(s)
           rest == Recent(s)
           opens == {i \in DOMAIN rest : rest[i].role # "tool"}
           kept == IF opens = {} THEN <<>> ELSE SubSeq(rest, Min(opens), Len(rest))
           opener == IF kept # <<>> /\ Head(kept).role = "assistant"
                     THEN <<Said("user")>> ELSE <<>>
           t == SubSeq(s, 1, Len(s) - Len(rest)) \o opener \o kept
<1>0. /\ f \in {0, 1} /\ f \in Nat /\ f <= Len(s) /\ Len(s) \in Nat
      /\ rest \in Seq(Message) /\ Len(rest) = Len(s) - f
      /\ \A i \in 1..Len(rest) : rest[i] = s[i + f]
  BY PrefixAndRecent
<1>1. OpenedByUser(s) = t
  BY Zenon DEF OpenedByUser
<1>2. Len(rest) > 0 => rest[1].role # "tool"
  <2> SUFFICES ASSUME Len(rest) > 0
               PROVE  rest[1].role # "tool"
    OBVIOUS
  <2>1. rest[1] = s[1 + f] /\ f + 0 < Len(s) /\ 1 + f = f + 0 + 1
    <3> HIDE DEF rest, f
    <3> QED
      BY <1>0
  <2> QED
    BY <2>1 DEF LeadingResults
<1> HIDE DEF rest
<1>3. kept = rest
  <2>1. CASE Len(rest) = 0
    <3>1. opens = {} /\ rest = <<>>
      BY <1>0, <2>1
    <3> QED
      BY <3>1
  <2>2. CASE Len(rest) > 0
    <3>1. 1 \in opens /\ opens \subseteq Nat /\ \A i \in opens : 1 <= i
      BY <1>0, <1>2, <2>2
    <3> HIDE DEF opens
    <3>2. Min(opens) = 1
      <4>1. \E x \in opens : \A y \in opens : x <= y
        BY <3>1
      <4>2. Min(opens) \in opens /\ \A y \in opens : Min(opens) <= y
        BY <4>1, Zenon DEF Min
      <4>3. Min(opens) \in Nat /\ Min(opens) <= 1 /\ 1 <= Min(opens)
        BY <3>1, <4>2, Zenon
      <4> QED
        BY <4>3
    <3>3. SubSeq(rest, 1, Len(rest)) = rest
      BY <1>0, SubSeqFull
    <3> QED
      BY <3>1, <3>2, <3>3
  <2> QED
    BY <1>0, <2>1, <2>2
<1>4. SubSeq(s, 1, Len(s) - Len(rest)) \in Seq(Message)
      /\ Len(SubSeq(s, 1, Len(s) - Len(rest))) = f
      /\ \A i \in 1..f : SubSeq(s, 1, Len(s) - Len(rest))[i] = s[i]
  BY <1>0
<1>5. Said("user") \in Message
  BY DEF Said, Message
<1> DEFINE o == IF Len(rest) > 0 /\ rest[1].role = "assistant" THEN 1 ELSE 0
<1>6. opener = IF o = 1 THEN <<Said("user")>> ELSE <<>>
  <2> HIDE DEF kept, rest
  <2>1. Len(rest) > 0 => kept # <<>> /\ Head(kept) = rest[1]
    BY <1>0, <1>3
  <2>2. ~(Len(rest) > 0) => kept = <<>>
    BY <1>0, <1>3
  <2> QED
    BY <2>1, <2>2
<1>7. /\ opener \in Seq(Message) /\ Len(opener) = o /\ o \in {0, 1}
      /\ \A i \in 1..o : opener[i] = Said("user")
  <2> HIDE DEF opener
  <2>1. <<Said("user")>> \in Seq(Message) /\ <<>> \in Seq(Message)
    BY <1>5
  <2> QED
    BY <1>6, <2>1
<1> DEFINE front == SubSeq(s, 1, Len(s) - Len(rest))
<1>8. /\ t \in Seq(Message) /\ Len(t) = f + o + Len(rest)
      /\ \A i \in 1..f : t[i] = front[i]
      /\ \A i \in (f + 1)..(f + o) : t[i] = opener[i - f]
      /\ \A i \in (f + o + 1)..(f + o + Len(rest)) : t[i] = rest[i - f - o]
  <2>1. t = front \o opener \o rest
    BY <1>3, Zenon
  <2>2. front \in Seq(Message) /\ Len(front) = f
    BY <1>4
  <2> HIDE DEF front, opener, kept, o, t
  <2>3. /\ front \o opener \o rest \in Seq(Message)
        /\ Len(front \o opener \o rest) = Len(front) + Len(opener) + Len(rest)
        /\ \A i \in 1..Len(front) : (front \o opener \o rest)[i] = front[i]
        /\ \A i \in 1..Len(opener) : (front \o opener \o rest)[Len(front) + i] = opener[i]
        /\ \A i \in 1..Len(rest) : (front \o opener \o rest)[Len(front) + Len(opener) + i] = rest[i]
    <3>1. front \in Seq(Message) /\ opener \in Seq(Message) /\ rest \in Seq(Message)
      BY <1>0, <1>7, <2>2
    <3> QED
      BY <3>1, Joined, ZenonT(30)
  <2>4. /\ t \in Seq(Message) /\ Len(t) = f + o + Len(rest)
        /\ \A i \in 1..f : t[i] = front[i]
        /\ \A i \in 1..o : t[f + i] = opener[i]
        /\ \A i \in 1..Len(rest) : t[f + o + i] = rest[i]
    <3>1. Len(opener) = o /\ Len(front) = f
      BY <1>7, <2>2
    <3> QED
      BY <2>1, <2>3, <3>1, Zenon
  <2>5. \A i \in (f + 1)..(f + o) : i - f \in 1..o /\ f + (i - f) = i
    BY <1>0, <1>7
  <2>6. \A i \in (f + o + 1)..(f + o + Len(rest)) :
           i - f - o \in 1..Len(rest) /\ f + o + (i - f - o) = i
    <3>1. Len(rest) \in Nat /\ f \in Nat /\ o \in Nat
      BY <1>0, <1>7
    <3> HIDE DEF rest, f
    <3> QED
      BY <3>1
  <2> QED
    BY <2>4, <2>5, <2>6
<1> HIDE DEF t, opener, kept
<1>9. /\ \A i \in 1..f : t[i] = s[i]
      /\ \A i \in (f + 1)..(f + o) : t[i] = Said("user")
      /\ \A i \in (f + o + 1)..Len(t) : t[i] = s[i - o + 0]
  <2> HIDE DEF o
  <2>1. \A i \in (f + 1)..(f + o) : i - f \in 1..o
    BY <1>0, <1>7
  <2>2. \A i \in (f + o + 1)..(f + o + Len(rest)) :
          i - f - o \in 1..Len(rest) /\ (i - f - o) + f = i - o + 0
    <3>1. Len(rest) \in Nat /\ f \in Nat /\ o \in Nat
      BY <1>0, <1>7
    <3> HIDE DEF rest, f
    <3> QED
      BY <3>1
  <2>3. \A i \in 1..f : t[i] = s[i]
    BY <1>4, <1>8, Zenon
  <2>4. \A i \in (f + 1)..(f + o) : t[i] = Said("user")
    BY <1>7, <1>8, <2>1, Zenon
  <2>5. \A i \in (f + o + 1)..(f + o + Len(rest)) : t[i] = s[i - o + 0]
    BY <1>0, <1>8, <2>2, Zenon
  <2> QED
    BY <1>8, <2>3, <2>4, <2>5, Zenon
<1>10. Len(t) = Len(s) - 0 + o
  <2> HIDE DEF o
  <2> QED
    BY <1>0, <1>7, <1>8
<1>11. Reopened(s, OpenedByUser(s), 0, o)
  BY <1>1, <1>8, <1>9, <1>10 DEF Reopened
<1>12. o = 1 <=> (Len(s) > f /\ s[f + 1].role = "assistant")
  BY <1>0
<1> QED
  BY <1>7, <1>11, <1>12
\* Lengths and ranges.
Sizes(s, t, k, o) ==
  /\ s \in Seq(Message) /\ t \in Seq(Message) /\ Len(s) \in Nat /\ Len(t) \in Nat
  /\ DOMAIN s = 1..Len(s) /\ DOMAIN t = 1..Len(t)
  /\ PrefixLen(s) \in {0, 1} /\ PrefixLen(s) \in Nat /\ k \in Nat /\ o \in Nat
  /\ PrefixLen(s) + k <= Len(s)
  /\ Len(t) = Len(s) - k + o /\ PrefixLen(s) + o <= Len(t)

\* The lengths the repair leaves.
LEMMA ReopenedSizes ==
  ASSUME NEW s \in Seq(Message), NEW k, LeadingResults(s, k), NEW o \in {0, 1},
         NEW t, Reopened(s, t, k, o)
  PROVE  Sizes(s, t, k, o)
<1> DEFINE f == PrefixLen(s)
<1>1. f \in {0, 1} /\ f <= Len(s)
  BY PrefixAndRecent
<1>2. k \in 0..(Len(s) - f)
  BY DEF LeadingResults
<1>3. t \in Seq(Message) /\ Len(t) = Len(s) - k + o
  BY DEF Reopened
<1>4. Len(s) \in Nat /\ Len(t) \in Nat /\ DOMAIN s = 1..Len(s) /\ DOMAIN t = 1..Len(t)
  BY <1>3
<1> HIDE DEF f
<1>5. f \in Nat /\ k \in Nat /\ o \in Nat /\ f + k <= Len(s) /\ f + o <= Len(t)
  BY <1>1, <1>2, <1>3, <1>4
<1> QED
  BY <1>1, <1>3, <1>4, <1>5 DEF f, Sizes

\* Where the messages of a reopened history come from.
Sources(s, t, k, o) ==
  /\ PrefixLen(t) = PrefixLen(s)
  /\ \A i \in (PrefixLen(s) + k + 1)..Len(s) :
       /\ i - k + o \in (PrefixLen(s) + o + 1)..Len(t)
       /\ t[i - k + o] = s[i]
  /\ \A i \in (PrefixLen(s) + o + 1)..Len(t) :
       /\ i - o + k \in (PrefixLen(s) + k + 1)..Len(s)
       /\ t[i] = s[i - o + k]
       /\ t[i].role # "system"
  /\ \A i \in 1..(PrefixLen(s) + o) :
       /\ i \in 1..Len(t)
       /\ t[i].uses = {} /\ t[i].results = {}
       /\ t[i].role = IF i <= PrefixLen(s) THEN "system" ELSE "user"
  /\ \A i \in 1..(PrefixLen(s) + k) :
       s[i].role \notin {"user", "assistant"} /\ s[i].uses = {}

\* Each message after the repair is one from before it, or the opener.
LEMMA ReopenedShape ==
  ASSUME NEW s, Good(s, {}), NEW k, LeadingResults(s, k), NEW o \in {0, 1},
         NEW t, Reopened(s, t, k, o)
  PROVE  Sources(s, t, k, o)
<1> DEFINE f == PrefixLen(s)
<1>0. /\ s \in Seq(Message) /\ t \in Seq(Message) /\ Len(s) \in Nat /\ Len(t) \in Nat
      /\ DOMAIN s = 1..Len(s)
      /\ f \in {0, 1} /\ (f = 1 <=> Len(s) > 0 /\ s[1].role = "system")
      /\ k \in Nat /\ f \in Nat /\ o \in Nat /\ f + k <= Len(s) /\ Len(t) = Len(s) - k + o
  <2>1. s \in Seq(Message)
    BY DEF Good
  <2>2. f = 1 <=> Len(s) > 0 /\ s[1].role = "system"
    BY <2>1, PrefixAndRecent
  <2>3. Sizes(s, t, k, o)
    BY <2>1, ReopenedSizes
  <2> QED
    BY <2>2, <2>3 DEF Sizes
<1>1. /\ \A i \in 1..f : t[i] = s[i]
      /\ \A i \in (f + 1)..(f + o) : t[i] = Said("user")
      /\ \A i \in (f + o + 1)..Len(t) : t[i] = s[i - o + k]
  BY DEF Reopened
<1>2. \A i \in (f + 1)..(f + k) : s[i].role = "tool"
  BY DEF LeadingResults
<1>3. \A i \in 1..Len(s) : /\ s[i].role = "system" => i = 1
                           /\ s[i].role # "assistant" => s[i].uses = {}
                           /\ s[i].role # "tool" => s[i].results = {}
  BY <1>0 DEF Good, Plain
<1>4. \A i \in 1..f : i = 1 /\ s[i].role = "system"
  BY <1>0
<1>5. PrefixLen(t) = 1 <=> Len(t) > 0 /\ t[1].role = "system"
  BY <1>0, PrefixAndRecent
<1>6. PrefixLen(t) \in {0, 1}
  BY <1>0, PrefixAndRecent
<1> HIDE DEF f
<1>7. \A i \in (f + k + 1)..Len(s) : /\ i - k + o \in (f + o + 1)..Len(t)
                                     /\ (i - k + o) - o + k = i
  BY <1>0
<1>8. \A i \in (f + o + 1)..Len(t) : i - o + k \in (f + k + 1)..Len(s)
  BY <1>0
<1>9. \A i \in (f + k + 1)..Len(s) : s[i].role # "system"
  <2>1. \A i \in (f + k + 1)..Len(s) : i \in 1..Len(s) /\ (i = 1 => f = 0 /\ Len(s) > 0)
    BY <1>0
  <2> QED
    BY <1>0, <1>3, <2>1
<1>10. \A i \in 1..(f + o) :
         /\ i \in 1..Len(t)
         /\ t[i].uses = {} /\ t[i].results = {}
         /\ t[i].role = IF i <= f THEN "system" ELSE "user"
  <2> SUFFICES ASSUME NEW i \in 1..(f + o)
               PROVE  /\ i \in 1..Len(t)
                      /\ t[i].uses = {} /\ t[i].results = {}
                      /\ t[i].role = IF i <= f THEN "system" ELSE "user"
    OBVIOUS
  <2>1. i \in 1..Len(t)
    BY <1>0
  <2>2. CASE i \in 1..f
    <3>1. t[i] = s[i] /\ i \in 1..Len(s) /\ s[i].role = "system" /\ i <= f
      BY <1>0, <1>1, <1>4, <2>2
    <3> QED
      BY <1>3, <2>1, <3>1
  <2>3. CASE i \in (f + 1)..(f + o)
    <3>1. t[i] = Said("user") /\ ~(i <= f)
      BY <1>0, <1>1, <2>3
    <3> QED
      BY <2>1, <3>1 DEF Said
  <2>4. i \in 1..f \/ i \in (f + 1)..(f + o)
    BY <1>0
  <2> QED
    BY <2>2, <2>3, <2>4
<1>11. \A i \in 1..(f + k) : s[i].role \notin {"user", "assistant"} /\ s[i].uses = {}
  <2> SUFFICES ASSUME NEW i \in 1..(f + k)
               PROVE  s[i].role \in {"system", "tool"} /\ s[i].uses = {}
    OBVIOUS
  <2>1. i \in 1..f \/ i \in (f + 1)..(f + k)
    BY <1>0
  <2>2. i \in 1..Len(s)
    BY <1>0
  <2>3. s[i].role \in {"system", "tool"}
    BY <1>2, <1>4, <2>1
  <2> QED
    BY <1>3, <2>2, <2>3
<1>12. PrefixLen(t) = f
  <2>1. CASE f = 1
    <3>1. 1 \in 1..(f + o) /\ 1 <= f
      BY <1>0, <2>1
    <3> QED
      BY <1>0, <1>5, <1>10, <2>1, <3>1
  <2>2. CASE f = 0 /\ Len(t) > 0
    <3>1. t[1].role # "system"
      <4>1. CASE o = 1
        <5>1. 1 \in 1..(f + o) /\ ~(1 <= f)
          BY <2>2, <4>1
        <5> QED
          BY <1>10, <5>1
      <4>2. CASE o = 0
        <5>1. 1 \in (f + o + 1)..Len(t)
          BY <1>0, <2>2, <4>2
        <5> QED
          BY <1>1, <1>8, <1>9, <5>1
      <4> QED
        BY <4>1, <4>2
    <3> QED
      BY <1>5, <1>6, <2>2, <3>1
  <2> QED
    BY <1>0, <1>5, <1>6, <2>1, <2>2
<1>13. \A i \in (f + k + 1)..Len(s) : t[i - k + o] = s[i]
  BY <1>1, <1>7
<1>14. \A i \in (f + o + 1)..Len(t) : t[i] = s[i - o + k] /\ t[i].role # "system"
  BY <1>1, <1>8, <1>9
<1> QED
  BY <1>7, <1>8, <1>10, <1>11, <1>12, <1>13, <1>14, Zenon DEF f, Sources

\* A range, shifted.
LEMMA Shifted ==
  \A f, k, o, j, a, n \in Int : \A b \in (a - k + o + 1)..j :
    j <= n /\ a >= f + k + 1 => /\ b \in (f + o + 1)..n
                               /\ b - o + k \in (a + 1)..(j - o + k)
  OBVIOUS

\* The repair of a good conversation is good.
LEMMA ReopenedKeepsGood ==
  ASSUME NEW s, Good(s, {}), NEW k, LeadingResults(s, k), NEW o \in {0, 1},
         NEW t, Reopened(s, t, k, o)
  PROVE  Good(t, {})
<1> DEFINE f == PrefixLen(s)
<1>0. /\ s \in Seq(Message) /\ t \in Seq(Message) /\ Len(s) \in Nat /\ Len(t) \in Nat
      /\ DOMAIN s = 1..Len(s) /\ DOMAIN t = 1..Len(t)
      /\ k \in Nat /\ f \in Nat /\ o \in Nat /\ f \in {0, 1}
      /\ f + k <= Len(s) /\ Len(t) = Len(s) - k + o /\ f + o <= Len(t)
  <2>1. s \in Seq(Message)
    BY DEF Good
  <2>2. Sizes(s, t, k, o)
    BY <2>1, ReopenedSizes
  <2> QED
    BY <2>2 DEF Sizes
<1> Sources(s, t, k, o)
  BY ReopenedShape
<1>1. PrefixLen(t) = f
  BY DEF Sources
<1>2. \A i \in (f + k + 1)..Len(s) : /\ i - k + o \in (f + o + 1)..Len(t)
                                     /\ t[i - k + o] = s[i]
  BY DEF Sources
<1>3. \A i \in (f + o + 1)..Len(t) : /\ i - o + k \in (f + k + 1)..Len(s)
                                     /\ t[i] = s[i - o + k]
                                     /\ t[i].role # "system"
  BY DEF Sources
<1>4. \A i \in 1..(f + o) : /\ i \in 1..Len(t)
                            /\ t[i].uses = {} /\ t[i].results = {}
                            /\ t[i].role = IF i <= f THEN "system" ELSE "user"
  BY DEF Sources
<1>5. \A i \in 1..(f + k) : s[i].role \notin {"user", "assistant"} /\ s[i].uses = {}
  BY DEF Sources
<1>6. f + k < Len(s) => s[f + k + 1].role # "tool"
  BY DEF LeadingResults
<1>7. \A i \in 1..Len(t) : i \in 1..(f + o) \/ i \in (f + o + 1)..Len(t)
  <2> HIDE DEF f
  <2> QED
    BY <1>0
<1> HIDE DEF f
<1>8. Plain(t)
  <2> SUFFICES ASSUME NEW i \in 1..Len(t)
               PROVE  /\ t[i].role = "system" => i = 1
                      /\ t[i].role # "assistant" => t[i].uses = {}
                      /\ t[i].role # "tool" => t[i].results = {}
                      /\ t[i].role = "tool" => \E id \in Calls : t[i].results = {id}
    BY <1>0 DEF Plain
  <2>1. CASE i \in 1..(f + o)
    <3>1. t[i].role = "system" => i <= f
      BY <1>4, <2>1
    <3>2. i <= f => i = 1
      BY <1>0
    <3> QED
      BY <1>4, <2>1, <3>1, <3>2
  <2>2. CASE i \in (f + o + 1)..Len(t)
    <3>1. i - o + k \in DOMAIN s
      BY <1>0, <1>3, <2>2
    <3> QED
      BY <1>3, <2>2, <3>1 DEF Good, Plain
  <2> QED
    BY <1>7, <2>1, <2>2
<1>9. Once(t)
  <2> SUFFICES ASSUME NEW i \in 1..Len(t), NEW j \in 1..Len(t), i # j
               PROVE  /\ t[i].uses \cap t[j].uses = {}
                      /\ t[i].results \cap t[j].results = {}
    BY <1>0 DEF Once
  <2>1. CASE i \in 1..(f + o) \/ j \in 1..(f + o)
    BY <1>4, <2>1
  <2>2. CASE i \in (f + o + 1)..Len(t) /\ j \in (f + o + 1)..Len(t)
    <3>1. i - o + k \in DOMAIN s /\ j - o + k \in DOMAIN s
      <4>1. \A m \in (f + k + 1)..Len(s) : m \in DOMAIN s
        BY <1>0
      <4> QED
        BY <1>3, <2>2, <4>1
    <3>2. i - o + k # j - o + k
      BY <1>0, <2>2
    <3> QED
      BY <1>3, <2>2, <3>1, <3>2 DEF Good, Once
  <2> QED
    BY <1>7, <2>1, <2>2
<1>10. Placed(t)
  <2> SUFFICES ASSUME NEW j \in 1..Len(t), t[j].role = "tool"
               PROVE  Owned(t, j)
    BY <1>0 DEF Placed
  <2>1. j \in (f + o + 1)..Len(t)
    BY <1>4, <1>7
  <2> DEFINE m == j - o + k
  <2>2. m \in (f + k + 1)..Len(s) /\ m \in DOMAIN s /\ t[j] = s[m]
    BY <1>0, <1>3, <2>1
  <2>3. ~Leading(s, m)
    <3>1. f + k < Len(s) /\ f + k + 1 \in (f + 1)..m
      BY <1>0, <2>2
    <3> QED
      BY <1>6, <3>1 DEF Leading, f
  <2>4. Owned(s, m)
    BY <2>2, <2>3 DEF Good, Placed
  <2>5. PICK a \in 1..(m - 1) : /\ s[a].role = "assistant" /\ s[m].results \subseteq s[a].uses
                                /\ \A b \in (a + 1)..m : s[b].role = "tool"
    BY <2>4 DEF Owned
  <2>6. a \in (f + k + 1)..Len(s)
    <3>1. a \in 1..(f + k) \/ a \in (f + k + 1)..Len(s)
      BY <1>0, <2>2
    <3> QED
      BY <1>5, <2>5, <3>1
  <2>7. a - k + o \in 1..(j - 1) /\ t[a - k + o] = s[a]
    BY <1>0, <1>2, <2>5, <2>6
  <2>8. \A b \in (a - k + o + 1)..j : t[b].role = "tool"
    <3> SUFFICES ASSUME NEW b \in (a - k + o + 1)..j
                 PROVE  t[b].role = "tool"
      OBVIOUS
    <3>1. /\ f \in Int /\ k \in Int /\ o \in Int /\ j \in Int /\ a \in Int /\ Len(t) \in Int
          /\ j <= Len(t) /\ a >= f + k + 1
      BY <1>0, <2>1, <2>6
    <3>2. b \in (f + o + 1)..Len(t) /\ b - o + k \in (a + 1)..m
      BY <3>1, Shifted, Zenon
    <3> QED
      BY <1>3, <2>5, <3>2
  <2> QED
    BY <2>2, <2>5, <2>7, <2>8 DEF Owned
<1>11. Complete(t, {})
  <2> SUFFICES ASSUME NEW i \in 1..Len(t), NEW id \in t[i].uses
               PROVE  \E j \in DOMAIN t : Answers(t, i, j, id)
    BY <1>0 DEF Complete
  <2>1. i \in (f + o + 1)..Len(t)
    BY <1>4, <1>7
  <2> DEFINE m == i - o + k
  <2>2. m \in (f + k + 1)..Len(s) /\ m \in DOMAIN s /\ t[i] = s[m]
    BY <1>0, <1>3, <2>1
  <2>3. PICK j \in DOMAIN s : Answers(s, m, j, id)
    BY <2>2 DEF Good, Complete
  <2>4. j \in (f + k + 1)..Len(s) /\ j - k + o > i /\ j - k + o \in 1..Len(t)
    BY <1>0, <2>2, <2>3, SMTT(30) DEF Answers
  <2>5. t[j - k + o] = s[j]
    BY <1>2, <2>4
  <2>6. \A b \in (i + 1)..(j - k + o) : t[b].role # "assistant"
    <3> SUFFICES ASSUME NEW b \in (i + 1)..(j - k + o)
                 PROVE  t[b].role # "assistant"
      OBVIOUS
    <3>1. b \in (f + o + 1)..Len(t) /\ b - o + k \in (m + 1)..j
      BY <1>0, <2>1, <2>4, SMTT(30)
    <3> QED
      BY <1>3, <2>3, <3>1 DEF Answers
  <2> QED
    BY <1>0, <2>3, <2>4, <2>5, <2>6 DEF Answers
<1> QED
  BY <1>0, <1>8, <1>9, <1>10, <1>11 DEF Good, Waiting

\* The messages of the user and of the model are all kept.
LEMMA ReopenedKeepsTalks ==
  ASSUME NEW s, Good(s, {}), NEW k, LeadingResults(s, k), NEW o \in {0, 1},
         NEW t, Reopened(s, t, k, o), Talks(s)
  PROVE  Talks(t)
<1>1. PICK i \in DOMAIN s : s[i].role \in {"user", "assistant"}
  BY DEF Talks
<1>2. /\ s \in Seq(Message) /\ t \in Seq(Message) /\ Len(s) \in Nat /\ Len(t) \in Nat
      /\ DOMAIN s = 1..Len(s) /\ DOMAIN t = 1..Len(t)
      /\ PrefixLen(s) \in Nat /\ k \in Nat /\ o \in Nat
  <2>1. s \in Seq(Message)
    BY DEF Good
  <2>2. Sizes(s, t, k, o)
    BY <2>1, ReopenedSizes
  <2> QED
    BY <2>2 DEF Sizes
<1> Sources(s, t, k, o)
  BY ReopenedShape
<1>3. i \in 1..(PrefixLen(s) + k) \/ i \in (PrefixLen(s) + k + 1)..Len(s)
  BY <1>2
<1>4. i \in (PrefixLen(s) + k + 1)..Len(s)
  BY <1>1, <1>3 DEF Sources
<1>5. /\ i - k + o \in (PrefixLen(s) + o + 1)..Len(t)
      /\ t[i - k + o] = s[i]
  BY <1>4 DEF Sources
<1>6. i - k + o \in DOMAIN t
  BY <1>2, <1>5
<1> QED
  BY <1>1, <1>5, <1>6 DEF Talks

\* ensure_valid_messages gives a good conversation that a user opens.
LEMMA RepairKeepsGood ==
  ASSUME NEW s, Good(s, {})
  PROVE  /\ Good(Repaired(s), {})
         /\ Opened(Repaired(s))
         /\ Talks(s) => Talks(Repaired(s))
<1> DEFINE w == WithoutOrphans(s)
           r == OpenedByUser(w)
<1>1. PICK k : LeadingResults(s, k)
  BY LeadingExist DEF Good
<1>2. Reopened(s, w, k, 0)
  BY <1>1, WithoutOrphansGives
<1> HIDE DEF w
<1>3. Good(w, {}) /\ (Talks(s) => Talks(w))
  BY <1>1, <1>2, ReopenedKeepsGood, ReopenedKeepsTalks
<1>4. /\ PrefixLen(w) = PrefixLen(s)
      /\ \A i \in (PrefixLen(s) + 0 + 1)..Len(w) :
           w[i] = s[i - 0 + k] /\ w[i].role # "system"
  BY <1>1, <1>2, ReopenedShape DEF Sources
<1>5. LeadingResults(w, 0)
  <2>1. /\ s \in Seq(Message) /\ w \in Seq(Message) /\ Len(s) \in Nat /\ Len(w) \in Nat
        /\ PrefixLen(s) \in Nat /\ k \in Nat /\ PrefixLen(s) + k <= Len(s)
        /\ Len(w) = Len(s) - k + 0
    BY <1>1, <1>2, ReopenedSizes DEF Good, Sizes
  <2>2. PrefixLen(s) + 0 < Len(w)
          => /\ PrefixLen(s) + 0 + 1 \in (PrefixLen(s) + 0 + 1)..Len(w)
             /\ PrefixLen(s) + k < Len(s)
             /\ PrefixLen(s) + 0 + 1 - 0 + k = PrefixLen(s) + k + 1
    BY <2>1
  <2>3. PrefixLen(s) + 0 < Len(w) => w[PrefixLen(s) + 0 + 1].role # "tool"
    BY <1>1, <1>4, <2>2 DEF LeadingResults
  <2> QED
    BY <1>4, <2>1, <2>3 DEF LeadingResults
<1>6. WithMissing(w) = w
  BY <1>3, CompleteMissesNothing, WithMissingIdle DEF Good
<1>7. Repaired(s) = r
  BY <1>6, Zenon DEF Repaired, w
<1>8. PICK o \in {0, 1} :
        /\ Reopened(w, r, 0, o)
        /\ o = 1 <=> (Len(w) > PrefixLen(w) /\ w[PrefixLen(w) + 1].role = "assistant")
  BY <1>3, <1>5, OpenedByUserGives DEF Good
<1> HIDE DEF r
<1>9. Good(r, {}) /\ (Talks(w) => Talks(r))
  BY <1>3, <1>5, <1>8, ReopenedKeepsGood, ReopenedKeepsTalks
<1>10. Opened(r)
  <2> DEFINE f == PrefixLen(w)
  <2>1. /\ PrefixLen(r) = f
        /\ \A i \in (f + o + 1)..Len(r) : r[i] = w[i - o + 0] /\ r[i].role # "system"
        /\ \A i \in 1..(f + o) : r[i].role = IF i <= f THEN "system" ELSE "user"
    BY <1>3, <1>5, <1>8, ReopenedShape DEF Sources
  <2>2. /\ r \in Seq(Message) /\ w \in Seq(Message) /\ Len(r) \in Nat /\ Len(w) \in Nat
        /\ f \in Nat /\ Len(r) = Len(w) - 0 + o
    BY <1>3, <1>5, <1>8, ReopenedSizes DEF Good, Sizes
  <2>3. /\ Recent(r) \in Seq(Message) /\ Len(Recent(r)) = Len(r) - f
        /\ \A i \in 1..Len(Recent(r)) : Recent(r)[i] = r[i + f]
    <3>1. /\ Len(Recent(r)) = Len(r) - PrefixLen(r)
          /\ \A i \in 1..Len(Recent(r)) : Recent(r)[i] = r[i + PrefixLen(r)]
      BY <2>2, PrefixAndRecent
    <3>2. Recent(r) \in Seq(Message)
      BY <2>2, PrefixAndRecent
    <3> QED
      BY <2>1, <3>1, <3>2, Zenon
  <2> SUFFICES ASSUME Recent(r) # <<>>
               PROVE  Head(Recent(r)).role = "user"
    BY DEF Opened
  <2>4. Len(Recent(r)) > 0 /\ Head(Recent(r)) = Recent(r)[1]
    BY <2>3
  <2>5. Head(Recent(r)) = r[f + 1] /\ f + 1 <= Len(r)
    <3>1. 1 \in 1..Len(Recent(r)) /\ 1 + f = f + 1 /\ f + 1 <= Len(r)
      <4> HIDE DEF f
      <4> QED
        BY <2>2, <2>3, <2>4
    <3> QED
      BY <2>3, <2>4, <3>1
  <2> HIDE DEF f
  <2>6. CASE o = 1
    <3>1. f + 1 \in 1..(f + o) /\ ~(f + 1 <= f)
      BY <2>2, <2>6
    <3> QED
      BY <2>1, <2>5, <3>1
  <2>7. CASE o = 0
    <3>1. f + 1 \in (f + o + 1)..Len(r) /\ f + 1 - o + 0 = f + 1 /\ Len(w) > f
          /\ f + 1 \in DOMAIN w
      BY <2>2, <2>5, <2>7
    <3>2. r[f + 1] = w[f + 1] /\ r[f + 1].role # "system"
      BY <2>1, <3>1
    <3>3. w[f + 1].role # "assistant"
      BY <1>8, <2>7, <3>1 DEF f
    <3>4. w[f + 1].role # "tool"
      <4>1. f + 0 < Len(w) /\ f + 0 + 1 = f + 1
        BY <2>2, <3>1
      <4> QED
        BY <1>5, <4>1 DEF LeadingResults, f
    <3>5. w[f + 1].role \in {"system", "user", "assistant", "tool"}
      <4>1. w[f + 1] \in Message
        BY <2>2, <3>1
      <4> QED
        BY <4>1 DEF Message
    <3> QED
      BY <2>5, <3>2, <3>3, <3>4, <3>5
  <2> QED
    BY <2>6, <2>7
<1> QED
  BY <1>3, <1>7, <1>9, <1>10
-----------------------------------------------------------------------------
(* What a turn adds to the history.                                        *)

\* What may follow a history whose calls p have no result yet, and which calls
\* then have none: an answer, an input, or the result of one of the calls.
Follows(s, p, x, q) ==
  \/ /\ x.role = "assistant" /\ x.results = {} /\ p = {} /\ q = x.uses
     /\ x.uses \cap (Uses(s) \cup Results(s)) = {}
  \/ x.role = "user" /\ x.uses = {} /\ x.results = {} /\ p = {} /\ q = {}
  \/ /\ x.role = "tool" /\ x.uses = {}
     /\ \E id \in p : x.results = {id} /\ q = p \ {id}

\* A message that follows keeps a conversation good.
LEMMA AppendKeepsGood ==
  ASSUME NEW s, NEW p, Good(s, p), NEW x \in Message, NEW q, Follows(s, p, x, q)
  PROVE  Good(Append(s, x), q)
<1> DEFINE n == Len(s)
           t == Append(s, x)
<1>0. /\ s \in Seq(Message) /\ n \in Nat /\ DOMAIN s = 1..n
      /\ t \in Seq(Message) /\ Len(t) = n + 1 /\ DOMAIN t = 1..(n + 1)
      /\ \A i \in 1..n : t[i] = s[i]
      /\ t[n + 1] = x
  <2>1. s \in Seq(Message)
    BY DEF Good
  <2> QED
    BY <2>1, AppendProperties
<1>1. \A i \in 1..(n + 1) : i \in 1..n \/ i = n + 1
  BY <1>0
<1>2. \A i \in 1..n : i \in 1..(n + 1) /\ i # n + 1 /\ i < n + 1
  BY <1>0
<1>3. \A i \in 1..n : s[i].uses \subseteq Uses(s) /\ s[i].results \subseteq Results(s)
  BY <1>0 DEF Uses, Results
<1>4. p \cap Results(s) = {}
  BY DEF Good
<1>5. PrefixLen(t) = PrefixLen(s)
  <2>1. PrefixLen(t) = 1 <=> Len(t) > 0 /\ t[1].role = "system"
    BY <1>0, PrefixAndRecent
  <2>2. PrefixLen(s) = 1 <=> Len(s) > 0 /\ s[1].role = "system"
    BY <1>0, PrefixAndRecent
  <2>3. PrefixLen(t) \in {0, 1} /\ PrefixLen(s) \in {0, 1}
    BY <1>0, PrefixAndRecent
  <2>4. x.role # "system"
    BY DEF Follows
  <2>5. CASE n = 0
    BY <1>0, <2>1, <2>2, <2>3, <2>4, <2>5
  <2>6. CASE n > 0
    <3>1. t[1] = s[1]
      BY <1>0, <2>6
    <3> QED
      BY <1>0, <2>1, <2>2, <2>3, <2>6, <3>1
  <2> QED
    BY <1>0, <2>5, <2>6
<1>6. p # {} => \E i \in 1..n : /\ s[i].role = "assistant" /\ p \subseteq s[i].uses
                                /\ \A k \in (i + 1)..n : s[k].role = "tool"
  BY <1>0 DEF Good, Waiting
<1> HIDE DEF t, n
<1>7. Plain(t)
  <2> SUFFICES ASSUME NEW i \in 1..(n + 1)
               PROVE  /\ t[i].role = "system" => i = 1
                      /\ t[i].role # "assistant" => t[i].uses = {}
                      /\ t[i].role # "tool" => t[i].results = {}
                      /\ t[i].role = "tool" => \E id \in Calls : t[i].results = {id}
    BY <1>0 DEF Plain
  <2>1. CASE i \in 1..n
    BY <1>0, <2>1 DEF Good, Plain
  <2>2. CASE i = n + 1
    <3>1. x.results \subseteq Calls
      BY DEF Message
    <3> QED
      BY <1>0, <2>2, <3>1 DEF Follows
  <2> QED
    BY <1>1, <2>1, <2>2
<1>8. \A i \in 1..n : s[i].uses \cap x.uses = {} /\ s[i].results \cap x.results = {}
  BY <1>3, <1>4 DEF Follows
<1>9. Once(t)
  <2> SUFFICES ASSUME NEW i \in 1..(n + 1), NEW j \in 1..(n + 1), i # j
               PROVE  /\ t[i].uses \cap t[j].uses = {}
                      /\ t[i].results \cap t[j].results = {}
    BY <1>0 DEF Once
  <2>1. CASE i \in 1..n /\ j \in 1..n
    BY <1>0, <2>1 DEF Good, Once
  <2>2. CASE i = n + 1 \/ j = n + 1
    BY <1>0, <1>1, <1>8, <2>2
  <2> QED
    BY <1>1, <2>1, <2>2
<1>10. Placed(t)
  <2> SUFFICES ASSUME NEW j \in 1..(n + 1), t[j].role = "tool"
               PROVE  Owned(t, j) \/ (Leading(t, j) /\ t[j].results \cap Uses(t) = {})
    BY <1>0 DEF Placed
  <2>1. CASE j \in 1..n /\ Owned(s, j)
    <3>1. PICK i \in 1..(j - 1) : /\ s[i].role = "assistant" /\ s[j].results \subseteq s[i].uses
                                  /\ \A k \in (i + 1)..j : s[k].role = "tool"
      BY <2>1 DEF Owned
    <3>2. i \in 1..n /\ \A k \in (i + 1)..j : k \in 1..n
      BY <1>0, <2>1
    <3> QED
      BY <1>0, <2>1, <3>1, <3>2 DEF Owned
  <2>2. CASE j \in 1..n /\ Leading(s, j) /\ s[j].results \cap Uses(s) = {}
    <3>1. \A k \in (PrefixLen(s) + 1)..j : k \in 1..n
      <4>1. PrefixLen(s) \in {0, 1}
        BY <1>0, PrefixAndRecent
      <4> QED
        BY <1>0, <2>2, <4>1
    <3>2. Leading(t, j)
      BY <1>0, <1>5, <2>2, <3>1 DEF Leading
    <3>3. s[j].results \cap x.uses = {}
      BY <1>3, <2>2 DEF Follows
    <3>4. \A i \in 1..(n + 1) : t[i].uses \cap t[j].results = {}
      BY <1>0, <1>1, <1>3, <2>2, <3>3
    <3> QED
      BY <1>0, <3>2, <3>4 DEF Uses
  <2>3. CASE j = n + 1
    <3>1. PICK id \in p : x.results = {id}
      BY <1>0, <2>3 DEF Follows
    <3>2. PICK i \in 1..n : /\ s[i].role = "assistant" /\ p \subseteq s[i].uses
                            /\ \A k \in (i + 1)..n : s[k].role = "tool"
      BY <1>6, <3>1
    <3>3. i \in 1..(j - 1) /\ \A k \in (i + 1)..j : k \in (i + 1)..n \/ k = n + 1
      BY <1>0, <2>3
    <3>4. \A k \in (i + 1)..n : k \in 1..n
      BY <1>0
    <3>5. \A k \in (i + 1)..j : t[k].role = "tool"
      BY <1>0, <2>3, <3>2, <3>3, <3>4
    <3>6. t[i].role = "assistant" /\ t[j].results \subseteq t[i].uses
      BY <1>0, <2>3, <3>1, <3>2
    <3> QED
      BY <3>3, <3>5, <3>6 DEF Owned
  <2>4. CASE j \in 1..n
    <3>1. s[j].role = "tool" /\ j \in DOMAIN s
      BY <1>0, <2>4
    <3> QED
      BY <2>1, <2>2, <2>4, <3>1 DEF Good, Placed
  <2> QED
    BY <1>1, <2>3, <2>4
<1>11. Complete(t, q)
  <2> SUFFICES ASSUME NEW i \in 1..(n + 1), NEW id \in t[i].uses \ q
               PROVE  \E j \in 1..(n + 1) : Answers(t, i, j, id)
    BY <1>0 DEF Complete
  <2>1. i \in 1..n /\ id \in s[i].uses
    <3>1. x.uses \subseteq q
      BY DEF Follows
    <3> QED
      BY <1>0, <1>1, <3>1
  <2>2. CASE id \notin p
    <3>1. PICK j \in 1..n : Answers(s, i, j, id)
      BY <1>0, <2>1, <2>2 DEF Good, Complete
    <3>2. \A k \in (i + 1)..j : k \in 1..n
      BY <1>0, <2>1
    <3> QED
      BY <1>0, <1>2, <3>1, <3>2 DEF Answers
  <2>3. CASE id \in p
    <3>1. x.role = "tool" /\ x.results = {id}
      BY <2>3 DEF Follows
    <3>2. PICK i0 \in 1..n : /\ s[i0].role = "assistant" /\ p \subseteq s[i0].uses
                             /\ \A k \in (i0 + 1)..n : s[k].role = "tool"
      BY <1>6, <2>3
    <3>3. i0 = i
      BY <1>0, <2>1, <2>3, <3>2 DEF Good, Once
    <3>4. \A k \in (i + 1)..(n + 1) : (k \in 1..n /\ k \in (i + 1)..n) \/ k = n + 1
      BY <1>0, <2>1
    <3>5. \A k \in (i + 1)..(n + 1) : t[k].role = "tool"
      BY <1>0, <3>1, <3>2, <3>3, <3>4
    <3>6. i < n + 1 /\ n + 1 \in 1..(n + 1) /\ id \in t[n + 1].results
      BY <1>0, <2>1, <3>1
    <3> QED
      BY <3>5, <3>6 DEF Answers
  <2> QED
    BY <2>2, <2>3
<1>12. Waiting(t, q)
  <2> SUFFICES ASSUME q # {}
               PROVE  \E i \in 1..(n + 1) : /\ t[i].role = "assistant" /\ q \subseteq t[i].uses
                                            /\ \A k \in (i + 1)..(n + 1) : t[k].role = "tool"
    BY <1>0 DEF Waiting
  <2>1. CASE x.role = "assistant"
    <3>1. n + 1 \in 1..(n + 1) /\ (n + 1 + 1)..(n + 1) = {}
      BY <1>0
    <3> QED
      BY <1>0, <2>1, <3>1 DEF Follows
  <2>2. CASE x.role = "tool"
    <3>1. p # {} /\ q \subseteq p
      BY <2>2 DEF Follows
    <3>2. PICK i \in 1..n : /\ s[i].role = "assistant" /\ p \subseteq s[i].uses
                            /\ \A k \in (i + 1)..n : s[k].role = "tool"
      BY <1>6, <3>1
    <3>3. \A k \in (i + 1)..(n + 1) : (k \in 1..n /\ k \in (i + 1)..n) \/ k = n + 1
      BY <1>0
    <3>4. \A k \in (i + 1)..(n + 1) : t[k].role = "tool"
      BY <1>0, <2>2, <3>2, <3>3
    <3> QED
      BY <1>0, <1>2, <3>1, <3>2, <3>4
  <2> QED
    BY <2>1, <2>2 DEF Follows
<1>13. q \cap Results(t) = {}
  <2>1. \A i \in 1..n : q \cap s[i].results = {}
    BY <1>3, <1>4 DEF Follows
  <2>2. q \cap x.results = {}
    BY DEF Follows
  <2>3. \A i \in 1..(n + 1) : q \cap t[i].results = {}
    BY <1>0, <1>1, <2>1, <2>2
  <2> QED
    BY <1>0, <2>3 DEF Results
<1>14. Good(t, q)
  BY <1>0, <1>7, <1>9, <1>10, <1>11, <1>12, <1>13 DEF Good
<1> QED
  BY <1>14 DEF t

\* Appending a message keeps whoever talked.
LEMMA AppendKeepsTalks ==
  ASSUME NEW s \in Seq(Message), NEW x \in Message
  PROVE  Talks(s) \/ x.role \in {"user", "assistant"} => Talks(Append(s, x))
<1> DEFINE t == Append(s, x)
<1>1. /\ Len(s) \in Nat /\ DOMAIN s = 1..Len(s) /\ DOMAIN t = 1..(Len(s) + 1)
      /\ \A i \in 1..Len(s) : t[i] = s[i]
      /\ t[Len(s) + 1] = x
  BY AppendProperties
<1>2. \A i \in 1..(Len(s) + 1) : i \in DOMAIN t
  BY <1>1
<1>3. Len(s) + 1 \in 1..(Len(s) + 1) /\ \A i \in 1..Len(s) : i \in 1..(Len(s) + 1)
  BY <1>1
<1> HIDE DEF t
<1>4. Talks(s) \/ x.role \in {"user", "assistant"} => Talks(t)
  BY <1>1, <1>2, <1>3 DEF Talks
<1> QED
  BY <1>4 DEF t

\* A history somebody has spoken in can be cut.
LEMMA TalksCanBeCut ==
  ASSUME NEW s \in Seq(Message), Plain(s), Talks(s)
  PROVE  Removed(s, 0) > 0
<1>1. PICK i \in DOMAIN s : s[i].role \in {"user", "assistant"}
  BY DEF Talks
<1>2. Len(Recent(s)) > 0
  <2>1. /\ PrefixLen(s) \in {0, 1} /\ PrefixLen(s) <= Len(s)
        /\ PrefixLen(s) = 1 <=> (Len(s) > 0 /\ s[1].role = "system")
        /\ Len(Recent(s)) = Len(s) - PrefixLen(s)
    BY PrefixAndRecent
  <2>2. i \in 1..Len(s) /\ Len(s) \in Nat
    OBVIOUS
  <2>3. i # 1 \/ PrefixLen(s) = 0
    BY <1>1, <2>1, <2>2
  <2> QED
    BY <2>1, <2>2, <2>3
<1> QED
  BY <1>2, RemovalsAreInside

\* Compaction cuts between a call and its results, and stays good.
LEMMA CompactKeepsGood ==
  ASSUME NEW s, Good(s, {}), NEW p \in {PreserveRecent, 2, 1, 0}, Removed(s, p) > 0
  PROVE  Good(Compacted(s, p), {})
<1>1. s \in Seq(Message)
  BY DEF Good
<1>2. /\ Compacted(s, p) \in Seq(Message)
      /\ \E d \in 0..(Len(s) - 1) :
           /\ Len(Compacted(s, p)) = Len(s) - d
           /\ Compacted(s, p)[1] = Summary
           /\ \A i \in 2..(Len(s) - d) : Compacted(s, p)[i] = s[i + d]
  BY <1>1, CompactedGives
<1>3. PICK d \in 0..(Len(s) - 1) :
        /\ Len(Compacted(s, p)) = Len(s) - d
        /\ Compacted(s, p)[1] = Summary
        /\ \A i \in 2..Len(Compacted(s, p)) : Compacted(s, p)[i] = s[i + d]
  BY <1>2
<1> QED
  BY <1>2, <1>3, CutKeepsGood
-----------------------------------------------------------------------------
(* The steps.                                                              *)

\* What a turn appends are messages.
LEMMA MessagesOfATurn ==
  /\ Said("user") \in Message /\ Said("assistant") \in Message
  /\ \A ids \in SUBSET Calls : Asking(ids) \in Message /\ Giving(ids) \in Message
  BY DEF Said, Asking, Giving, Message

\* Actions that add nothing to the history and leave no turn behind.
Ends == phase' = "idle" /\ UNCHANGED <<messages, pending, limited, failures, spoken>>
        /\ iterations' = 0 /\ ptl_retries' = 0 /\ outcome' \in {"error", "ok"}

\* A turn that ends leaves the conversation as it is.
LEMMA EndsStep == IInv /\ phase \in {"top", "awaiting"} /\ Ends => IInv'
<1> SUFFICES ASSUME IInv, phase \in {"top", "awaiting"}, Ends
             PROVE  IInv'
  OBVIOUS
<1>1. TypeOK'
  BY LoopAssumption DEF IInv, TypeOK, Ends, MaxPtlRetries
<1>2. Good(messages', pending')
  BY Zenon DEF IInv, Ends
<1> QED
  BY <1>1, <1>2 DEF IInv, Ends

\* A user's message follows a conversation where every call is answered.
LEMMA StartTurnStep == IInv /\ StartTurn => IInv'
<1> SUFFICES ASSUME IInv, StartTurn
             PROVE  IInv'
  OBVIOUS
<1>1. pending = {} /\ pending' = {} /\ Good(messages, {})
  BY DEF IInv, StartTurn
<1>2. Follows(messages, {}, Said("user"), {})
  BY DEF Follows, Said
<1>3. Good(messages', {})
  BY <1>1, <1>2, MessagesOfATurn, AppendKeepsGood, Zenon DEF StartTurn
<1>4. Talks(messages')
  BY <1>1, MessagesOfATurn, AppendKeepsTalks DEF StartTurn, Good, Said
<1>5. messages' \in Seq(Message)
  BY <1>3 DEF Good
<1>6. TypeOK'
  BY <1>5 DEF IInv, TypeOK, StartTurn
<1> QED
  BY <1>1, <1>3, <1>4, <1>6 DEF IInv, StartTurn

\* The repair before a request keeps the invariant, and opens with a user.
LEMMA RequestStep == IInv /\ Request => IInv'
<1> SUFFICES ASSUME IInv, Request
             PROVE  IInv'
  OBVIOUS
<1>1. pending = {} /\ pending' = {} /\ Good(messages, {})
  BY DEF IInv, Request
<1>2. Good(messages', {}) /\ Opened(messages') /\ (Talks(messages) => Talks(messages'))
  BY <1>1, RepairKeepsGood DEF Request
<1>3. messages' \in Seq(Message)
  BY <1>2 DEF Good
<1>4. TypeOK'
  <2>1. iterations' \in 0..(MaxIterations + 1)
    BY LoopAssumption DEF IInv, TypeOK, Request, NextIteration
  <2> QED
    BY <1>3, <2>1 DEF IInv, TypeOK, Request
<1> QED
  BY <1>1, <1>2, <1>4 DEF IInv, Request

\* A context refused and compacted keeps the invariant.
LEMMA RefusedAndCompactedStep == IInv /\ RefusedAndCompacted => IInv'
<1> SUFFICES ASSUME IInv, RefusedAndCompacted
             PROVE  IInv'
  OBVIOUS
<1>1. pending = {} /\ pending' = {} /\ Good(messages, {})
  BY DEF IInv, RefusedAndCompacted
<1>2. Max(Retries) \in Retries
  <2>1. Retries \subseteq 0..4 /\ Retries # {}
    BY DEF Retries, RefusedAndCompacted, CanRetry, PreserveRecent
  <2> QED
    BY <2>1, MaxIn
<1>3. Max(Retries) \in {PreserveRecent, 2, 1, 0} /\ Removed(messages, Max(Retries)) > 0
  BY <1>2 DEF Retries
<1>4. Good(messages', {})
  BY <1>1, <1>3, CompactKeepsGood DEF RefusedAndCompacted
<1>5. messages' \in Seq(Message)
  BY <1>4 DEF Good
<1>6. TypeOK'
  <2>1. ptl_retries' \in 0..MaxPtlRetries
    BY DEF IInv, TypeOK, RefusedAndCompacted, WithinRetries, CountRefusal, MaxPtlRetries
  <2> QED
    BY <1>5, <2>1 DEF IInv, TypeOK, RefusedAndCompacted, AfterSuccess, MaxCompactFailures
<1> QED
  BY <1>1, <1>4, <1>6 DEF IInv, RefusedAndCompacted, AfterSuccess

\* A turn that has spoken can always be compacted, so only the first of two
\* failures in a row is possible.
LEMMA RefusedForGoodStep == IInv /\ RefusedForGood => IInv'
<1> SUFFICES ASSUME IInv, RefusedForGood
             PROVE  IInv'
  OBVIOUS
<1>1. failures = 0
  <2> SUFFICES ASSUME failures = 1
               PROVE  CanRetry
    BY DEF IInv, TypeOK, RefusedForGood
  <2>1. Talks(messages)
    BY DEF IInv, RefusedForGood
  <2>2. Removed(messages, 0) > 0
    BY <2>1, TalksCanBeCut DEF IInv, Good
  <2> QED
    BY <2>2 DEF CanRetry, Retries, MaxCompactFailures
<1>2. failures' = 1
  BY <1>1 DEF RefusedForGood, MaxCompactFailures
<1>3. pending = {} /\ pending' = {} /\ messages' = messages /\ phase' = "idle"
  BY DEF IInv, RefusedForGood, End
<1>4. TypeOK'
  BY <1>2, LoopAssumption
     DEF IInv, TypeOK, RefusedForGood, End, MaxPtlRetries, MaxCompactFailures
<1> QED
  BY <1>2, <1>3, <1>4 DEF IInv

\* A text that answers ends the turn.
LEMMA AnswerTextStep == IInv /\ AnswerText => IInv'
<1> SUFFICES ASSUME IInv, AnswerText
             PROVE  IInv'
  OBVIOUS
<1>1. pending = {} /\ pending' = {} /\ Good(messages, {}) /\ phase' = "idle"
  BY DEF IInv, AnswerText, End
<1>2. Follows(messages, {}, Said("assistant"), {})
  BY DEF Follows, Said
<1>3. Good(messages', {})
  BY <1>1, <1>2, MessagesOfATurn, AppendKeepsGood, Zenon DEF AnswerText
<1>4. messages' \in Seq(Message)
  BY <1>3 DEF Good
<1>5. TypeOK'
  BY <1>4, LoopAssumption DEF IInv, TypeOK, AnswerText, End, MaxPtlRetries
<1> QED
  BY <1>1, <1>3, <1>5 DEF IInv, AnswerText

\* An answer that calls tools waits for each of them.
LEMMA AnswerCallsStep ==
  ASSUME NEW ids \in SUBSET Calls
  PROVE  IInv /\ AnswerCalls(ids) => IInv'
<1> SUFFICES ASSUME IInv, AnswerCalls(ids)
             PROVE  IInv'
  OBVIOUS
<1>1. pending = {} /\ pending' = ids /\ Good(messages, {}) /\ phase' = "tools" /\ ids # {}
  BY DEF IInv, AnswerCalls, NewCalls
<1>2. Follows(messages, {}, Asking(ids), ids)
  BY DEF Follows, Said, Asking, AnswerCalls, NewCalls
<1>3. Good(messages', ids)
  BY <1>1, <1>2, MessagesOfATurn, AppendKeepsGood, Zenon DEF AnswerCalls
<1>4. Talks(messages) => Talks(messages')
  BY <1>1, MessagesOfATurn, AppendKeepsTalks DEF AnswerCalls, Good
<1>5. messages' \in Seq(Message)
  BY <1>3 DEF Good
<1>6. TypeOK'
  BY <1>5 DEF IInv, TypeOK, AnswerCalls
<1> QED
  BY <1>1, <1>3, <1>4, <1>6 DEF IInv, AnswerCalls

\* A result answers one of the calls that wait.
LEMMA RunToolStep == IInv /\ RunTool => IInv'
<1> SUFFICES ASSUME IInv, RunTool
             PROVE  IInv'
  OBVIOUS
<1> DEFINE id == Min(pending)
<1>1. id \in pending /\ pending \in SUBSET Calls
  <2>1. pending # {} /\ pending \in SUBSET Calls
    BY DEF IInv, TypeOK, RunTool
  <2> QED
    BY <2>1, MinIn, LoopAssumption
<1>2. pending' = pending \ {id} /\ Good(messages, pending)
  BY DEF IInv, RunTool
<1>3. messages' = Append(messages, Giving({id}))
  <2>1. messages \in Seq(Message) /\ Giving({id}) \in Message
    BY <1>1, MessagesOfATurn DEF IInv, TypeOK
  <2> QED
    BY <2>1, AppendIsConcat DEF RunTool, ResultMessage
<1>4. Giving({id}) \in Message /\ messages \in Seq(Message)
  BY <1>1, MessagesOfATurn DEF IInv, TypeOK
<1> HIDE DEF id
<1>5. Follows(messages, pending, Giving({id}), pending \ {id})
  BY <1>1 DEF Follows, Giving, Said
<1>6. Good(messages', pending')
  BY <1>2, <1>3, <1>4, <1>5, AppendKeepsGood, Zenon
<1>7. Talks(messages) => Talks(messages')
  BY <1>3, <1>4, AppendKeepsTalks
<1>8. messages' \in Seq(Message) /\ pending' \in SUBSET Calls
  BY <1>1, <1>2, <1>6 DEF Good
<1>9. TypeOK'
  BY <1>8 DEF IInv, TypeOK, RunTool, turnVars
<1> QED
  BY <1>6, <1>7, <1>9 DEF IInv, RunTool, turnVars

\* A compaction between turns keeps the invariant.
LEMMA CompactIdleStep == IInv /\ CompactIdle => IInv'
<1> SUFFICES ASSUME IInv, CompactIdle
             PROVE  IInv'
  OBVIOUS
<1>1. pending = {} /\ pending' = {} /\ Good(messages, {}) /\ phase' = "idle" /\ failures' = 0
  BY DEF IInv, CompactIdle
<1>2. Good(messages', {})
  BY <1>1, CompactKeepsGood DEF CompactIdle
<1>3. messages' \in Seq(Message)
  BY <1>2 DEF Good
<1>4. TypeOK'
  BY <1>1, <1>3 DEF IInv, TypeOK, CompactIdle, turnVars, MaxCompactFailures
<1> QED
  BY <1>1, <1>2, <1>4 DEF IInv

\* A runtime that is rebuilt starts its counters anew.
LEMMA RebuildStep == IInv /\ Rebuild => IInv'
<1> SUFFICES ASSUME IInv, Rebuild
             PROVE  IInv'
  OBVIOUS
<1>1. TypeOK'
  BY DEF IInv, TypeOK, Rebuild, turnVars, MaxCompactFailures
<1>2. Good(messages', pending')
  BY Zenon DEF IInv, Rebuild
<1> QED
  BY <1>1, <1>2 DEF IInv, Rebuild

\* Every step of the loop keeps the invariant.
LEMMA Inductive == IInv /\ [Next]_vars => IInv'
<1> SUFFICES ASSUME IInv, [Next]_vars
             PROVE  IInv'
  OBVIOUS
<1>1. CASE StartTurn
  BY <1>1, StartTurnStep
<1>2. CASE GiveUp \/ RefusedOnceMore \/ Fail \/ AnswerNothing
  <2>1. phase \in {"top", "awaiting"} /\ Ends
    BY <1>2 DEF GiveUp, RefusedOnceMore, Fail, AnswerNothing, End, Ends
  <2> QED
    BY <2>1, EndsStep
<1>3. CASE Request
  BY <1>3, RequestStep
<1>4. CASE RefusedAndCompacted
  BY <1>4, RefusedAndCompactedStep
<1>5. CASE RefusedForGood
  BY <1>5, RefusedForGoodStep
<1>6. CASE AnswerText
  BY <1>6, AnswerTextStep
<1>7. ASSUME NEW ids \in SUBSET Calls, AnswerCalls(ids)
      PROVE  IInv'
  BY <1>7, AnswerCallsStep
<1>8. CASE RunTool
  BY <1>8, RunToolStep
<1>9. CASE CompactIdle
  BY <1>9, CompactIdleStep
<1>10. CASE Rebuild
  BY <1>10, RebuildStep
<1>11. CASE UNCHANGED vars
  <2>1. TypeOK'
    BY <1>11 DEF IInv, TypeOK, vars, turnVars
  <2>2. Good(messages', pending')
    BY <1>11, Zenon DEF IInv, vars
  <2> QED
    BY <1>11, <2>1, <2>2 DEF IInv, vars
<1> QED
  BY <1>1, <1>2, <1>3, <1>4, <1>5, <1>6, <1>7, <1>8, <1>9, <1>10, <1>11, Zenon
     DEF Next, RunTurn, Refused, Answered

\* The loop starts in the invariant.
LEMMA Initial == Init => IInv
<1> SUFFICES ASSUME Init
             PROVE  IInv
  OBVIOUS
<1>1. messages = <<>> /\ DOMAIN messages = {} /\ pending = {}
  BY DEF Init
<1>2. Good(messages, pending)
  BY <1>1 DEF Good, Plain, Once, Placed, Complete, Waiting
<1>3. TypeOK
  <2>1. messages \in Seq(Message)
    BY <1>1
  <2>2. /\ failures \in 0..MaxCompactFailures /\ iterations \in 0..(MaxIterations + 1)
        /\ ptl_retries \in 0..MaxPtlRetries /\ pending \in SUBSET Calls
    BY LoopAssumption DEF Init, MaxPtlRetries, MaxCompactFailures
  <2>3. /\ limited \in BOOLEAN /\ spoken \in BOOLEAN
        /\ phase \in {"idle", "top", "awaiting", "tools"} /\ outcome \in {"none", "ok", "error"}
    BY DEF Init
  <2> QED
    BY <2>1, <2>2, <2>3, Zenon DEF TypeOK
<1> QED
  BY <1>2, <1>3 DEF Init, IInv

\* The invariant of the loop always holds.
LEMMA Invariance == Spec => []IInv
  BY Initial, Inductive, PTL DEF Spec

-----------------------------------------------------------------------------
(* What follows for a turn.                                                *)

(* Every reachable state is well typed: compaction and the repair leave a  *)
(* history of messages, and the counters of run_turn stay within bounds.   *)
THEOREM TypeCorrect == Spec => []TypeOK
<1>1. IInv => TypeOK
  BY DEF IInv
<1> QED
  BY <1>1, Invariance, PTL

(* A request is what the provider asks for, whatever compact_session has   *)
(* cut before: behind the summary the user opens it, and every call has    *)
(* exactly one result before the next answer.                              *)
THEOREM RequestsAreValid == Spec => []RequestValid
<1>1. IInv => RequestValid
  <2> SUFFICES ASSUME IInv, phase = "awaiting"
               PROVE  /\ Recent(messages) # <<>> => Head(Recent(messages)).role = "user"
                      /\ \A id \in Uses(messages) \cup Results(messages) :
                           \E i \in DOMAIN messages :
                             /\ id \in messages[i].uses
                             /\ {j \in DOMAIN messages : id \in messages[j].results}
                                  \subseteq Following(messages, i)
                             /\ Cardinality({j \in DOMAIN messages : id \in messages[j].results}) = 1
    BY DEF RequestValid
  <2> DEFINE f == PrefixLen(messages)
  <2>1. Good(messages, {}) /\ Opened(messages) /\ messages \in Seq(Message)
    BY DEF IInv, Good
  <2>2. ASSUME NEW j \in DOMAIN messages, messages[j].role = "tool"
        PROVE  Owned(messages, j)
    <3>1. ~Leading(messages, j)
      <4>1. /\ f \in {0, 1} /\ (f = 1 <=> Len(messages) > 0 /\ messages[1].role = "system")
            /\ Recent(messages) \in Seq(Message) /\ Len(Recent(messages)) = Len(messages) - f
            /\ \A i \in 1..Len(Recent(messages)) : Recent(messages)[i] = messages[i + f]
        BY <2>1, PrefixAndRecent
      <4>2. j \in 1..Len(messages) /\ Len(messages) \in Nat /\ j > f
        BY <2>1, <2>2, <4>1
      <4>3. f + 1 \in (f + 1)..j /\ 1 \in 1..Len(Recent(messages)) /\ 1 + f = f + 1
        <5> HIDE DEF f
        <5> QED
          BY <4>1, <4>2
      <4>4. Recent(messages)[1] = messages[f + 1] /\ Recent(messages) # <<>>
        BY <4>1, <4>3
      <4>5. messages[f + 1].role = "user"
        BY <2>1, <4>1, <4>4 DEF Opened
      <4> QED
        BY <4>3, <4>5 DEF Leading
    <3> QED
      BY <2>1, <2>2, <3>1 DEF Good, Placed
  <2>3. ASSUME NEW id \in Uses(messages) \cup Results(messages)
        PROVE  \E i \in DOMAIN messages : id \in messages[i].uses
    <3>1. CASE id \in Uses(messages)
      BY <3>1 DEF Uses
    <3>2. CASE id \in Results(messages)
      <4>1. PICK j \in DOMAIN messages : id \in messages[j].results
        BY <3>2 DEF Results
      <4>2. messages[j].role = "tool"
        BY <2>1, <4>1 DEF Good, Plain
      <4>3. PICK i \in 1..(j - 1) : messages[j].results \subseteq messages[i].uses
        BY <2>2, <4>2 DEF Owned
      <4>4. i \in DOMAIN messages
        BY <2>1
      <4> QED
        BY <4>1, <4>3, <4>4
    <3> QED
      BY <3>1, <3>2
  <2>4. ASSUME NEW i \in DOMAIN messages, NEW id \in messages[i].uses
        PROVE  /\ {j \in DOMAIN messages : id \in messages[j].results}
                    \subseteq Following(messages, i)
               /\ Cardinality({j \in DOMAIN messages : id \in messages[j].results}) = 1
    <3>1. PICK j \in DOMAIN messages : Answers(messages, i, j, id)
      BY <2>1, <2>4 DEF Good, Complete
    <3>2. {m \in DOMAIN messages : id \in messages[m].results} = {j}
      BY <2>1, <3>1 DEF Good, Once, Answers
    <3>3. j \in Following(messages, i)
      BY <2>1, <3>1 DEF Answers, Following
    <3> QED
      BY <3>2, <3>3, FS_Singleton
  <2> QED
    BY <2>1, <2>3, <2>4, Zenon DEF Opened
<1> QED
  BY <1>1, Invariance, PTL

(* Whenever run_turn is about to send, the repair finds no call without    *)
(* its result, so that none is invented.                                   *)
THEOREM NothingIsInvented == Spec => []NoResultInvented
<1>1. IInv => NoResultInvented
  <2> SUFFICES ASSUME IInv, phase = "top"
               PROVE  \A i \in DOMAIN messages : Missing(messages, i) = {}
    BY DEF NoResultInvented
  <2>1. messages \in Seq(Message) /\ Complete(messages, {})
    BY DEF IInv, Good
  <2> QED
    BY <2>1, CompleteMissesNothing
<1> QED
  BY <1>1, Invariance, PTL

(* However many turns in a row are refused, the circuit breaker of the     *)
(* compaction for a retry stays closed.                                    *)
THEOREM BreakerNeverOpens == Spec => []BreakerStaysClosed
<1>1. IInv => BreakerStaysClosed
  BY DEF IInv, BreakerStaysClosed
<1> QED
  BY <1>1, Invariance, PTL
=============================================================================
