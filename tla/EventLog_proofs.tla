--------------------------- MODULE EventLog_proofs ---------------------------
(***************************************************************************)
(* Theorems about EventLog, for any finite set of publishers, any readers, *)
(* any channel capacity and any number of events.                          *)
(***************************************************************************)
EXTENDS EventLog, FiniteSetTheorems, SequenceTheorems, TLAPS

LEMMA EnqueueType ==
  ASSUME NEW q \in Seq(Numbers), NEW n \in Numbers
  PROVE  Enqueue(q, n) \in Seq(Numbers)
<1>1. CASE Len(q) < Capacity
  BY <1>1, AppendProperties DEF Enqueue
<1>2. CASE ~(Len(q) < Capacity)
  <2>1. q # <<>>
    BY <1>2, LogAssumption
  <2>2. Tail(q) \in Seq(Numbers)
    BY <2>1, HeadTailProperties
  <2> QED
    BY <1>2, <2>2, AppendProperties DEF Enqueue
<1> QED  BY <1>1, <1>2

-----------------------------------------------------------------------------
(* Beside the types: a publisher that is not idle holds a number.          *)

Holding == \A p \in Publishers : stage[p] # "idle" => held[p] # 0

LEMMA HoldingStep == TypeOK /\ Holding /\ [Next]_vars => Holding'
<1> SUFFICES ASSUME TypeOK, Holding, [Next]_vars PROVE Holding'
  OBVIOUS
<1> USE DEF TypeOK, Holding, logVars, readerVars
<1>1. ASSUME NEW p \in Publishers, PublisherStep(p) PROVE Holding'
  BY <1>1, LogAssumption DEF PublisherStep, NextSeq, Push, Send, DropPublisher, Extended, Recorded, AwaitsHistory
<1>2. CASE UNCHANGED logVars
  BY <1>2
<1> QED
  BY <1>1, <1>2 DEF Next, vars, ReaderStep, OpenStream, Subscribe, Yield, Receive,
     CloseStream, Wanted

\* A copy is never longer than the history.
CopiesFit == \A r \in Readers : upto[r] <= Len(event_history)

LEMMA CopiesFitStep ==
  TypeOK /\ Holding /\ CopiesFit /\ [Next]_vars => CopiesFit'
<1> SUFFICES ASSUME TypeOK, Holding, CopiesFit, [Next]_vars PROVE CopiesFit'
  OBVIOUS
<1> USE DEF TypeOK, CopiesFit, logVars, readerVars
<1>1. ASSUME NEW p \in Publishers, Push(p) PROVE CopiesFit'
  <2>1. Len(event_history') = Len(event_history) + 1
    <3>1. held[p] \in Numbers
      BY <1>1 DEF Push, Holding, Numbers
    <3> QED
      BY <1>1, <3>1, AppendProperties DEF Push, Extended
  <2> QED
    BY <1>1, <2>1 DEF Push
<1>2. ASSUME NEW r \in Readers, ReaderStep(r) PROVE CopiesFit'
  <2>1. event_history' = event_history
    BY <1>2 DEF ReaderStep, OpenStream, Subscribe, Yield, Receive, CloseStream
  <2>2. \/ upto' = upto
        \/ upto' = [upto EXCEPT ![r] = Len(event_history)]
        \/ upto' = [upto EXCEPT ![r] = 0]
    BY <1>2 DEF ReaderStep, OpenStream, Subscribe, Yield, Receive, CloseStream
  <2>3. Len(event_history) \in Nat
    OBVIOUS
  <2>4. \A q \in Readers :
          upto'[q] = upto[q] \/ upto'[q] = Len(event_history) \/ upto'[q] = 0
    BY <2>2
  <2>5. \A q \in Readers : upto[q] <= Len(event_history)
    OBVIOUS
  <2>6. \A q \in Readers : upto'[q] <= Len(event_history)
    <3> HIDE DEF TypeOK, CopiesFit
    <3>1. 0 <= Len(event_history) /\ Len(event_history) <= Len(event_history)
      BY <2>3
    <3> QED
      BY <2>4, <2>5, <3>1
  <2> QED
    BY <2>1, <2>6
<1>3. CASE UNCHANGED <<event_history, upto>>
  BY <1>3
<1> QED
  BY <1>1, <1>2, <1>3 DEF Next, vars, PublisherStep, NextSeq, Send,
     DropPublisher

LEMMA TypeStep == TypeOK /\ Holding /\ CopiesFit /\ [Next]_vars => TypeOK'
<1> SUFFICES ASSUME TypeOK, Holding, CopiesFit, [Next]_vars PROVE TypeOK'
  OBVIOUS
<1> USE LogAssumption DEF TypeOK, logVars, readerVars
<1>0. \A p \in Publishers : stage[p] # "idle" => held[p] \in Numbers
  BY DEF Holding, Numbers
<1>1. ASSUME NEW p \in Publishers, NextSeq(p) PROVE TypeOK'
  BY <1>1 DEF NextSeq
<1>2. ASSUME NEW p \in Publishers, Push(p) PROVE TypeOK'
  BY <1>0, <1>2, AppendProperties DEF Push, Extended
<1>3. ASSUME NEW p \in Publishers, Send(p) PROVE TypeOK'
  <2>1. held[p] \in Numbers
    BY <1>0, <1>3 DEF Send, Recorded
  <2>2. inbox' \in [Readers -> Seq(Numbers)]
    BY <1>3, <2>1, EnqueueType DEF Send, Recorded
  <2> QED
    BY <1>3, <2>1, <2>2 DEF Send, Recorded
<1>4. ASSUME NEW p \in Publishers, DropPublisher(p) PROVE TypeOK'
  BY <1>0, <1>4 DEF DropPublisher, AwaitsHistory
<1>5. ASSUME NEW r \in Readers, OpenStream(r) PROVE TypeOK'
  <2>1. {0} \cup {n + 1 : n \in Newest(r)} \subseteq 0..(MaxSeq + 1)
    BY DEF Newest, Numbers
  <2>2. PICK from \in 0..(MaxSeq + 1) : since' = [since EXCEPT ![r] = from]
    BY <1>5, <2>1 DEF OpenStream
  <2>3. Len(event_history) \in Nat
    OBVIOUS
  <2> QED
    BY <1>5, <2>2, <2>3 DEF OpenStream
<1>6. ASSUME NEW r \in Readers, Subscribe(r) PROVE TypeOK'
  BY <1>6 DEF Subscribe
<1>7. ASSUME NEW r \in Readers, Yield(r) PROVE TypeOK'
  <2>1. next[r] \in 1..Len(event_history)
    BY <1>7 DEF Yield, CopiesFit
  <2>2. event_history[next[r]] \in Numbers
    BY <2>1
  <2>3. received' \in [Readers -> SUBSET Numbers]
    BY <1>7, <2>2 DEF Yield
  <2> QED
    BY <1>7, <2>3 DEF Yield
<1>8. ASSUME NEW r \in Readers, Receive(r) PROVE TypeOK'
  <2>1. Tail(inbox[r]) \in Seq(Numbers) /\ Head(inbox[r]) \in Numbers
    BY <1>8, HeadTailProperties DEF Receive
  <2>2. received' \in [Readers -> SUBSET Numbers]
    BY <1>8, <2>1 DEF Receive
  <2> QED
    BY <1>8, <2>1, <2>2 DEF Receive
<1>10. ASSUME NEW r \in Readers, CloseStream(r) PROVE TypeOK'
  <2>1. <<>> \in Seq(Numbers)
    OBVIOUS
  <2> QED
    BY <1>10, <2>1 DEF CloseStream
<1>9. CASE UNCHANGED vars
  BY <1>9 DEF vars
<1> QED
  BY <1>1, <1>2, <1>3, <1>4, <1>5, <1>6, <1>7, <1>8, <1>9,
     <1>10
  DEF Next, PublisherStep, ReaderStep

(* Every reachable state of the log and of its streams is well typed.      *)
THEOREM LogTypeCorrect == Spec => [](TypeOK /\ Holding /\ CopiesFit)
<1>1. Init => TypeOK /\ Holding /\ CopiesFit
  BY LogAssumption DEF Init, TypeOK, Holding, CopiesFit, Numbers, FirstSeq
<1> QED
  BY <1>1, TypeStep, HoldingStep, CopiesFitStep, PTL DEF Spec

-----------------------------------------------------------------------------
(***************************************************************************)
(* NumbersAccountedFor is not inductive: Push would append a number twice  *)
(* if two publishers held it, or if a dropped handler could come back.     *)
(* The first part added is what fetch_add gives; the second what a dropped *)
(* future gives.                                                           *)
(***************************************************************************)

Numbered == {p \in Publishers : stage[p] = "numbered"}

OneHolder == \A p, q \in Numbered : held[p] = held[q] => p = q
DeadStayDead == InFlight \cap dropped = {}

LogInv == NumbersAccountedFor /\ OneHolder /\ DeadStayDead

LEMMA AppendedGrows ==
  ASSUME TypeOK, Holding, NEW p \in Publishers, Push(p)
  PROVE  /\ Len(event_history') = Len(event_history) + 1
         /\ \A i \in 1..Len(event_history) : event_history'[i] = event_history[i]
         /\ event_history'[Len(event_history) + 1] = held[p]
         /\ Appended' = Appended \cup {held[p]}
<1>1. held[p] \in Numbers /\ event_history \in Seq(Numbers)
  BY DEF TypeOK, Holding, Push, Numbers, Extended
<1>2. /\ Len(event_history') = Len(event_history) + 1
      /\ \A i \in 1..Len(event_history) : event_history'[i] = event_history[i]
      /\ event_history'[Len(event_history) + 1] = held[p]
  BY <1>1, AppendProperties DEF Push, Extended
<1>3. Len(event_history) \in Nat
  BY <1>1
<1>4. Appended' = Appended \cup {held[p]}
  <2>1. \A i \in 1..Len(event_history') :
          i \in 1..Len(event_history) \/ i = Len(event_history) + 1
    BY <1>2, <1>3
  <2>2. \A i \in 1..Len(event_history) : i \in 1..Len(event_history')
    BY <1>2, <1>3
  <2>3. Len(event_history) + 1 \in 1..Len(event_history')
    BY <1>2, <1>3
  <2> QED
    BY <1>2, <2>1, <2>2, <2>3 DEF Appended
<1> QED  BY <1>2, <1>4

\* Publisher p leaves the numbered ones and no number changes hands.
LEMMA NumberLeaves ==
  ASSUME TypeOK, OneHolder, NEW p \in Publishers, stage[p] = "numbered",
         NEW s \in {"idle", "pushed"}, stage' = [stage EXCEPT ![p] = s],
         held' = held
  PROVE  /\ Numbered' = Numbered \ {p}
         /\ InFlight' = InFlight \ {held[p]}
         /\ held[p] \in InFlight
         /\ OneHolder'
<1>1. Numbered' = Numbered \ {p}
  BY DEF TypeOK, Numbered
<1>2. InFlight = {held[q] : q \in Numbered}
  BY DEF InFlight, Numbered
<1>3. InFlight' = {held[q] : q \in Numbered'}
  BY DEF InFlight, Numbered
<1>4. p \in Numbered
  BY DEF Numbered
<1>5. OneHolder'
  BY <1>1 DEF OneHolder
<1>6. InFlight' = InFlight \ {held[p]}
  BY <1>1, <1>2, <1>3, <1>4 DEF OneHolder
<1> QED  BY <1>1, <1>2, <1>4, <1>5, <1>6

LEMMA LogInvStep == TypeOK /\ Holding /\ LogInv /\ [Next]_vars => LogInv'
<1> SUFFICES ASSUME TypeOK, Holding, LogInv, [Next]_vars PROVE LogInv'
  OBVIOUS
<1> USE DEF LogInv, NumbersAccountedFor, DeadStayDead
<1>0. seq_counter \in Nat \ {0}
  BY LogAssumption DEF TypeOK
<1>1. ASSUME NEW p \in Publishers, NextSeq(p) PROVE LogInv'
  <2>1. Numbered' = Numbered \cup {p} /\ p \notin Numbered
    BY <1>1 DEF NextSeq, TypeOK, Numbered
  <2>2. /\ held'[p] = seq_counter
        /\ \A q \in Publishers \ {p} : held'[q] = held[q]
    BY <1>1 DEF NextSeq, TypeOK
  <2>3. InFlight = {held[q] : q \in Numbered}
    BY DEF InFlight, Numbered
  <2>4. InFlight' = {held'[q] : q \in Numbered'}
    BY DEF InFlight, Numbered
  <2>5. InFlight' = InFlight \cup {seq_counter}
    BY <2>1, <2>2, <2>3, <2>4 DEF Numbered
  <2>6. 1..(seq_counter' - 1) = 1..(seq_counter - 1) \cup {seq_counter}
    BY <1>0, <1>1 DEF NextSeq
  <2>7. Appended' = Appended /\ dropped' = dropped
    BY <1>1 DEF NextSeq, Appended
  <2>8. seq_counter \notin Appended \cup InFlight \cup dropped
    BY <1>0
  <2>9. OneHolder'
    BY <2>1, <2>2, <2>3, <2>8 DEF OneHolder, Numbered
  <2> QED
    BY <1>1, <2>5, <2>6, <2>7, <2>8, <2>9 DEF NextSeq
<1>2. ASSUME NEW p \in Publishers, Push(p) PROVE LogInv'
  <2>1. /\ InFlight' = InFlight \ {held[p]}
        /\ held[p] \in InFlight
        /\ OneHolder'
    BY <1>2, NumberLeaves DEF Push, Extended
  <2>2. Appended' = Appended \cup {held[p]}
    BY <1>2, AppendedGrows
  <2>3. dropped' = dropped /\ seq_counter' = seq_counter
    BY <1>2 DEF Push, Extended
  <2>4. \A i, j \in 1..Len(event_history') :
          event_history'[i] = event_history'[j] => i = j
    <3>1. \A i \in 1..Len(event_history) : event_history[i] # held[p]
      BY <2>1 DEF Appended
    <3>2. \A i \in 1..Len(event_history') :
            i \in 1..Len(event_history) \/ i = Len(event_history) + 1
      BY <1>2, AppendedGrows DEF TypeOK
    <3> QED
      BY <1>2, AppendedGrows, <3>1, <3>2
  <2> QED
    BY <2>1, <2>2, <2>3, <2>4
<1>3. ASSUME NEW p \in Publishers, Send(p) PROVE LogInv'
  <2>1. Numbered' = Numbered
    BY <1>3 DEF Send, TypeOK, Numbered, Recorded
  <2>2. InFlight' = InFlight
    BY <1>3, <2>1 DEF Send, InFlight, Numbered, Recorded
  <2> QED
    BY <1>3, <2>1, <2>2 DEF Send, Appended, OneHolder, Recorded
<1>4. ASSUME NEW p \in Publishers, DropPublisher(p) PROVE LogInv'
  <2>1. /\ InFlight' = InFlight \ {held[p]}
        /\ held[p] \in InFlight
        /\ OneHolder'
    BY <1>4, NumberLeaves DEF DropPublisher, AwaitsHistory
  <2> QED
    BY <1>4, <2>1 DEF DropPublisher, Appended, AwaitsHistory
<1>5. CASE UNCHANGED logVars
  BY <1>5 DEF logVars, Appended, InFlight, OneHolder, Numbered
<1> QED
  BY <1>1, <1>2, <1>3, <1>4, <1>5 DEF Next, vars, PublisherStep, ReaderStep,
     OpenStream, Subscribe, Yield, Receive, CloseStream, Wanted

(* No number is in the history twice, and a number missing from it is on   *)
(* its way or died with a dropped handler.                                 *)
THEOREM NumbersSafe == Spec => []NumbersAccountedFor
<1>1. Init => LogInv
  <2> SUFFICES ASSUME Init PROVE LogInv
    OBVIOUS
  <2>1. Appended = {} /\ InFlight = {} /\ Numbered = {}
    BY DEF Init, Appended, InFlight, Numbered, FirstSeq
  <2> QED
    BY <2>1 DEF Init, LogInv, NumbersAccountedFor, OneHolder, DeadStayDead, FirstSeq
<1>2. LogInv => NumbersAccountedFor
  BY DEF LogInv
<1> QED
  BY <1>1, <1>2, LogInvStep, LogTypeCorrect, PTL DEF Spec

-----------------------------------------------------------------------------
(***************************************************************************)
(* OvertakingBounded is strengthened by counting, with the smaller numbers *)
(* behind an event, the publishers that still hold one: a push moves one   *)
(* from the second count to the first, and the publisher whose event it is *)
(* is never among them when the event enters.                              *)
(***************************************************************************)

Behind(i) ==
  {j \in i..Len(event_history) : event_history[j] < event_history[i]}
Late(n) == {p \in Publishers : stage[p] = "numbered" /\ held[p] < n}

FewLate ==
  \A i \in 1..Len(event_history) :
    Cardinality(Behind(i)) + Cardinality(Late(event_history[i]))
      < Cardinality(Publishers)

LEMMA CountsAreFinite ==
  ASSUME TypeOK
  PROVE  /\ IsFiniteSet(Publishers) /\ Cardinality(Publishers) \in Nat
         /\ \A n : IsFiniteSet(Late(n)) /\ Cardinality(Late(n)) \in Nat
         /\ \A i \in 1..Len(event_history) :
              IsFiniteSet(Behind(i)) /\ Cardinality(Behind(i)) \in Nat
<1>1. \A n : Late(n) \subseteq Publishers
  BY DEF Late
<1>2. ASSUME NEW i \in 1..Len(event_history)
      PROVE  IsFiniteSet(Behind(i))
  <2>1. i \in Int /\ Len(event_history) \in Int
    BY DEF TypeOK
  <2>2. IsFiniteSet(i..Len(event_history))
    BY <2>1, FS_Interval
  <2>3. Behind(i) \subseteq i..Len(event_history)
    BY DEF Behind
  <2> QED
    BY <2>2, <2>3, FS_Subset
<1> QED
  BY <1>1, <1>2, LogAssumption, FS_Subset, FS_CardinalityType

LEMMA IntervalGrows ==
  ASSUME NEW i \in Nat, NEW n \in Nat, i <= n
  PROVE  i..(n + 1) = (i..n) \cup {n + 1}
OBVIOUS

LEMMA PushKeepsFew ==
  ASSUME TypeOK, Holding, FewLate, NEW p \in Publishers, Push(p)
  PROVE  FewLate'
<1> DEFINE N == Len(event_history)
           C == Cardinality(Publishers)
           LateNext(n) == {q \in Publishers : stage'[q] = "numbered" /\ held'[q] < n}
<1>1. /\ N \in Nat
      /\ Len(event_history') = N + 1
      /\ \A i \in 1..N : event_history'[i] = event_history[i]
      /\ event_history'[N + 1] = held[p]
  BY AppendedGrows DEF TypeOK
<1>2. held[p] \in Nat /\ \A i \in 1..N : event_history[i] \in Nat
  <2>1. \A i \in 1..N : event_history[i] \in Numbers
    BY DEF TypeOK
  <2> QED
    BY <2>1 DEF Numbers, TypeOK
<1>3. \A n : LateNext(n) = Late(n) \ {p}
  BY DEF Push, Late, TypeOK, Extended
<1>4. C \in Nat
  BY CountsAreFinite
<1>5. ASSUME NEW i \in 1..N
      PROVE  Cardinality(Behind(i)') + Cardinality(LateNext(event_history'[i])) < C
  <2> DEFINE n == event_history[i]
  <2>1. event_history'[i] = n /\ i \in Nat /\ i <= N
    BY <1>1
  <2>2. /\ IsFiniteSet(Behind(i)) /\ Cardinality(Behind(i)) \in Nat
        /\ IsFiniteSet(Late(n)) /\ Cardinality(Late(n)) \in Nat
    BY CountsAreFinite
  <2>3. Cardinality(Behind(i)) + Cardinality(Late(n)) < C
    BY DEF FewLate
  <2>4. Behind(i)' = {j \in (i..N) \cup {N + 1} : event_history'[j] < n}
    <3>1. i..(N + 1) = (i..N) \cup {N + 1}
      <4> HIDE DEF N
      <4> QED  BY <1>1, <2>1, IntervalGrows
    <3> QED
      BY <1>1, <2>1, <3>1 DEF Behind
  <2>5. \A j \in i..N : event_history'[j] = event_history[j]
    BY <1>1, <2>1
  <2>6. CASE held[p] < n
    <3>1. N + 1 \notin Behind(i)
      BY <1>1 DEF Behind
    <3>2. Behind(i)' = Behind(i) \cup {N + 1}
      BY <1>1, <2>4, <2>5, <2>6 DEF Behind
    <3>3. p \in Late(n)
      BY <2>6 DEF Late, Push, Extended
    <3>4. Cardinality(Behind(i)') = Cardinality(Behind(i)) + 1
      BY <2>2, <3>1, <3>2, FS_AddElement
    <3>5. Cardinality(LateNext(n)) = Cardinality(Late(n)) - 1
      <4>1. Cardinality(Late(n) \ {p}) = Cardinality(Late(n)) - 1
        <5> HIDE DEF n
        <5> QED  BY <2>2, <3>3, FS_RemoveElement
      <4> QED
        BY <1>3, <4>1, Zenon
    <3> HIDE DEF n, C, LateNext
    <3> QED
      BY <1>4, <2>1, <2>2, <2>3, <3>4, <3>5
  <2>7. CASE ~(held[p] < n)
    <3>1. Behind(i)' = Behind(i)
      BY <1>1, <2>4, <2>5, <2>7 DEF Behind
    <3>2. LateNext(n) = Late(n)
      <4>1. p \notin Late(n)
        BY <2>7 DEF Late
      <4> QED
        BY <1>3, <4>1
    <3> QED
      BY <2>1, <2>3, <3>1, <3>2
  <2> QED  BY <2>6, <2>7
<1>6. ASSUME NEW i \in Nat, i = N + 1
      PROVE  Cardinality(Behind(i)') + Cardinality(LateNext(event_history'[i])) < C
  <2>1. Behind(i)' = {}
    <3>1. ~(held[p] < held[p])
      BY <1>2
    <3>2. \A j \in (N + 1)..(N + 1) : j = N + 1
      BY <1>1
    <3> QED
      BY <1>1, <1>6, <3>1, <3>2 DEF Behind
  <2>2. LateNext(held[p]) \subseteq Publishers \ {p}
    BY <1>3 DEF Late
  <2>3. IsFiniteSet(Publishers \ {p}) /\ Cardinality(Publishers \ {p}) = C - 1
    BY CountsAreFinite, FS_RemoveElement
  <2>4. IsFiniteSet(LateNext(held[p]))
        /\ Cardinality(LateNext(held[p])) <= Cardinality(Publishers \ {p})
    BY <2>2, <2>3, FS_Subset
  <2>5. Cardinality(LateNext(held[p])) \in Nat
    BY <2>4, FS_CardinalityType
  <2>6. Cardinality(Behind(i)') = 0
    BY <2>1, FS_EmptySet
  <2> HIDE DEF C, LateNext
  <2> QED
    BY <1>1, <1>4, <1>6, <2>3, <2>4, <2>5, <2>6
<1>7. \A i \in 1..Len(event_history') : i \in 1..N \/ i = N + 1
  BY <1>1
<1>8. SUFFICES ASSUME NEW i \in 1..Len(event_history')
               PROVE  Cardinality(Behind(i)') + Cardinality(LateNext(event_history'[i])) < C
  BY Zenon DEF FewLate, Late
<1>9. CASE i \in 1..N
  BY <1>5, <1>9
<1>10. CASE i = N + 1
  BY <1>1, <1>6, <1>10
<1> QED
  BY <1>7, <1>9, <1>10

LEMMA FewLateStep ==
  TypeOK /\ Holding /\ LogInv /\ FewLate /\ [Next]_vars => FewLate'
<1> SUFFICES ASSUME TypeOK, Holding, LogInv, FewLate, [Next]_vars PROVE FewLate'
  OBVIOUS
<1> DEFINE LateNext(n) == {q \in Publishers : stage'[q] = "numbered" /\ held'[q] < n}
\* Outside Push the history stays, and no publisher becomes late for it.
<1>1. ASSUME event_history' = event_history,
             \A i \in 1..Len(event_history) :
               LateNext(event_history[i]) \subseteq Late(event_history[i])
      PROVE  FewLate'
  <2>1. \A i \in 1..Len(event_history) : Behind(i)' = Behind(i)
    BY <1>1 DEF Behind
  <2>2. ASSUME NEW i \in 1..Len(event_history)
        PROVE  /\ Cardinality(LateNext(event_history[i]))
                    <= Cardinality(Late(event_history[i]))
               /\ Cardinality(LateNext(event_history[i])) \in Nat
    <3>1. IsFiniteSet(Late(event_history[i]))
      BY CountsAreFinite
    <3> QED
      BY <1>1, <3>1, FS_Subset, FS_CardinalityType
  <2>3. SUFFICES ASSUME NEW i \in 1..Len(event_history)
                 PROVE  Cardinality(Behind(i)) + Cardinality(LateNext(event_history[i]))
                          < Cardinality(Publishers)
    BY <1>1, <2>1 DEF FewLate, Late
  <2>4. /\ Cardinality(Behind(i)) \in Nat
        /\ Cardinality(Late(event_history[i])) \in Nat
        /\ Cardinality(Publishers) \in Nat
    BY CountsAreFinite
  <2>5. Cardinality(Behind(i)) + Cardinality(Late(event_history[i]))
          < Cardinality(Publishers)
    BY DEF FewLate
  <2> HIDE DEF LateNext
  <2> QED
    BY <2>2, <2>4, <2>5
<1>2. ASSUME NEW p \in Publishers, NextSeq(p) PROVE FewLate'
  <2>1. \A i \in 1..Len(event_history) : event_history[i] \in 1..(seq_counter - 1)
    BY DEF LogInv, NumbersAccountedFor, Appended
  <2>2. seq_counter \in Nat
    BY LogAssumption DEF TypeOK
  <2>3. \A i \in 1..Len(event_history) :
          LateNext(event_history[i]) = Late(event_history[i])
    BY <1>2, <2>1, <2>2 DEF NextSeq, Late, TypeOK
  <2> QED
    BY <1>1, <1>2, <2>3 DEF NextSeq
<1>3. ASSUME NEW p \in Publishers, Push(p) PROVE FewLate'
  BY <1>3, PushKeepsFew
<1>4. ASSUME NEW p \in Publishers, Send(p) \/ DropPublisher(p) PROVE FewLate'
  <2>1. \A n : LateNext(n) \subseteq Late(n)
    BY <1>4 DEF Send, DropPublisher, Late, TypeOK, Recorded, AwaitsHistory
  <2> QED
    BY <1>1, <1>4, <2>1 DEF Send, DropPublisher, Recorded, AwaitsHistory
<1>5. CASE UNCHANGED logVars
  BY <1>1, <1>5 DEF logVars, Late
<1> QED
  BY <1>2, <1>3, <1>4, <1>5 DEF Next, vars, PublisherStep, ReaderStep,
     OpenStream, Subscribe, Yield, Receive, CloseStream, Wanted

(* Behind any event, fewer smaller numbers follow than there are           *)
(* publishers.                                                             *)
THEOREM OvertakingIsBounded == Spec => []OvertakingBounded
<1>1. Init => LogInv /\ FewLate
  <2> SUFFICES ASSUME Init PROVE LogInv /\ FewLate
    OBVIOUS
  <2>1. Appended = {} /\ InFlight = {} /\ Numbered = {}
    BY DEF Init, Appended, InFlight, Numbered, FirstSeq
  <2> QED
    BY <2>1 DEF Init, LogInv, NumbersAccountedFor, OneHolder, DeadStayDead, FewLate, FirstSeq
<1>2. TypeOK /\ FewLate => OvertakingBounded
  <2> SUFFICES ASSUME TypeOK, FewLate, NEW i \in 1..Len(event_history)
               PROVE  Cardinality(Behind(i)) < Cardinality(Publishers)
    BY DEF OvertakingBounded, Behind
  <2> QED
    BY CountsAreFinite DEF FewLate
<1> QED
  BY <1>1, <1>2, LogInvStep, FewLateStep, LogTypeCorrect, PTL DEF Spec

(* With a single publisher the history is in the order of its numbers: the *)
(* claim of streaming.rs holds exactly where nobody publishes beside the   *)
(* turn's own thread.                                                      *)
THEOREM OnePublisherInOrder ==
  ASSUME Cardinality(Publishers) = 1
  PROVE  Spec => []HistoryInSeqOrder
<1>1. ASSUME TypeOK, OvertakingBounded, NumbersAccountedFor
      PROVE  HistoryInSeqOrder
  <2> SUFFICES ASSUME NEW i \in 1..Len(event_history),
                      NEW j \in 1..Len(event_history), i < j
               PROVE  event_history[i] < event_history[j]
    BY DEF HistoryInSeqOrder
  <2>1. /\ event_history[i] \in Nat /\ event_history[j] \in Nat
        /\ event_history[i] # event_history[j]
    <3>1. event_history[i] \in Numbers /\ event_history[j] \in Numbers
      BY <1>1 DEF TypeOK
    <3>2. event_history[i] # event_history[j]
      <4>1. i # j
        BY <1>1 DEF TypeOK
      <4> QED
        BY <1>1, <4>1 DEF NumbersAccountedFor
    <3> QED
      BY <3>1, <3>2 DEF Numbers
  <2>2. Cardinality(Behind(i)) = 0
    <3>1. Cardinality(Behind(i)) < Cardinality(Publishers)
      BY <1>1 DEF OvertakingBounded, Behind
    <3>2. Cardinality(Behind(i)) \in Nat
      BY <1>1, CountsAreFinite
    <3> QED
      BY <3>1, <3>2
  <2>3. Behind(i) = {}
    BY <1>1, <2>2, CountsAreFinite, FS_EmptySet
  <2>4. j \in i..Len(event_history)
    BY <1>1 DEF TypeOK
  <2> QED
    BY <2>1, <2>3, <2>4 DEF Behind
<1> QED
  BY <1>1, LogTypeCorrect, OvertakingIsBounded, NumbersSafe, PTL

-----------------------------------------------------------------------------
(***************************************************************************)
(* Streams.  What was sent since a stream's copy is in the window or in    *)
(* the inbox, what was sent before is in the copy, and whatever a stream   *)
(* holds comes from the history.                                           *)
(***************************************************************************)

InHistory ==
  /\ \A p \in Publishers : stage[p] = "pushed" => held[p] \in Appended
  /\ sent \subseteq Appended
  /\ \A r \in Readers : /\ Unread(r) \subseteq Appended
                        /\ received[r] \subseteq Appended

NoneLost ==
  \A r \in Readers :
    /\ Len(inbox[r]) <= Capacity
    /\ stream[r] = "copied" =>
         \A n \in sent : n >= since[r] => n \in Unyielded(r) \cup window[r]
    /\ (stream[r] = "live" /\ ~lagged[r]) =>
         \A n \in sent : n >= since[r] =>
           n \in received[r] \cup Unyielded(r) \cup Unread(r) \cup window[r]

\* The members of a sequence, before and after one is added or taken.
Members(q) == {q[i] : i \in 1..Len(q)}

LEMMA MembersOfAppend ==
  ASSUME NEW q \in Seq(Numbers), NEW n \in Numbers
  PROVE  Members(Append(q, n)) = Members(q) \cup {n}
<1>1. /\ Len(Append(q, n)) = Len(q) + 1
      /\ \A i \in 1..Len(q) : Append(q, n)[i] = q[i]
      /\ Append(q, n)[Len(q) + 1] = n
  BY AppendProperties
<1>2. 1..(Len(q) + 1) = (1..Len(q)) \cup {Len(q) + 1}
  OBVIOUS
<1> HIDE DEF Members
<1>3. \A m : m \in Members(Append(q, n)) <=> m \in Members(q) \cup {n}
  BY <1>1, <1>2 DEF Members
<1> QED  BY <1>3

LEMMA MembersOfTail ==
  ASSUME NEW q \in Seq(Numbers), q # <<>>
  PROVE  Members(q) = Members(Tail(q)) \cup {Head(q)}
<1>1. /\ Len(Tail(q)) = Len(q) - 1
      /\ \A i \in 1..Len(Tail(q)) : Tail(q)[i] = q[i + 1]
      /\ Head(q) = q[1]
      /\ Len(q) \in Nat \ {0}
  BY HeadTailProperties
<1>2. \A i \in 1..Len(q) : i = 1 \/ (i - 1 \in 1..Len(Tail(q)) /\ q[i] = Tail(q)[i - 1])
  BY <1>1
<1>3. \A i \in 1..Len(Tail(q)) : i + 1 \in 1..Len(q)
  BY <1>1
<1>4. Members(q) \subseteq Members(Tail(q)) \cup {Head(q)}
  BY <1>1, <1>2 DEF Members
<1>5. Members(Tail(q)) \subseteq Members(q)
  BY <1>1, <1>3 DEF Members
<1>6. Head(q) \in Members(q)
  <2>1. 1 \in 1..Len(q)
    BY <1>1
  <2> QED
    BY <1>1, <2>1 DEF Members
<1> QED  BY <1>4, <1>5, <1>6

LEMMA EnqueueMembers ==
  ASSUME NEW q \in Seq(Numbers), NEW n \in Numbers, Len(q) <= Capacity
  PROVE  /\ Len(Enqueue(q, n)) <= Capacity
         /\ Members(Enqueue(q, n)) \subseteq Members(q) \cup {n}
         /\ Len(q) # Capacity => Members(Enqueue(q, n)) = Members(q) \cup {n}
<1>1. Capacity \in Nat \ {0} /\ Len(q) \in Nat
  BY LogAssumption
<1>2. CASE Len(q) < Capacity
  <2>1. Len(Append(q, n)) = Len(q) + 1
    BY AppendProperties
  <2> QED
    BY <1>1, <1>2, <2>1, MembersOfAppend DEF Enqueue
<1>3. CASE ~(Len(q) < Capacity)
  <2>1. Len(q) = Capacity /\ q # <<>>
    BY <1>1, <1>3
  <2>2. Tail(q) \in Seq(Numbers) /\ Len(Tail(q)) = Len(q) - 1
    BY <2>1, HeadTailProperties
  <2>3. Len(Append(Tail(q), n)) = Len(q)
    BY <1>1, <2>2, AppendProperties
  <2>4. Members(Append(Tail(q), n)) = Members(Tail(q)) \cup {n}
    BY <2>2, MembersOfAppend
  <2>5. Members(Tail(q)) \subseteq Members(q)
    BY <2>1, MembersOfTail
  <2> QED
    BY <1>1, <1>3, <2>1, <2>3, <2>4, <2>5 DEF Enqueue
<1> QED  BY <1>2, <1>3

\* The rest of a copy does not change under a publisher.
LEMMA CopyIsStable ==
  ASSUME TypeOK, Holding, CopiesFit, NEW p \in Publishers, PublisherStep(p),
         NEW r \in Readers
  PROVE  Unyielded(r)' = Unyielded(r)
<1> USE DEF TypeOK
<1>1. next' = next /\ upto' = upto
  BY DEF PublisherStep, NextSeq, Push, Send, DropPublisher, readerVars
<1>2. \A i \in next[r]..upto[r] : event_history'[i] = event_history[i]
  <2>1. CASE Push(p)
    <3>1. next[r]..upto[r] \subseteq 1..Len(event_history)
      BY DEF CopiesFit
    <3> QED
      BY <2>1, <3>1, AppendedGrows
  <2>2. CASE ~Push(p)
    BY <2>2 DEF PublisherStep, NextSeq, Send, DropPublisher
  <2> QED  BY <2>1, <2>2
<1> QED
  BY <1>1, <1>2 DEF Unyielded

LEMMA StreamStep ==
  ASSUME TypeOK, Holding, CopiesFit, InHistory, NoneLost, [Next]_vars
  PROVE  InHistory' /\ NoneLost'
<1> USE DEF TypeOK, logVars, readerVars
<1>1. \A r \in Readers : Unread(r) = Members(inbox[r])
  BY DEF Unread, Members
<1>2. \A r \in Readers : Unread(r)' = Members(inbox'[r])
  BY DEF Unread, Members
<1> HIDE DEF Members
<1>3. ASSUME NEW p \in Publishers, NextSeq(p) \/ DropPublisher(p)
      PROVE  InHistory' /\ NoneLost'
  <2>1. UNCHANGED <<event_history, sent, readerVars>>
    BY <1>3 DEF NextSeq, DropPublisher
  <2>2. \A q \in Publishers : stage'[q] = "pushed" =>
          stage[q] = "pushed" /\ held'[q] = held[q]
    BY <1>3 DEF NextSeq, DropPublisher, AwaitsHistory
  <2>3. Appended' = Appended /\ \A r \in Readers : Unread(r)' = Unread(r)
    BY <2>1 DEF Appended, Unread
  <2>4. InHistory'
    BY <2>1, <2>2, <2>3 DEF InHistory
  <2>5. \A r \in Readers : Unyielded(r)' = Unyielded(r)
    BY <1>3, CopyIsStable DEF PublisherStep
  <2> QED
    BY <2>1, <2>3, <2>4, <2>5 DEF NoneLost
<1>4. ASSUME NEW p \in Publishers, Push(p) PROVE InHistory' /\ NoneLost'
  <2>1. UNCHANGED <<sent, held, readerVars>>
    BY <1>4 DEF Push
  <2>2. \A q \in Publishers : stage'[q] = "pushed" => stage[q] = "pushed" \/ q = p
    BY <1>4 DEF Push
  <2>3. Appended' = Appended \cup {held[p]}
    BY <1>4, AppendedGrows
  <2>4. \A r \in Readers : Unread(r)' = Unread(r)
    BY <2>1 DEF Unread
  <2>5. InHistory'
    BY <2>1, <2>2, <2>3, <2>4 DEF InHistory
  <2>6. \A r \in Readers : Unyielded(r)' = Unyielded(r)
    BY <1>4, CopyIsStable DEF PublisherStep
  <2> QED
    BY <2>1, <2>4, <2>5, <2>6 DEF NoneLost
<1>5. ASSUME NEW p \in Publishers, Send(p) PROVE InHistory' /\ NoneLost'
  <2>0. \A r \in Readers : Unyielded(r)' = Unyielded(r)
    BY <1>5, CopyIsStable DEF PublisherStep
  <2> USE <1>5 DEF Send, Recorded
  <2>1. held[p] \in Appended /\ held[p] \in Numbers
    BY DEF InHistory, Holding, Numbers
  <2>2. \A q \in Publishers : stage'[q] = "pushed" => stage[q] = "pushed"
    OBVIOUS
  <2>3. Appended' = Appended
    BY DEF Appended
  <2>4. ASSUME NEW r \in Readers
        PROVE  /\ Len(inbox'[r]) <= Capacity
               /\ Unread(r)' \subseteq Unread(r) \cup {held[p]}
               /\ (stream[r] = "live" /\ Len(inbox[r]) # Capacity)
                    => Unread(r)' = Unread(r) \cup {held[p]}
    <3>1. CASE stream[r] = "live"
      <4>1. inbox'[r] = Enqueue(inbox[r], held[p])
        BY <3>1
      <4>2. inbox[r] \in Seq(Numbers) /\ Len(inbox[r]) <= Capacity
        BY DEF NoneLost
      <4> QED
        BY <1>1, <1>2, <2>1, <4>1, <4>2, EnqueueMembers
    <3>2. CASE stream[r] # "live"
      <4>1. inbox'[r] = inbox[r]
        BY <3>2
      <4> QED
        BY <1>1, <1>2, <3>2, <4>1 DEF NoneLost
    <3> QED  BY <3>1, <3>2
  <2>5. InHistory'
    BY <2>1, <2>2, <2>3, <2>4 DEF InHistory
  <2>6. ASSUME NEW r \in Readers, stream[r] = "copied",
               NEW n \in sent', n >= since[r]
        PROVE  n \in Unyielded(r) \cup window'[r]
    BY <2>6 DEF NoneLost
  <2>7. ASSUME NEW r \in Readers, stream[r] = "live", ~lagged'[r],
               NEW n \in sent', n >= since[r]
        PROVE  n \in received[r] \cup Unyielded(r) \cup Unread(r)' \cup window'[r]
    <3>1. ~lagged[r] /\ Len(inbox[r]) # Capacity
      BY <2>7
    <3>2. Unread(r)' = Unread(r) \cup {held[p]}
      BY <2>4, <2>7, <3>1
    <3> QED
      BY <2>7, <3>1, <3>2 DEF NoneLost
  <2> QED
    BY <2>0, <2>4, <2>5, <2>6, <2>7 DEF NoneLost
<1>6. ASSUME NEW r \in Readers, ReaderStep(r) PROVE InHistory' /\ NoneLost'
  <2>0. UNCHANGED logVars /\ Appended' = Appended
    BY <1>6 DEF ReaderStep, OpenStream, Subscribe, Yield, Receive, CloseStream,
       Appended
  <2>1. ASSUME \A q \in Readers \ {r} :
                 /\ stream'[q] = stream[q] /\ since'[q] = since[q]
                 /\ next'[q] = next[q] /\ upto'[q] = upto[q]
                 /\ inbox'[q] = inbox[q] /\ lagged'[q] = lagged[q]
                 /\ received'[q] = received[q] /\ window'[q] = window[q],
               Len(inbox'[r]) <= Capacity,
               Members(inbox'[r]) \subseteq Appended,
               received'[r] \subseteq Appended,
               stream'[r] = "copied" =>
                 \A n \in sent : n >= since'[r] =>
                   n \in Unyielded(r)' \cup window'[r],
               (stream'[r] = "live" /\ ~lagged'[r]) =>
                 \A n \in sent : n >= since'[r] =>
                   n \in received'[r] \cup Unyielded(r)'
                           \cup Members(inbox'[r]) \cup window'[r]
        PROVE  InHistory' /\ NoneLost'
    <3>1. ASSUME NEW q \in Readers \ {r}
          PROVE  Unread(q)' = Unread(q) /\ Unyielded(q)' = Unyielded(q)
      <4>1. inbox'[q] = inbox[q] /\ next'[q] = next[q] /\ upto'[q] = upto[q]
        BY <2>1
      <4>2. Unread(q)' = Unread(q)
        BY <1>1, <1>2, <4>1
      <4>3. Unyielded(q)' = Unyielded(q)
        BY <2>0, <4>1 DEF Unyielded
      <4> QED  BY <4>2, <4>3
    <3>2. InHistory'
      <4>1. \A q \in Readers : /\ Unread(q)' \subseteq Appended
                               /\ received'[q] \subseteq Appended
        <5>1. ASSUME NEW q \in Readers, q # r
              PROVE  received'[q] = received[q] /\ Unread(q)' = Unread(q)
          BY <2>1, <3>1, <5>1
        <5>2. ASSUME NEW q \in Readers, q = r
              PROVE  /\ Unread(q)' \subseteq Appended
                     /\ received'[q] \subseteq Appended
          <6>1. Unread(q)' = Members(inbox'[r])
            BY <1>2, <5>2
          <6> QED
            BY <2>1, <5>2, <6>1
        <5> QED
          BY <5>1, <5>2, Zenon DEF InHistory
      <4>2. \A p \in Publishers : stage'[p] = "pushed" => held'[p] \in Appended
        BY <2>0 DEF InHistory
      <4>3. sent' \subseteq Appended
        BY <2>0 DEF InHistory
      <4> QED
        BY <2>0, <4>1, <4>2, <4>3 DEF InHistory
    <3>3. ASSUME NEW q \in Readers, q # r
          PROVE  /\ Len(inbox'[q]) <= Capacity
                 /\ stream'[q] = "copied" =>
                      \A n \in sent' : n >= since'[q] =>
                        n \in Unyielded(q)' \cup window'[q]
                 /\ (stream'[q] = "live" /\ ~lagged'[q]) =>
                      \A n \in sent' : n >= since'[q] =>
                        n \in received'[q] \cup Unyielded(q)' \cup Unread(q)'
                                \cup window'[q]
      BY <2>0, <2>1, <3>1, <3>3 DEF NoneLost
    <3>4. Unread(r)' = Members(inbox'[r]) /\ sent' = sent
      BY <1>2, <2>0
    <3> QED
      BY <2>1, <3>2, <3>3, <3>4 DEF NoneLost
  <2>2. Len(<<>>) <= Capacity /\ Members(<<>>) = {}
    BY LogAssumption DEF Members
  <2>3. CASE OpenStream(r)
    <3>1. PICK from : since' = [since EXCEPT ![r] = from]
      BY <2>3 DEF OpenStream
    <3>2. Unyielded(r)' = Appended
      BY <2>3 DEF OpenStream, Unyielded, Appended
    <3> QED
      BY <1>1, <2>1, <2>3, <3>1, <3>2 DEF OpenStream, InHistory, NoneLost
  <2>4. CASE Subscribe(r)
    <3>1. Unyielded(r)' = Unyielded(r)
      BY <2>4 DEF Subscribe, Unyielded
    <3> QED
      BY <1>1, <2>1, <2>4, <3>1 DEF Subscribe, InHistory, NoneLost
  <2>5. CASE Yield(r)
    <3>1. next[r] \in 1..Len(event_history)
      BY <2>5 DEF Yield, CopiesFit
    <3>2. event_history[next[r]] \in Appended
      BY <3>1 DEF Appended
    <3>3. Unyielded(r) \subseteq Unyielded(r)' \cup {event_history[next[r]]}
      BY <2>5 DEF Yield, Unyielded
    <3>4. /\ received'[r] \subseteq received[r] \cup {event_history[next[r]]}
          /\ received[r] \subseteq received'[r]
          /\ event_history[next[r]] >= since[r] =>
               event_history[next[r]] \in received'[r]
      BY <2>5 DEF Yield, Wanted
    <3>5. \A q \in Readers \ {r} : received'[q] = received[q] /\ next'[q] = next[q]
      BY <2>5 DEF Yield
    <3>6. UNCHANGED <<stream, since, upto, inbox, lagged, window>>
      BY <2>5 DEF Yield
    <3> QED
      BY <1>1, <2>1, <2>5, <3>2, <3>3, <3>4, <3>5, <3>6
      DEF Yield, InHistory, NoneLost
  <2>6. CASE Receive(r)
    <3>1. /\ Members(inbox[r]) = Members(Tail(inbox[r])) \cup {Head(inbox[r])}
          /\ Len(Tail(inbox[r])) = Len(inbox[r]) - 1
      BY <2>6, MembersOfTail, HeadTailProperties DEF Receive
    <3>2. Len(Tail(inbox[r])) <= Capacity
      BY <3>1, LogAssumption DEF NoneLost
    <3>3. Unyielded(r)' = Unyielded(r)
      BY <2>6 DEF Receive, Unyielded
    <3> QED
      BY <1>1, <2>1, <2>6, <3>1, <3>2, <3>3 DEF Receive, InHistory, NoneLost,
         Wanted
  <2>7. CASE CloseStream(r)
    BY <2>1, <2>2, <2>7 DEF CloseStream, InHistory, NoneLost
  <2> QED
    BY <1>6, <2>3, <2>4, <2>5, <2>6, <2>7 DEF ReaderStep
<1>7. CASE UNCHANGED vars
  <2>1. Appended' = Appended /\ \A r \in Readers : /\ Unread(r)' = Unread(r)
                                                 /\ Unyielded(r)' = Unyielded(r)
    BY <1>7 DEF vars, Appended, Unread, Unyielded
  <2>2. InHistory'
    BY <1>7, <2>1 DEF vars, InHistory
  <2> QED
    BY <1>7, <2>1, <2>2 DEF vars, NoneLost
<1> QED
  BY <1>3, <1>4, <1>5, <1>6, <1>7 DEF Next, PublisherStep

(* A stream that keeps up misses nothing but what was sent between its     *)
(* copy of the history and its subscription, and clients see only events   *)
(* of the history.                                                         *)
THEOREM StreamsSafe == Spec => [](MissedOnlyInWindow /\ NothingInvented)
<1>1. Init => InHistory /\ NoneLost
  <2> SUFFICES ASSUME Init PROVE InHistory /\ NoneLost
    OBVIOUS
  <2>1. \A r \in Readers : Len(inbox[r]) = 0 /\ Unread(r) = {}
    BY DEF Init, Unread, FirstSeq
  <2> QED
    BY <2>1, LogAssumption DEF Init, InHistory, NoneLost, FirstSeq
<1>2. InHistory /\ NoneLost => MissedOnlyInWindow /\ NothingInvented
  BY DEF InHistory, NoneLost, MissedOnlyInWindow, NothingInvented
<1> QED
  BY <1>1, <1>2, StreamStep, LogTypeCorrect, PTL DEF Spec

=============================================================================
