------------------------------ MODULE EventLog ------------------------------
(***************************************************************************)
(* The event log of one session: `seq_counter`, `event_history`, the       *)
(* broadcast channel, and the SSE streams that read both.                  *)
(*                                                                         *)
(* Every publisher (a turn's task, its permission prompter, the handler of *)
(* a cancel) takes a number, appends the event under the history's lock    *)
(* and sends it on the channel: three steps, with nothing held in between. *)
(* A stream copies the history first and subscribes later.  An event is    *)
(* known by its number.                                                    *)
(***************************************************************************)
EXTENDS Integers, Sequences, FiniteSets

CONSTANTS
  Publishers,  \* tasks and handlers that publish to the session
  Droppable,   \* those that are HTTP handlers: their client may hang up
  Readers,     \* SSE clients
  Capacity,    \* BROADCAST_CAPACITY
  MaxSeq       \* bound: the last number handed out

ASSUME LogAssumption ==
  /\ Capacity \in Nat \ {0}
  /\ MaxSeq \in Nat
  /\ IsFiniteSet(Publishers)
  /\ Droppable \subseteq Publishers

VARIABLES
  seq_counter,    \* next number
  stage,          \* how far each publisher's current event has come
  held,           \* the number of that event
  event_history,  \* the numbers, in the order they were appended
  sent,           \* numbers that went through the channel
  dropped,        \* numbers whose publisher was dropped before appending
  stream,         \* where each client's stream stands
  since,          \* its query parameter
  next,           \* the place in its copy of the history it yields next
  upto,           \* the length of that copy
  inbox,          \* its receiver's unread part of the channel
  lagged,         \* the channel has overwritten part of that
  received,       \* the events the client has seen, over all its streams
  window          \* events sent between the stream's copy and its subscribe

logVars    == <<seq_counter, stage, held, event_history, sent, dropped>>
readerVars == <<stream, since, next, upto, inbox, lagged, received, window>>
vars == <<logVars, readerVars>>

Numbers   == 1..MaxSeq
Appended  == {event_history[i] : i \in 1..Len(event_history)}
Unread(r) == {inbox[r][i] : i \in 1..Len(inbox[r])}
\* The history only grows, so a copy is a length and what is left of it a range.
Unyielded(r) == {event_history[i] : i \in next[r]..upto[r]}
Newest(r) == {n \in received[r] : \A m \in received[r] : m <= n}

\* Fault: the counter starts at zero.
Fault_FromZero == 0

FirstSeq == 1

Init ==
  /\ seq_counter = FirstSeq
  /\ stage = [p \in Publishers |-> "idle"]
  /\ held = [p \in Publishers |-> 0]
  /\ event_history = <<>>
  /\ sent = {}
  /\ dropped = {}
  /\ stream = [r \in Readers |-> "closed"]
  /\ since = [r \in Readers |-> 0]
  /\ next = [r \in Readers |-> 1]
  /\ upto = [r \in Readers |-> 0]
  /\ inbox = [r \in Readers |-> <<>>]
  /\ lagged = [r \in Readers |-> FALSE]
  /\ received = [r \in Readers |-> {}]
  /\ window = [r \in Readers |-> {}]

-----------------------------------------------------------------------------
(* Publishers *)

\* Fault: a load and a store instead; the store of a racing publisher is lost.
Fault_LoadStore(p) ==
  /\ stage[p] = "idle"
  /\ seq_counter <= MaxSeq
  /\ held' = [held EXCEPT ![p] = seq_counter]
  /\ seq_counter' \in {seq_counter, seq_counter + 1}
  /\ stage' = [stage EXCEPT ![p] = "numbered"]
  /\ UNCHANGED <<event_history, sent, dropped, readerVars>>

\* fetch_add, atomic.
NextSeq(p) ==
  /\ stage[p] = "idle"
  /\ seq_counter <= MaxSeq
  /\ held' = [held EXCEPT ![p] = seq_counter]
  /\ seq_counter' = seq_counter + 1
  /\ stage' = [stage EXCEPT ![p] = "numbered"]
  /\ UNCHANGED <<event_history, sent, dropped, readerVars>>

\* Fault: the event is put before the others.
Fault_PushFront(n) == <<n>> \o event_history

Extended(n) == Append(event_history, n)

\* publish, first half: push under the history's write lock.
Push(p) ==
  /\ stage[p] = "numbered"
  /\ event_history' = Extended(held[p])
  /\ stage' = [stage EXCEPT ![p] = "pushed"]
  /\ UNCHANGED <<seq_counter, held, sent, dropped, readerVars>>

\* A full receiver loses its oldest unread event.
Enqueue(q, n) ==
  IF Len(q) < Capacity THEN Append(q, n) ELSE Append(Tail(q), n)

Recorded(p) == stage[p] = "pushed"

\* publish, second half: every subscribed receiver gets the event.
Send(p) ==
  /\ Recorded(p)
  /\ stage' = [stage EXCEPT ![p] = "idle"]
  /\ sent' = sent \cup {held[p]}
  /\ inbox' = [r \in Readers |-> IF stream[r] = "live"
                                 THEN Enqueue(inbox[r], held[p]) ELSE inbox[r]]
  /\ lagged' = [r \in Readers |->
                  lagged[r] \/ (stream[r] = "live" /\ Len(inbox[r]) = Capacity)]
  /\ window' = [r \in Readers |-> IF stream[r] = "copied"
                                  THEN window[r] \cup {held[p]} ELSE window[r]]
  /\ UNCHANGED <<seq_counter, held, event_history, dropped, stream, since,
                 next, upto, received>>

AwaitsHistory(p) == stage[p] = "numbered"

\* The handler's future is dropped while it awaits the history's lock.
DropPublisher(p) ==
  /\ p \in Droppable
  /\ AwaitsHistory(p)
  /\ stage' = [stage EXCEPT ![p] = "idle"]
  /\ dropped' = dropped \cup {held[p]}
  /\ UNCHANGED <<seq_counter, held, event_history, sent, readerVars>>

-----------------------------------------------------------------------------
(* stream_events *)

\* Fault: the filter leaves out the event asked for first.
Fault_After(n, from) == n > from

Wanted(n, from) == n >= from

\* A client asks for everything, or for what follows the last event it has
\* seen.  The history is copied under the read lock, which is then released.
OpenStream(r) ==
  /\ stream[r] = "closed"
  /\ \E from \in {0} \cup {n + 1 : n \in Newest(r)} :
       since' = [since EXCEPT ![r] = from]
  /\ next' = [next EXCEPT ![r] = 1]
  /\ upto' = [upto EXCEPT ![r] = Len(event_history)]
  /\ stream' = [stream EXCEPT ![r] = "copied"]
  /\ UNCHANGED <<logVars, inbox, lagged, received, window>>

\* The snapshot has been taken under the state's lock; the receiver starts
\* empty.
Subscribe(r) ==
  /\ stream[r] = "copied"
  /\ stream' = [stream EXCEPT ![r] = "live"]
  /\ UNCHANGED <<logVars, since, next, upto, inbox, lagged, received, window>>

\* The copy is yielded in the order of the history, before any live event.
Yield(r) ==
  /\ stream[r] = "live"
  /\ next[r] <= upto[r]
  /\ next' = [next EXCEPT ![r] = @ + 1]
  /\ received' = [received EXCEPT ![r] =
                    @ \cup {n \in {event_history[next[r]]} : Wanted(n, since[r])}]
  /\ UNCHANGED <<logVars, stream, since, upto, inbox, lagged, window>>

\* A live event below `since` is skipped; the error of a lagging receiver is
\* ignored.
Receive(r) ==
  /\ stream[r] = "live"
  /\ next[r] > upto[r]
  /\ inbox[r] # <<>>
  /\ inbox' = [inbox EXCEPT ![r] = Tail(@)]
  /\ received' = [received EXCEPT
                    ![r] = @ \cup {n \in {Head(inbox[r])} : Wanted(n, since[r])}]
  /\ UNCHANGED <<logVars, stream, since, next, upto, lagged, window>>

\* The client leaves; what it has seen it remembers.
CloseStream(r) ==
  /\ stream[r] # "closed"
  /\ stream' = [stream EXCEPT ![r] = "closed"]
  /\ since' = [since EXCEPT ![r] = 0]
  /\ next' = [next EXCEPT ![r] = 1]
  /\ upto' = [upto EXCEPT ![r] = 0]
  /\ inbox' = [inbox EXCEPT ![r] = <<>>]
  /\ lagged' = [lagged EXCEPT ![r] = FALSE]
  /\ window' = [window EXCEPT ![r] = {}]
  /\ UNCHANGED <<logVars, received>>

-----------------------------------------------------------------------------
PublisherStep(p) == NextSeq(p) \/ Push(p) \/ Send(p) \/ DropPublisher(p)
ReaderStep(r)    == \/ OpenStream(r) \/ Subscribe(r)
                    \/ Yield(r) \/ Receive(r) \/ CloseStream(r)

Next == \/ \E p \in Publishers : PublisherStep(p)
        \/ \E r \in Readers : ReaderStep(r)

Spec == Init /\ [][Next]_vars

(***************************************************************************)
(* A task that has a number appends and sends (the lock is held for a push *)
(* only); a stream whose client stays is polled.  Nothing makes a task     *)
(* publish again or a client connect.                                      *)
(***************************************************************************)
Fairness ==
  /\ \A p \in Publishers : WF_vars(Push(p) \/ Send(p))
  /\ \A r \in Readers : WF_vars(Subscribe(r) \/ Yield(r) \/ Receive(r))

FairSpec == Spec /\ Fairness

-----------------------------------------------------------------------------
(* Properties *)

TypeOK ==
  /\ seq_counter \in 1..(MaxSeq + 1)
  /\ stage \in [Publishers -> {"idle", "numbered", "pushed"}]
  /\ held \in [Publishers -> 0..MaxSeq]
  /\ event_history \in Seq(Numbers)
  /\ sent \subseteq Numbers
  /\ dropped \subseteq Numbers
  /\ stream \in [Readers -> {"closed", "copied", "live"}]
  /\ since \in [Readers -> 0..(MaxSeq + 1)]
  /\ next \in [Readers -> Nat \ {0}]
  /\ upto \in [Readers -> Nat]
  /\ inbox \in [Readers -> Seq(Numbers)]
  /\ lagged \in [Readers -> BOOLEAN]
  /\ received \in [Readers -> SUBSET Numbers]
  /\ window \in [Readers -> SUBSET Numbers]

InFlight == {held[p] : p \in {q \in Publishers : stage[q] = "numbered"}}

\* The history never holds a number twice, and every number handed out is in
\* the history, on its way there, or died with a dropped handler: a hole in
\* the history is one of the last two.
NumbersAccountedFor ==
  /\ 1..(seq_counter - 1) = Appended \cup InFlight \cup dropped
  /\ Appended \cap (InFlight \cup dropped) = {}
  /\ \A i, j \in 1..Len(event_history) :
       event_history[i] = event_history[j] => i = j

\* Appending out of order is bounded: behind any event, no more smaller
\* numbers can follow than there are other publishers.
OvertakingBounded ==
  \A i \in 1..Len(event_history) :
    Cardinality({j \in i..Len(event_history) :
                   event_history[j] < event_history[i]})
      < Cardinality(Publishers)

\* A live stream that has kept up has, or will read, every event it asked for
\* that was sent, but for those sent between its copy of the history and its
\* subscription to the channel.
MissedOnlyInWindow ==
  \A r \in Readers :
    (stream[r] = "live" /\ ~lagged[r]) =>
      \A n \in sent : n >= since[r] =>
        n \in received[r] \cup Unyielded(r) \cup Unread(r) \cup window[r]

\* A client never sees an event that is not in the history.
NothingInvented == \A r \in Readers : received[r] \subseteq Appended

\* What a stream has copied or its receiver holds is read, unless the client
\* leaves or the receiver lags.
UnreadIsRead ==
  \A r \in Readers, n \in Numbers :
    (stream[r] = "live" /\ n \in Unyielded(r) \cup Unread(r) /\ n >= since[r])
      ~> (n \in received[r] \/ stream[r] # "live" \/ lagged[r])

\* (stated in streaming.rs: "`seq` is monotonic per session") The history is
\* in the order of its numbers.
HistoryInSeqOrder ==
  \A i, j \in 1..Len(event_history) :
    i < j => event_history[i] < event_history[j]

\* (stated in session_store.rs: receivers that lag "can recover via ?since=N
\* against event_history") A stream that has kept up misses nothing it asked
\* for.
SinceRecovers ==
  \A r \in Readers :
    (stream[r] = "live" /\ ~lagged[r]) =>
      \A n \in sent : n >= since[r] =>
        n \in received[r] \cup Unyielded(r) \cup Unread(r)

=============================================================================
