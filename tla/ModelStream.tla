----------------------------- MODULE ModelStream -----------------------------
(***************************************************************************)
(* An answer streamed by an OpenAI-compatible provider, from the chunks    *)
(* that arrive to the tool calls the agent loop is given.                  *)
(*                                                                         *)
(* StreamState (api/src/providers/openai_compat.rs) turns chunks into the  *)
(* events of another API, in which calls are blocks that start, grow and   *)
(* stop.  Three routes lead on: a sub-agent (tools/src/lib.rs) keeps its   *)
(* unfinished calls by block, the terminal (elai-cli/src/main.rs) has room *)
(* for one, and the orchestrator (api/src/orchestrator/provider.rs)        *)
(* collects the whole answer and replays it to the terminal as a stream    *)
(* (CollectedMessageStream, api/src/client.rs).                            *)
(*                                                                         *)
(* The arguments of a call are the sequence of their pieces.  What is said *)
(* beside the calls, text or thinking, is a block without content.         *)
(***************************************************************************)
EXTENDS Integers, FiniteSets, Sequences, SequencesExt

CONSTANTS Calls,      \* a set of numbers: the blocks of the calls
          MaxPieces,  \* pieces the arguments of a call come in
          MaxChunks   \* chunks of an answer

Talk == {0, 999}      \* the blocks of text and thinking
Nothing == 0
Routes == {"agent", "terminal", "orchestrated"}

VARIABLES route,   \* who reads the answer
          whole,   \* the number of pieces of each call
          chunks,  \* chunks received
          state,   \* StreamState, with the queue of events not yet taken
          reader,  \* the calls the reader of the events has open and has passed on,
                   \* and, as history, the blocks open and whether two ever were
          result   \* how the call of stream() ends

vars == <<route, whole, chunks, state, reader, result>>

NewReader == [open |-> {}, uses |-> <<>>, saw_stop |-> FALSE, blocks |-> {}, crowded |-> FALSE]

Init ==
  /\ route \in Routes
  /\ whole \in [Calls -> 0..MaxPieces]
  /\ chunks = 0
  /\ state = [message_started |-> FALSE,
              phase |-> [b \in Talk |-> "Idle"],
              calls |-> [c \in Calls |-> [named |-> FALSE, args |-> <<>>, emitted |-> 0,
                                          started |-> FALSE, stopped |-> FALSE]],
              stop_reason |-> "none",
              events |-> <<>>]
  /\ reader = NewReader
  /\ result = "none"

-----------------------------------------------------------------------------
(* StreamState::ingest_chunk and finish.                                   *)

MessageStart(content) == [kind |-> "message_start", content |-> content]
Start(b, args) == [kind |-> "start", block |-> b, args |-> args]
Delta(b, args) == [kind |-> "delta", block |-> b, args |-> args]
BlockStop(b) == [kind |-> "stop", block |-> b]
MessageStop == [kind |-> "message_stop"]

Emit(s, e) == [s EXCEPT !.events = Append(@, e)]

StartMessage(s) ==
  IF s.message_started THEN s
  ELSE Emit([s EXCEPT !.message_started = TRUE], MessageStart(<<>>))

Say(s, b) ==
  LET opened == IF s.phase[b] = "Idle"
                  THEN Emit([s EXCEPT !.phase[b] = "Active"], Start(b, <<>>)) ELSE s
  IN Emit(opened, Delta(b, <<>>))

\* A call without a name cannot start, and keeps what has come.
StartCall(s, c) ==
  IF s.calls[c].named /\ ~s.calls[c].started
    THEN Emit([s EXCEPT !.calls[c].started = TRUE], Start(c, <<>>)) ELSE s

\* ToolCallState::delta_event: what was not yet passed on
FlushArgs(s, c) ==
  LET args == s.calls[c].args
      emitted == s.calls[c].emitted
  IN IF emitted >= Len(args) THEN s
     ELSE Emit([s EXCEPT !.calls[c].emitted = Len(args)],
               Delta(c, SubSeq(args, emitted + 1, Len(args))))

StopCall(s, c) ==
  IF s.calls[c].started /\ ~s.calls[c].stopped
    THEN Emit([s EXCEPT !.calls[c].stopped = TRUE], BlockStop(c)) ELSE s

CallDelta(s, d, finish) ==
  LET applied == [s EXCEPT !.calls[d.call].named = @ \/ d.names,
                           !.calls[d.call].args = @ \o d.args]
      begun == StartCall(applied, d.call)
      told == FlushArgs(begun, d.call)
  IN IF ~begun.calls[d.call].started THEN begun
     ELSE IF finish = "tool_calls" THEN StopCall(told, d.call) ELSE told

\* The numbers of a set from the smallest up.
InOrder(S) == [i \in 1..Cardinality(S) |-> CHOOSE c \in S : Cardinality({d \in S : d < c}) = i - 1]

\* BTreeMap::values_mut goes by index.
CallsInOrder == InOrder(Calls)

\* Of all reasons to finish only "tool_calls" closes the calls at once.
Ingest(s, chunk) ==
  LET said == FoldLeft(Say, StartMessage(s), chunk.talk)
      called == FoldLeft(LAMBDA acc, d : CallDelta(acc, d, chunk.finish), said, chunk.deltas)
      reasoned == IF chunk.finish = "none" THEN called
                  ELSE [called EXCEPT !.stop_reason = chunk.finish]
  IN IF chunk.finish = "tool_calls" THEN FoldLeft(StopCall, reasoned, CallsInOrder)
     ELSE reasoned

StopTalk(s, b) ==
  IF s.phase[b] = "Active" THEN Emit([s EXCEPT !.phase[b] = "Closed"], BlockStop(b)) ELSE s

CloseCall(s, c) ==
  LET begun == StartCall(s, c)
  IN StopCall(IF begun.calls[c].started THEN FlushArgs(begun, c) ELSE begun, c)

Finish(s) ==
  LET quiet == StopTalk(StopTalk(s, 999), 0)
      closed == FoldLeft(CloseCall, quiet, CallsInOrder)
  IN IF s.message_started THEN Emit(closed, MessageStop) ELSE closed

-----------------------------------------------------------------------------
(* The readers.                                                            *)

\* Fault: every reader has one slot.
Fault_OneSlot(by, b) == Nothing

\* Where a reader keeps the call of a block: the terminal has one slot.
Slot(by, b) == IF by = "slot" THEN Nothing ELSE b

\* push_output_block: a call takes the place of the one that is kept there.
PushOutputBlock(by, r, b, args) ==
  IF b \in Talk THEN r
  ELSE [r EXCEPT !.open = {u \in @ : Slot(by, u.block) # Slot(by, b)}
                            \cup {[block |-> b, args |-> args]}]

\* The loop of DefaultRuntimeClient::stream, record_api_stream_event and
\* collect_stream_events, for the events about calls.
Read(by, r, e) ==
  CASE e.kind = "message_start" ->
         FoldLeft(LAMBDA acc, c : PushOutputBlock(by, acc, c.block, c.args), r, e.content)
    [] e.kind = "start" ->
         [PushOutputBlock(by, r, e.block, e.args) EXCEPT
            !.crowded = @ \/ (e.block \notin Talk /\ r.blocks # {}),
            !.blocks = @ \cup ({e.block} \ Talk)]
    [] e.kind = "delta" /\ e.block \in Talk -> r
    [] e.kind = "delta" /\ e.block \notin Talk ->
         [r EXCEPT !.open = {IF Slot(by, u.block) = Slot(by, e.block)
                               THEN [u EXCEPT !.args = @ \o e.args] ELSE u : u \in @}]
    [] e.kind = "stop" ->
         LET taken == {u \in r.open : Slot(by, u.block) = Slot(by, e.block)}
         IN [r EXCEPT !.open = @ \ taken, !.uses = @ \o SetToSeq(taken), !.blocks = @ \ {e.block}]
    [] e.kind = "message_stop" -> [r EXCEPT !.saw_stop = TRUE]

By == IF route = "terminal" THEN "slot" ELSE "map"

ReadAll(by, r, events) == FoldLeft(LAMBDA acc, e : Read(by, acc, e), r, events)

\* collect_stream_events: thinking, text, the calls in the order of their
\* blocks.  Arguments that do not parse become the empty object.
Said(b) == IF state.phase[b] = "Idle" THEN <<>> ELSE <<[block |-> b, args |-> <<>>]>>

Parsed(u) == IF Len(u.args) = whole[u.block] THEN u ELSE [u EXCEPT !.args = <<>>]

Collected(r) ==
  LET uses == ToSet(r.uses)
      order == InOrder({u.block : u \in uses})
  IN Said(999) \o Said(0)
       \o [i \in DOMAIN order |-> Parsed(CHOOSE u \in uses : u.block = order[i])]

\* CollectedMessageStream::from_response: the content goes with the start of
\* the message, and once more block by block.
Replay(content) ==
  <<MessageStart(content)>>
    \o [i \in 1..(2 * Len(content)) |->
          LET c == content[(i + 1) \div 2]
          IN IF i % 2 = 1 THEN Start(c.block, c.args) ELSE BlockStop(c.block)]
    \o <<MessageStop>>

-----------------------------------------------------------------------------
(* What arrives.  A provider names a call once, with its first piece or    *)
(* later, and is done with the calls when it gives a reason to finish.     *)

Deltas(c) ==
  {[call |-> c, names |-> names, args |-> args] :
     names \in {FALSE, ~state.calls[c].named},
     args \in {<<>>, SubSeq(<<Len(state.calls[c].args) + 1>>, 1,
                            IF Len(state.calls[c].args) < whole[c] THEN 1 ELSE 0)}}

DeltaSeqs ==
  LET all == UNION {Deltas(c) : c \in Calls}
  IN {<<>>} \cup {<<d>> : d \in all} \cup {ds \in all \X all : ds[1].call # ds[2].call}

Take(s) ==
  /\ state' = [s EXCEPT !.events = <<>>]
  /\ reader' = ReadAll(By, reader, s.events)

Chunk ==
  /\ result = "none"
  /\ chunks < MaxChunks
  /\ state.stop_reason = "none"
  /\ chunks' = chunks + 1
  /\ \E talk \in {<<>>, <<999>>, <<0>>}, deltas \in DeltaSeqs, finish \in {"none", "tool_calls", "stop"} :
       Take(Ingest(state, [talk |-> talk, deltas |-> deltas, finish |-> finish]))
  /\ UNCHANGED <<route, whole, result>>

\* The body ends, with or without a reason to finish.  A stream without an end
\* makes the reader ask again without streaming; an answer that was collected
\* always has one.
BodyEnds ==
  /\ result = "none"
  /\ LET s == Finish(state)
         live == ReadAll(By, reader, s.events)
         last == IF route = "orchestrated" THEN ReadAll("slot", NewReader, Replay(Collected(live)))
                 ELSE live
     IN /\ state' = [s EXCEPT !.events = <<>>]
        /\ reader' = last
        /\ result' = IF last.saw_stop THEN "ok" ELSE "asks_again"
  /\ UNCHANGED <<route, whole, chunks>>

\* chunk() fails: what was read is dropped.
BodyBreaks ==
  /\ result = "none"
  /\ result' = "error"
  /\ reader' = NewReader
  /\ UNCHANGED <<route, whole, chunks, state>>

Next == Chunk \/ BodyEnds \/ BodyBreaks

Spec == Init /\ [][Next]_vars

-----------------------------------------------------------------------------
(* Properties.                                                             *)

Pieces(n) == [i \in 1..n |-> i]

TypeOK ==
  /\ route \in Routes
  /\ chunks \in 0..MaxChunks
  /\ result \in {"none", "ok", "asks_again", "error"}
  /\ \A c \in Calls : state.calls[c].emitted \in 0..Len(state.calls[c].args)
  /\ \A i \in DOMAIN reader.uses : reader.uses[i].block \in Calls

\* However a provider cuts the calls of an answer into chunks, mixes them, and
\* delays their names, the agent loop is given each call that has a name, once
\* and with all its arguments that came.  The terminal gives the same when no
\* two calls were open at a time; for its single slot the second would take
\* the place of the first.  Behind the orchestrator arguments come whole or
\* not at all, and a call in an answer that also says something is given
\* twice if it is the last.
CallsArrive ==
  result = "ok" =>
    LET named == {c \in Calls : state.calls[c].named}
        uses == ToSet(reader.uses)
        times(c) == Cardinality({i \in DOMAIN reader.uses : reader.uses[i].block = c})
    IN \/ route = "terminal" /\ reader.crowded
       \/ /\ {u.block : u \in uses} = named
          /\ \A u \in uses :
               LET came == Len(state.calls[u.block].args)
               IN u.args = Pieces(IF route # "orchestrated" \/ came = whole[u.block] THEN came ELSE 0)
          /\ \A c \in named :
               times(c) = IF /\ route = "orchestrated"
                             /\ \E b \in Talk : state.phase[b] # "Idle"
                             /\ \A d \in named : d <= c
                          THEN 2 ELSE 1
=============================================================================
