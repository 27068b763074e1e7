------------------------- MODULE ConversationStream -------------------------
(***************************************************************************)
(* A conversation of the hosted service (server/src/routes/messages.rs,    *)
(* AppState::get_or_create_channel in state.rs, the tables in db/).        *)
(*                                                                         *)
(* A POST stores the user's message, reads the history back and starts a   *)
(* generation; nothing keeps two generations of one conversation apart.    *)
(* All of them send to the one broadcast channel of the conversation, and  *)
(* every open event stream reads it until the first end it meets.  What    *)
(* goes through a channel is text: an end is told by what it reads, and so *)
(* may be a piece of an answer.                                            *)
(***************************************************************************)
EXTENDS Naturals, Sequences

CONSTANTS Posts,      \* messages posted to the conversation
          Streams,    \* event streams opened on it
          Plain,      \* those answered in ASCII that nowhere reads as an end
          MaxChunks,  \* pieces of 80 bytes of an answer
          Capacity    \* of a broadcast channel

VARIABLES rows,      \* the messages table, whose order is left out
          channels,  \* the channels ever created, each the sequence of what was sent
          entry,     \* the channel in conversation_channels, or NoChannel
          post,      \* the POST handler, then the generation it started
          stream,    \* the stream handler, then the stream
          overlaps   \* history: generations that were not alone

vars == <<rows, channels, entry, post, stream, overlaps>>

NoChannel == 0
Piece(p, i, reads) == [reads |-> reads, post |-> p, chunk |-> i]
Error(p) == [reads |-> "end", post |-> p, chunk |-> 0]
Done(p) == [reads |-> "end", post |-> p, chunk |-> 0]
IsEnd(msg) == msg.reads = "end"

Init ==
  /\ rows = {}
  /\ channels = <<>>
  /\ entry = NoChannel
  /\ post = [p \in Posts |-> [phase |-> "none", channel |-> NoChannel, pieces |-> <<>>, sent |-> 0]]
  /\ stream = [s \in Streams |-> [phase |-> "none", channel |-> NoChannel, next |-> 1, got |-> <<>>,
                             lagged |-> FALSE]]
  /\ overlaps = {}

-----------------------------------------------------------------------------
(* get_or_create_channel: a look under the read lock, and for who finds     *)
(* nothing a second one under the write lock.                              *)

Missed(h) == h.phase = "looking" /\ entry = NoChannel
Found(h) == h.phase = "looking" /\ entry # NoChannel

\* Fault: no second look under the write lock.
Fault_AlwaysNew == entry' = Len(channels) + 1 /\ channels' = Append(channels, <<>>)

OrInsert ==
  IF entry = NoChannel
    THEN entry' = Len(channels) + 1 /\ channels' = Append(channels, <<>>)
    ELSE UNCHANGED <<entry, channels>>

-----------------------------------------------------------------------------
(* send_message and generate_ai_response                                   *)

Generating(p) == post[p].phase \in {"generating", "sending", "storing", "closing"}

\* The handler goes on to spawn the generation with the channel it got.
Spawn(p, channel) ==
  /\ post' = [post EXCEPT ![p].phase = "generating", ![p].channel = channel]
  /\ overlaps' = overlaps \cup (IF \E q \in Posts : Generating(q)
                                  THEN {p} \cup {q \in Posts : Generating(q)} ELSE {})

InsertQuestion(p) ==
  /\ post[p].phase = "none"
  /\ rows' = rows \cup {[role |-> "user", post |-> p]}
  /\ post' = [post EXCEPT ![p].phase = "looking"]
  /\ UNCHANGED <<channels, entry, stream, overlaps>>

\* The history is not read for a database error, or the client leaves and the
\* handler is dropped: the question stays, unanswered.
Abandon(p) ==
  /\ post[p].phase \in {"looking", "creating"}
  /\ post' = [post EXCEPT ![p].phase = "over"]
  /\ UNCHANGED <<rows, channels, entry, stream, overlaps>>

PostLooks(p) ==
  /\ \/ Found(post[p]) /\ Spawn(p, entry)
     \/ Missed(post[p]) /\ post' = [post EXCEPT ![p].phase = "creating"] /\ UNCHANGED overlaps
  /\ UNCHANGED <<rows, channels, entry, stream>>

PostCreates(p) ==
  /\ post[p].phase = "creating"
  /\ OrInsert
  /\ Spawn(p, entry')
  /\ UNCHANGED <<rows, stream>>

SendTo(p, msg) == channels' = [channels EXCEPT ![post[p].channel] = Append(@, msg)]

\* No provider for the model, or an empty answer: the error is all that is sent.
FailEarly(p) ==
  /\ post[p].phase = "generating"
  /\ SendTo(p, Error(p))
  /\ post' = [post EXCEPT ![p].phase = "over"]
  /\ UNCHANGED <<rows, entry, stream, overlaps>>

\* An error of the API is followed by the end that an answer has.
FailLate(p) ==
  /\ post[p].phase = "generating"
  /\ SendTo(p, Error(p))
  /\ post' = [post EXCEPT ![p].phase = "closing"]
  /\ UNCHANGED <<rows, entry, stream, overlaps>>

\* What the n pieces of an answer say: any may begin with __error__:, and the
\* last, which may be shorter than 80 bytes, be __done__.
Says(p, n) == [1..n -> IF p \in Plain THEN {"text"} ELSE {"text", "end"}]

\* The pieces behind which the cut goes through a character.
Splits(p, n) == IF p \in Plain THEN {{}} ELSE SUBSET (1..(n - 1))

\* from_utf8_lossy: a cut within a character garbles the end of one piece and
\* the beginning of the next.
Lossy(says, split) ==
  [i \in DOMAIN says |->
     IF i - 1 \in split \/ (i \in split /\ says[i] = "text") THEN "garbled" ELSE says[i]]

Answer(p) ==
  /\ post[p].phase = "generating"
  /\ \E n \in 1..MaxChunks :
       \E says \in Says(p, n), split \in Splits(p, n) :
         post' = [post EXCEPT ![p].phase = "sending", ![p].pieces = Lossy(says, split)]
  /\ UNCHANGED <<rows, channels, entry, stream, overlaps>>

\* Fault: the last of several pieces is not sent.
Fault_LastPieceDropped(p) ==
  /\ post[p].phase = "sending"
  /\ LET i == post[p].sent + 1
     IN /\ SendTo(p, Piece(p, i, post[p].pieces[i]))
        /\ post' = [post EXCEPT ![p].sent = i,
                                ![p].phase = IF i + 1 >= Len(post[p].pieces) THEN "storing" ELSE @]
  /\ UNCHANGED <<rows, entry, stream, overlaps>>

SendChunk(p) ==
  /\ post[p].phase = "sending"
  /\ LET i == post[p].sent + 1
     IN /\ SendTo(p, Piece(p, i, post[p].pieces[i]))
        /\ post' = [post EXCEPT ![p].sent = i,
                                ![p].phase = IF i = Len(post[p].pieces) THEN "storing" ELSE @]
  /\ UNCHANGED <<rows, entry, stream, overlaps>>

\* An error of the database is dropped.
StoreAnswer(p) ==
  /\ post[p].phase = "storing"
  /\ rows' \in {rows, rows \cup {[role |-> "assistant", post |-> p]}}
  /\ post' = [post EXCEPT ![p].phase = "closing"]
  /\ UNCHANGED <<channels, entry, stream, overlaps>>

SendDone(p) ==
  /\ post[p].phase = "closing"
  /\ SendTo(p, Done(p))
  /\ post' = [post EXCEPT ![p].phase = "over"]
  /\ UNCHANGED <<rows, entry, stream, overlaps>>

Generate(p) ==
  FailEarly(p) \/ FailLate(p) \/ Answer(p) \/ SendChunk(p) \/ StoreAnswer(p) \/ SendDone(p)

-----------------------------------------------------------------------------
(* stream_events                                                           *)

Subscribe(s, channel) ==
  stream' = [stream EXCEPT ![s].phase = "open", ![s].channel = channel,
                           ![s].next = Len(channels'[channel]) + 1]

Open(s) ==
  /\ stream[s].phase = "none"
  /\ stream' = [stream EXCEPT ![s].phase = "looking"]
  /\ UNCHANGED <<rows, channels, entry, post, overlaps>>

StreamLooks(s) ==
  /\ UNCHANGED channels
  /\ \/ Found(stream[s]) /\ Subscribe(s, entry)
     \/ Missed(stream[s]) /\ stream' = [stream EXCEPT ![s].phase = "creating"]
  /\ UNCHANGED <<rows, entry, post, overlaps>>

StreamCreates(s) ==
  /\ stream[s].phase = "creating"
  /\ OrInsert
  /\ Subscribe(s, entry')
  /\ UNCHANGED <<rows, post, overlaps>>

\* recv: a receiver that lags is moved to the oldest message that is kept.  The
\* text of a message alone tells whether it is an end.
Receive(s) ==
  /\ stream[s].phase = "open"
  /\ LET log == channels[stream[s].channel]
         lags == Len(log) - stream[s].next >= Capacity
         at == IF lags THEN Len(log) - Capacity + 1 ELSE stream[s].next
     IN /\ at <= Len(log)
        /\ stream' = [stream EXCEPT ![s].next = at + 1,
                                    ![s].got = Append(@, log[at]),
                                    ![s].lagged = @ \/ lags,
                                    ![s].phase = IF IsEnd(log[at]) THEN "ended" ELSE "open"]
  /\ UNCHANGED <<rows, channels, entry, post, overlaps>>

Next ==
  \/ \E p \in Posts :
       InsertQuestion(p) \/ Abandon(p) \/ PostLooks(p) \/ PostCreates(p) \/ Generate(p)
  \/ \E s \in Streams : Open(s) \/ StreamLooks(s) \/ StreamCreates(s) \/ Receive(s)

Spec == Init /\ [][Next]_vars

\* The provider answers or fails, the tasks run on, and the client reads.
Fairness ==
  /\ \A p \in Posts : WF_vars(Generate(p))
  /\ \A s \in Streams : WF_vars(Receive(s))

FairSpec == Spec /\ Fairness

-----------------------------------------------------------------------------
(* Properties.                                                             *)

TypeOK ==
  /\ entry \in 0..Len(channels)
  /\ \A p \in Posts : post[p].channel \in 0..Len(channels) /\ post[p].sent \in 0..MaxChunks
  /\ \A s \in Streams : stream[s].channel \in 0..Len(channels)

\* What p sends as its i-th message.
Message(p, i) ==
  IF i <= Len(post[p].pieces) THEN Piece(p, i, post[p].pieces[i]) ELSE Done(p)

\* A stream that ended and began with the first piece of an answer has shown
\* the pieces of that answer, all of them in their order and nothing else, up
\* to the first that reads as an end: its own end, unless a piece of it says
\* __done__ or begins with __error__:, which cuts the answer off.  A character
\* that a cut goes through is shown garbled.  Excepted are generations that
\* overlapped and clients that fell behind by a channel.
WholeAnswer ==
  \A s \in Streams :
    LET got == stream[s].got
        p == got[1].post
    IN stream[s].phase = "ended" /\ got[1].chunk = 1 /\ p \notin overlaps /\ ~stream[s].lagged
       => /\ got = [i \in 1..Len(got) |-> Message(p, i)]
          /\ \A i \in 1..Len(got) : IsEnd(got[i]) <=> i = Len(got)

\* A stream open while a generation is under way ends, whoever of the two
\* asked for the channel first and however far the client falls behind.
StreamEnds ==
  \A s \in Streams :
    stream[s].phase = "open" /\ (\E p \in Posts : Generating(p)) ~> stream[s].phase = "ended"
=============================================================================
