-------------------------- MODULE LspClient_proofs --------------------------
(***************************************************************************)
(* Proofs about LspClient, for any calls and any numbers of requests.      *)
(***************************************************************************)
EXTENDS LspClient, TLAPS

Places ==
  {"none", "check", "send_open", "insert", "bump", "send_change", "send_close", "remove",
   "register", "ask", "await", "exit", "over"}
CallState == [kind : Kinds \cup {"none"}, at : Places, number : Nat, late : BOOLEAN]
Message == [method : {"didOpen", "didChange", "didClose", "request"}, number : Nat]
Ids == 1..(next_request_id - 1)

Shape ==
  /\ open_document \in Nat
  /\ next_request_id \in Nat \ {0}
  /\ pending \subseteq Ids
  /\ call \in [Callers -> CallState]
  /\ stdin \in Seq(Message)
  /\ server \in [alive : BOOLEAN, version : Nat, unanswered : SUBSET Ids, interjected : BOOLEAN]
  /\ reader \in {"reading", "over", "failed"}
  /\ clashed \subseteq {"opening", "changing", "closing"}

\* Numbers of requests have been given out, versions are those of the messages.
Numbers ==
  /\ \A i \in DOMAIN stdin :
       /\ stdin[i].method = "request" => stdin[i].number \in Ids
       /\ stdin[i].method = "didOpen" => stdin[i].number = 1
       /\ stdin[i].method = "didClose" => stdin[i].number = Closed
       /\ stdin[i].method = "didChange" => stdin[i].number # Closed
  /\ \A c \in Callers :
       /\ At(c, "ask") => call[c].number \in Ids
       /\ At(c, "send_change") => call[c].number # Closed

\* Whether the document is open once the server has read everything.
OpenInEnd ==
  \/ \E i \in DOMAIN stdin :
       stdin[i].method = "didOpen" /\ \A j \in (i + 1)..Len(stdin) : stdin[j].method # "didClose"
  \/ server.version # Closed /\ \A i \in DOMAIN stdin : stdin[i].method # "didClose"

ClosedInEnd ==
  \/ \E i \in DOMAIN stdin :
       stdin[i].method = "didClose" /\ \A j \in (i + 1)..Len(stdin) : stdin[j].method # "didOpen"
  \/ server.version = Closed /\ \A i \in DOMAIN stdin : stdin[i].method # "didOpen"

Resets(msg) == msg.method \in {"didOpen", "didClose"}

\* The version once the server has read everything is at most n.
Bounded(n) ==
  /\ \A i \in DOMAIN stdin :
       stdin[i].method # "request" /\ (\A j \in (i + 1)..Len(stdin) : ~Resets(stdin[j]))
         => stdin[i].number <= n
  /\ (\A i \in DOMAIN stdin : ~Resets(stdin[i])) => server.version <= n

Settled == \A c \in Callers : ~At(c, "insert") /\ ~At(c, "remove")

\* As long as no close overlapped.
Agreement ==
  server.alive /\ "closing" \notin clashed =>
    /\ \A c \in Callers : At(c, "insert") => OpenInEnd
    /\ \A c \in Callers : At(c, "remove") =>
         ClosedInEnd /\ \A d \in Callers \ {c} : ~At(d, "insert") /\ ~At(d, "remove")
    /\ \A c \in Callers : At(c, "bump") => open_document # Closed
    /\ Settled => IF open_document = Closed THEN ClosedInEnd ELSE OpenInEnd

\* As long as no opening overlapped, either.
Versions ==
  server.alive /\ "closing" \notin clashed /\ "opening" \notin clashed =>
    /\ \A c \in Callers : At(c, "insert") => Bounded(1)
    /\ \A c \in Callers : At(c, "remove") => Bounded(Closed)
    /\ \A c \in Callers : At(c, "send_change") => call[c].number <= open_document
    /\ Settled => Bounded(open_document)

IInv == Shape /\ Numbers /\ Agreement /\ Versions

-----------------------------------------------------------------------------

\* The places at which a call is at the document.
LEMMA DoingPlaces ==
  ASSUME NEW c \in Callers
  PROVE  /\ Doing(c) = "opening" <=> At(c, "send_open") \/ At(c, "insert")
         /\ Doing(c) = "changing" <=> At(c, "bump") \/ At(c, "send_change")
         /\ Doing(c) = "closing" <=> At(c, "send_close") \/ At(c, "remove")
         /\ Doing(c) \in {"opening", "changing", "closing", "none"}
BY DEF Doing, At

\* What it means that a step at the document spoils nothing.
LEMMA NoClash ==
  ASSUME NEW c \in Callers, Clash(c)
  PROVE  /\ clashed \subseteq clashed'
         /\ \A kind \in {"opening", "changing", "closing"} :
              kind \notin clashed' =>
                /\ \A d \in Callers \ {c} : Doing(d) # kind
                /\ Doing(c) = kind => \A d \in Callers \ {c} : Doing(d) = "none"
         /\ clashed \subseteq {"opening", "changing", "closing"} /\ Doing(c) # "none" =>
              clashed' \subseteq {"opening", "changing", "closing"}
<1> DEFINE others == {Doing(d) : d \in Callers \ {c}} \ {"none"}
<1>1. clashed' = IF others = {} THEN clashed ELSE clashed \cup others \cup {Doing(c)}
  BY DEF Clash
<1>2. \A d \in Callers \ {c} : Doing(d) = "none" \/ Doing(d) \in others
  OBVIOUS
<1>3. others \subseteq {"opening", "changing", "closing"}
  BY DoingPlaces
<1> HIDE DEF others
<1> QED
  BY <1>1, <1>2, <1>3, DoingPlaces

\* A step that leaves the document, the pipe and the calls at the document
\* alone.
LEMMA Frame ==
  ASSUME IInv, UNCHANGED <<open_document, stdin>>, server'.version = server.version,
         server'.alive => server.alive, clashed \subseteq clashed',
         \A c \in Callers :
           /\ At(c, "insert")' <=> At(c, "insert")
           /\ At(c, "remove")' <=> At(c, "remove")
           /\ At(c, "bump")' => At(c, "bump") \/ open_document # Closed
           /\ At(c, "send_change")' => At(c, "send_change") /\ call'[c].number = call[c].number
  PROVE  Agreement' /\ Versions'
<1>1. (OpenInEnd' <=> OpenInEnd) /\ (ClosedInEnd' <=> ClosedInEnd)
  BY DEF OpenInEnd, ClosedInEnd
<1>2. \A n : Bounded(n)' <=> Bounded(n)
  BY DEF Bounded
<1>3. Settled' <=> Settled
  BY DEF Settled
<1>4. Agreement'
  BY <1>1, <1>3 DEF IInv, Agreement
<1>5. Versions'
  BY <1>2, <1>3 DEF IInv, Versions
<1> QED
  BY <1>4, <1>5

\* One call moves.
LEMMA OneMoves ==
  ASSUME Shape, NEW c \in Callers, NEW new \in CallState, call' = [call EXCEPT ![c] = new]
  PROVE  /\ call' \in [Callers -> CallState]
         /\ call'[c] = new
         /\ \A d \in Callers \ {c} : call'[d] = call[d]
BY DEF Shape

LEMMA Goes ==
  ASSUME Shape, NEW c \in Callers, NEW place \in Places, Goto(c, place)
  PROVE  /\ call' \in [Callers -> CallState]
         /\ call'[c] = [call[c] EXCEPT !.at = place]
         /\ call'[c].at = place
         /\ call'[c].number = call[c].number
         /\ \A d \in Callers \ {c} : call'[d] = call[d]
<1>1. [call[c] EXCEPT !.at = place] \in CallState /\ call[c] \in CallState
  BY DEF Shape, CallState
<1>2. call' = [call EXCEPT ![c] = [call[c] EXCEPT !.at = place]]
  BY DEF Goto
<1> QED
  BY <1>1, <1>2, OneMoves DEF CallState

\* A message is written, or the server is gone.
LEMMA StdinGrows ==
  ASSUME Shape, NEW msg \in Message, Written(msg)
  PROVE  /\ stdin' \in Seq(Message) /\ server.alive
         /\ Len(stdin') = Len(stdin) + 1
         /\ DOMAIN stdin' = DOMAIN stdin \cup {Len(stdin) + 1}
         /\ \A i \in DOMAIN stdin : stdin'[i] = stdin[i]
         /\ stdin'[Len(stdin) + 1] = msg
BY DEF Shape, Written

LEMMA MessagesAre ==
  /\ DidOpen \in Message /\ DidOpen.method = "didOpen" /\ DidOpen.number = 1
  /\ DidClose \in Message /\ DidClose.method = "didClose" /\ DidClose.number = Closed
  /\ \A v \in Nat : /\ DidChange(v) \in Message
                    /\ DidChange(v).method = "didChange" /\ DidChange(v).number = v
                    /\ Request(v) \in Message
                    /\ Request(v).method = "request" /\ Request(v).number = v
BY DEF DidOpen, DidClose, DidChange, Request, Message, Closed

\* Calls that the reading task wakes.
LEMMA Woken ==
  ASSUME Shape, NEW ids, Wake(ids)
  PROVE  /\ call' \in [Callers -> CallState]
         /\ pending' \subseteq pending
         /\ \A c \in Callers : \/ call'[c] = call[c]
                               \/ /\ At(c, "await") /\ call'[c].number = call[c].number
                                  /\ call'[c].at \in {"exit", "over"}
<1>1. \A c \in Callers :
        /\ call[c] \in CallState
        /\ AfterRequest(c) \in {"exit", "over"}
        /\ [call[c] EXCEPT !.at = AfterRequest(c)] \in CallState
        /\ [call[c] EXCEPT !.at = AfterRequest(c)].at = AfterRequest(c)
        /\ [call[c] EXCEPT !.at = AfterRequest(c)].number = call[c].number
  BY DEF Shape, AfterRequest, CallState, Places
<1> QED
  BY <1>1 DEF Wake, At

-----------------------------------------------------------------------------
(* The steps that are not at the document.                                 *)

LEMMA BeginStep ==
  ASSUME IInv, NEW c \in Callers, Begin(c)
  PROVE  IInv'
<1>1. PICK kind \in Kinds :
        call' = [call EXCEPT ![c].kind = kind,
                   ![c].at = CASE kind = "open" -> "send_open"
                               [] kind = "shutdown" -> "register"
                               [] OTHER -> "check"]
  BY DEF Begin
<1> DEFINE place == CASE kind = "open" -> "send_open"
                      [] kind = "shutdown" -> "register"
                      [] OTHER -> "check"
           new == [call[c] EXCEPT !.kind = kind, !.at = place]
<1>2. call[c] \in CallState /\ place \in {"send_open", "register", "check"}
  BY DEF IInv, Shape
<1>3. new \in CallState /\ new.at = place /\ call' = [call EXCEPT ![c] = new]
  BY <1>1, <1>2 DEF CallState, Places
<1> HIDE DEF new, place
<1>4. /\ call' \in [Callers -> CallState]
      /\ call'[c].at \in {"send_open", "register", "check"}
      /\ \A d \in Callers \ {c} : call'[d] = call[d]
  BY <1>2, <1>3, OneMoves DEF IInv
<1>5. call[c].at = "none"
  BY DEF Begin, At
<1>6. UNCHANGED <<open_document, pending, next_request_id, stdin, server, stdout, reader, clashed>>
  BY DEF Begin, pipes
<1>7. Shape' /\ Numbers'
  BY <1>4, <1>6 DEF IInv, Shape, Numbers, Ids, At
<1> QED
  BY <1>4, <1>5, <1>6, <1>7, Frame DEF IInv, At

LEMMA CheckStep ==
  ASSUME IInv, NEW c \in Callers, Check(c)
  PROVE  IInv'
<1> DEFINE place ==
      IF open_document = Closed
        THEN IF call[c].kind = "close" THEN "over" ELSE "send_open"
        ELSE CASE call[c].kind = "close" -> "send_close"
               [] call[c].kind = "change" -> "bump"
               [] OTHER -> "register"
<1>1. /\ place \in {"over", "send_close", "send_open", "bump", "register"}
      /\ place = "bump" => open_document # Closed
  OBVIOUS
<1>2. Goto(c, place)
  BY DEF Check
<1> HIDE DEF place
<1>3. /\ call' \in [Callers -> CallState]
      /\ call'[c].at \in {"over", "send_close", "send_open", "bump", "register"}
      /\ call'[c].at = "bump" => open_document # Closed
      /\ \A d \in Callers \ {c} : call'[d] = call[d]
  BY <1>1, <1>2, Goes DEF IInv, Places
<1>4. call[c].at = "check"
  BY DEF Check, At
<1>5. UNCHANGED <<open_document, pending, next_request_id, stdin, server, stdout, reader, clashed>>
  BY DEF Check, pipes
<1>6. Shape' /\ Numbers'
  BY <1>3, <1>5 DEF IInv, Shape, Numbers, Ids, At
<1> QED
  BY <1>3, <1>4, <1>5, <1>6, Frame DEF IInv, At

LEMMA RegisterStep ==
  ASSUME IInv, NEW c \in Callers, Register(c)
  PROVE  IInv'
<1> DEFINE new == [call[c] EXCEPT !.at = "ask", !.number = next_request_id,
                                  !.late = reader # "reading"]
<1>1. new \in CallState /\ new.at = "ask" /\ new.number = next_request_id
  BY DEF IInv, Shape, CallState, Places
<1>2. call' = [call EXCEPT ![c] = new]
  BY DEF Register
<1> HIDE DEF new
<1>3. /\ call' \in [Callers -> CallState]
      /\ call'[c].at = "ask" /\ call'[c].number = next_request_id
      /\ \A d \in Callers \ {c} : call'[d] = call[d]
  BY <1>1, <1>2, OneMoves DEF IInv
<1>4. call[c].at = "register"
  BY DEF Register, At
<1>5. /\ next_request_id' = next_request_id + 1
      /\ pending' = pending \cup {next_request_id}
      /\ UNCHANGED <<open_document, stdin, server, stdout, reader, clashed>>
  BY DEF Register, pipes
<1>6. next_request_id \in Nat \ {0} /\ Ids' = Ids \cup {next_request_id}
  BY <1>5 DEF IInv, Shape, Ids
<1>7. Shape'
  BY <1>3, <1>5, <1>6 DEF IInv, Shape
<1>8. Numbers'
  BY <1>3, <1>5, <1>6 DEF IInv, Numbers, At
<1> QED
  BY <1>3, <1>4, <1>5, <1>7, <1>8, Frame DEF IInv, At

LEMMA ExitStep ==
  ASSUME IInv, NEW c \in Callers, Exit(c)
  PROVE  IInv'
<1>1. /\ call' \in [Callers -> CallState]
      /\ call'[c].at = "over"
      /\ \A d \in Callers \ {c} : call'[d] = call[d]
  BY Goes DEF IInv, Exit, Places
<1>2. UNCHANGED <<open_document, pending, next_request_id, stdin, stdout, reader, clashed>>
      /\ server' = [server EXCEPT !.alive = FALSE, !.unanswered = {}]
  BY DEF Exit, Kill
<1>3. Shape' /\ Numbers' /\ ~server'.alive
  BY <1>1, <1>2 DEF IInv, Shape, Numbers, Ids, At
<1> QED
  BY <1>3 DEF IInv, Agreement, Versions

LEMMA ReaderKeeps ==
  ASSUME IInv, ReaderStep
  PROVE  IInv'
<1>1. UNCHANGED <<open_document, next_request_id, stdin, server, clashed>>
      /\ reader' \in {"reading", "over", "failed"}
  BY DEF ReaderStep, ReadMessage, ReadEnd, Drain, IInv, Shape
<1>2. /\ call' \in [Callers -> CallState] /\ pending' \subseteq pending
      /\ \A c \in Callers : \/ call'[c] = call[c]
                            \/ /\ At(c, "await") /\ call'[c].number = call[c].number
                               /\ call'[c].at \in {"exit", "over"}
  <2>1. CASE \E ids : Wake(ids)
    BY <2>1, Woken DEF IInv
  <2>2. CASE UNCHANGED <<pending, call>>
    BY <2>2 DEF IInv, Shape
  <2> QED
    BY <2>1, <2>2 DEF ReaderStep, ReadMessage, ReadEnd, Drain
<1>3. Shape' /\ Numbers'
  BY <1>1, <1>2 DEF IInv, Shape, Numbers, Ids, At
<1> QED
  BY <1>1, <1>2, <1>3, Frame DEF IInv, At

-----------------------------------------------------------------------------
(* What a message more does to the outcome of all of them.                 *)

LEMMA OpenGrows ==
  ASSUME Shape, NEW msg \in Message, Written(msg), server'.version = server.version
  PROVE  /\ msg.method = "didOpen" => OpenInEnd'
         /\ msg.method # "didClose" /\ OpenInEnd => OpenInEnd'
         /\ msg.method = "didClose" => ClosedInEnd'
         /\ msg.method # "didOpen" /\ ClosedInEnd => ClosedInEnd'
<1> DEFINE last == Len(stdin) + 1
<1>1. /\ Len(stdin') = last /\ DOMAIN stdin' = DOMAIN stdin \cup {last}
      /\ \A i \in DOMAIN stdin : stdin'[i] = stdin[i]
      /\ stdin'[last] = msg
  BY StdinGrows
<1>2. Len(stdin) \in Nat /\ DOMAIN stdin = 1..Len(stdin)
  BY DEF Shape
<1>3. msg.method = "didOpen" => OpenInEnd'
  <2> SUFFICES ASSUME msg.method = "didOpen" PROVE OpenInEnd'
    OBVIOUS
  <2>1. last \in DOMAIN stdin' /\ stdin'[last].method = "didOpen" /\ (last + 1)..Len(stdin') = {}
    BY <1>1, <1>2
  <2> QED
    BY <2>1 DEF OpenInEnd
<1>4. msg.method = "didClose" => ClosedInEnd'
  <2> SUFFICES ASSUME msg.method = "didClose" PROVE ClosedInEnd'
    OBVIOUS
  <2>1. last \in DOMAIN stdin' /\ stdin'[last].method = "didClose" /\ (last + 1)..Len(stdin') = {}
    BY <1>1, <1>2
  <2> QED
    BY <2>1 DEF ClosedInEnd
<1>5. \A i \in DOMAIN stdin, j \in Nat :
        j \in (i + 1)..Len(stdin') => j \in (i + 1)..Len(stdin) \/ j = last
  BY <1>1, <1>2
<1>6. msg.method # "didClose" /\ OpenInEnd => OpenInEnd'
  <2> SUFFICES ASSUME msg.method # "didClose", OpenInEnd PROVE OpenInEnd'
    OBVIOUS
  <2>1. CASE server.version # Closed /\ \A i \in DOMAIN stdin : stdin[i].method # "didClose"
    BY <1>1, <2>1 DEF OpenInEnd
  <2>2. CASE \E i \in DOMAIN stdin :
              /\ stdin[i].method = "didOpen"
              /\ \A j \in (i + 1)..Len(stdin) : stdin[j].method # "didClose"
    <3>1. PICK i \in DOMAIN stdin :
            /\ stdin[i].method = "didOpen"
            /\ \A j \in (i + 1)..Len(stdin) : stdin[j].method # "didClose"
      BY <2>2
    <3>2. \A j \in (i + 1)..Len(stdin') : stdin'[j].method # "didClose"
      <4> SUFFICES ASSUME NEW j \in (i + 1)..Len(stdin') PROVE stdin'[j].method # "didClose"
        OBVIOUS
      <4>1. CASE j = last
        BY <1>1, <4>1
      <4>2. CASE j # last
        <5>1. j \in (i + 1)..Len(stdin) /\ j \in DOMAIN stdin
          BY <1>1, <1>2, <4>2
        <5> QED
          BY <1>1, <3>1, <5>1
      <4> QED
        BY <4>1, <4>2
    <3> QED
      BY <1>1, <3>1, <3>2 DEF OpenInEnd
  <2> QED
    BY <2>1, <2>2 DEF OpenInEnd
<1>7. msg.method # "didOpen" /\ ClosedInEnd => ClosedInEnd'
  <2> SUFFICES ASSUME msg.method # "didOpen", ClosedInEnd PROVE ClosedInEnd'
    OBVIOUS
  <2>1. CASE server.version = Closed /\ \A i \in DOMAIN stdin : stdin[i].method # "didOpen"
    BY <1>1, <2>1 DEF ClosedInEnd
  <2>2. CASE \E i \in DOMAIN stdin :
              /\ stdin[i].method = "didClose"
              /\ \A j \in (i + 1)..Len(stdin) : stdin[j].method # "didOpen"
    <3>1. PICK i \in DOMAIN stdin :
            /\ stdin[i].method = "didClose"
            /\ \A j \in (i + 1)..Len(stdin) : stdin[j].method # "didOpen"
      BY <2>2
    <3>2. \A j \in (i + 1)..Len(stdin') : stdin'[j].method # "didOpen"
      <4> SUFFICES ASSUME NEW j \in (i + 1)..Len(stdin') PROVE stdin'[j].method # "didOpen"
        OBVIOUS
      <4>1. CASE j = last
        BY <1>1, <4>1
      <4>2. CASE j # last
        <5>1. j \in (i + 1)..Len(stdin) /\ j \in DOMAIN stdin
          BY <1>1, <1>2, <4>2
        <5> QED
          BY <1>1, <3>1, <5>1
      <4> QED
        BY <4>1, <4>2
    <3> QED
      BY <1>1, <3>1, <3>2 DEF ClosedInEnd
  <2> QED
    BY <2>1, <2>2 DEF ClosedInEnd
<1> QED
  BY <1>3, <1>4, <1>6, <1>7

LEMMA BoundKept ==
  ASSUME Shape, NEW msg \in Message, Written(msg), server'.version = server.version,
         NEW n \in Nat, msg.method = "request" \/ msg.number <= n,
         Bounded(n) \/ Resets(msg)
  PROVE  Bounded(n)'
<1> DEFINE last == Len(stdin) + 1
<1>1. /\ Len(stdin') = last /\ DOMAIN stdin' = DOMAIN stdin \cup {last}
      /\ \A i \in DOMAIN stdin : stdin'[i] = stdin[i]
      /\ stdin'[last] = msg
  BY StdinGrows
<1>2. Len(stdin) \in Nat /\ DOMAIN stdin = 1..Len(stdin)
  BY DEF Shape
<1>3. ASSUME NEW i \in DOMAIN stdin', stdin'[i].method # "request",
             \A j \in (i + 1)..Len(stdin') : ~Resets(stdin'[j])
      PROVE  stdin'[i].number <= n
  <2>1. CASE i = last
    BY <1>1, <1>3, <2>1
  <2>2. CASE i # last
    <3>1. i \in DOMAIN stdin /\ last \in (i + 1)..Len(stdin')
          /\ \A j \in (i + 1)..Len(stdin) : j \in (i + 1)..Len(stdin') /\ j \in DOMAIN stdin
      BY <1>1, <1>2, <2>2
    <3>2. ~Resets(msg)
      BY <1>1, <1>3, <3>1
    <3>3. \A j \in (i + 1)..Len(stdin) : ~Resets(stdin[j])
      BY <1>1, <1>3, <3>1
    <3> QED
      BY <1>1, <1>3, <3>1, <3>2, <3>3 DEF Bounded
  <2> QED
    BY <2>1, <2>2
<1>4. ASSUME \A i \in DOMAIN stdin' : ~Resets(stdin'[i])
      PROVE  server'.version <= n
  BY <1>1, <1>4 DEF Bounded
<1> QED
  BY <1>3, <1>4 DEF Bounded

LEMMA BoundMono ==
  ASSUME Shape, NEW m \in Nat, NEW n \in Nat, m <= n, Bounded(m)
  PROVE  Bounded(n)
<1>1. server.version \in Nat
  BY DEF Shape
<1>2. \A i \in DOMAIN stdin : stdin[i].number \in Nat
  <2> SUFFICES ASSUME NEW i \in DOMAIN stdin PROVE stdin[i].number \in Nat
    OBVIOUS
  <2>1. stdin[i] \in Message
    BY DEF Shape
  <2> QED
    BY <2>1 DEF Message
<1>3. \A x \in Nat : x <= m => x <= n
  OBVIOUS
<1> QED
  BY <1>1, <1>2, <1>3 DEF Bounded

LEMMA BoundSame ==
  ASSUME NEW n, UNCHANGED <<stdin, server>>
  PROVE  /\ Bounded(n)' <=> Bounded(n)
         /\ OpenInEnd' <=> OpenInEnd
         /\ ClosedInEnd' <=> ClosedInEnd
BY DEF Bounded, OpenInEnd, ClosedInEnd

-----------------------------------------------------------------------------
(* The steps that are at the document.                                     *)

LEMMA InsertStep ==
  ASSUME IInv, NEW c \in Callers, Insert(c)
  PROVE  IInv'
<1> DEFINE place == IF call[c].kind = "define" THEN "register" ELSE "over"
<1>1. place \in {"register", "over"} /\ Goto(c, place)
  BY DEF Insert
<1> HIDE DEF place
<1>2. /\ call' \in [Callers -> CallState]
      /\ call'[c].at \in {"register", "over"}
      /\ \A d \in Callers \ {c} : call'[d] = call[d]
  BY <1>1, Goes DEF IInv, Places
<1>3. At(c, "insert") /\ Doing(c) = "opening"
  BY DoingPlaces DEF Insert
<1>4. open_document' = 1 /\ Clash(c)
      /\ UNCHANGED <<pending, next_request_id, stdin, server, stdout, reader>>
  BY DEF Insert, pipes
<1>5. clashed \subseteq clashed' /\ clashed' \subseteq {"opening", "changing", "closing"}
  BY <1>3, <1>4, NoClash DEF IInv, Shape
<1>6. Shape' /\ Numbers'
  BY <1>2, <1>4, <1>5 DEF IInv, Shape, Numbers, Ids, At
<1>7. (OpenInEnd' <=> OpenInEnd) /\ (ClosedInEnd' <=> ClosedInEnd) /\ (Bounded(1)' <=> Bounded(1))
  BY <1>4, BoundSame
<1>8. ASSUME server.alive, "closing" \notin clashed'
      PROVE  OpenInEnd /\ \A d \in Callers : ~(At(d, "remove"))'
  <2>1. OpenInEnd
    BY <1>3, <1>5, <1>8 DEF IInv, Agreement
  <2>2. \A d \in Callers \ {c} : ~At(d, "remove")
    BY <1>4, <1>8, NoClash, DoingPlaces
  <2> QED
    BY <1>2, <2>1, <2>2 DEF At
<1>9. Agreement'
  BY <1>4, <1>7, <1>8 DEF Agreement, Closed
<1>10. ASSUME server.alive, "closing" \notin clashed', "opening" \notin clashed'
       PROVE  Bounded(1) /\ \A d \in Callers : (Doing(d) = "none")'
  <2>1. Bounded(1)
    BY <1>3, <1>5, <1>10 DEF IInv, Versions
  <2>2. \A d \in Callers \ {c} : Doing(d) = "none"
    BY <1>3, <1>4, <1>10, NoClash
  <2> QED
    BY <1>2, <2>1, <2>2 DEF Doing, At
<1>11. ASSUME server.alive, "closing" \notin clashed', "opening" \notin clashed'
       PROVE  \A d \in Callers : (~At(d, "insert") /\ ~At(d, "remove") /\ ~At(d, "send_change"))'
  BY <1>10, <1>11 DEF Doing, At
<1>12. Bounded(1)' => Bounded(open_document)'
  BY <1>4 DEF Bounded
<1>13. Versions'
  BY <1>4, <1>7, <1>10, <1>11, <1>12 DEF Versions
<1> QED
  BY <1>6, <1>9, <1>13 DEF IInv

LEMMA RemoveStep ==
  ASSUME IInv, NEW c \in Callers, Remove(c)
  PROVE  IInv'
<1>1. /\ call' \in [Callers -> CallState]
      /\ call'[c].at = "over"
      /\ \A d \in Callers \ {c} : call'[d] = call[d]
  BY Goes DEF IInv, Remove, Places
<1>2. At(c, "remove") /\ Doing(c) = "closing"
  BY DoingPlaces DEF Remove
<1>3. open_document' = Closed /\ Clash(c)
      /\ UNCHANGED <<pending, next_request_id, stdin, server, stdout, reader>>
  BY DEF Remove, pipes
<1>4. clashed \subseteq clashed' /\ clashed' \subseteq {"opening", "changing", "closing"}
  BY <1>2, <1>3, NoClash DEF IInv, Shape
<1>5. Shape' /\ Numbers'
  BY <1>1, <1>3, <1>4 DEF IInv, Shape, Numbers, Ids, At, Closed
<1>6. (ClosedInEnd' <=> ClosedInEnd) /\ (Bounded(Closed)' <=> Bounded(Closed))
  BY <1>3, BoundSame DEF Closed
<1>7. ASSUME server.alive, "closing" \notin clashed'
      PROVE  ClosedInEnd /\ \A d \in Callers : (Doing(d) = "none")'
  <2>1. ClosedInEnd
    BY <1>2, <1>4, <1>7 DEF IInv, Agreement
  <2>2. \A d \in Callers \ {c} : Doing(d) = "none"
    BY <1>2, <1>3, <1>7, NoClash
  <2> QED
    BY <1>1, <2>1, <2>2 DEF Doing, At
<1>8. ASSUME server.alive, "closing" \notin clashed'
      PROVE  \A d \in Callers : (/\ ~At(d, "insert") /\ ~At(d, "remove")
                                 /\ ~At(d, "bump") /\ ~At(d, "send_change"))'
  BY <1>7, <1>8 DEF Doing, At
<1>9. Agreement'
  BY <1>3, <1>6, <1>7, <1>8 DEF Agreement
<1>10. server.alive /\ "closing" \notin clashed' /\ "opening" \notin clashed' => Bounded(Closed)
  BY <1>2, <1>4 DEF IInv, Versions
<1>11. Bounded(Closed)' => Bounded(open_document)'
  BY <1>3 DEF Bounded, Closed
<1>12. Versions'
  BY <1>3, <1>6, <1>8, <1>10, <1>11 DEF Versions
<1> QED
  BY <1>5, <1>9, <1>12 DEF IInv

LEMMA BumpStep ==
  ASSUME IInv, NEW c \in Callers, Bump(c)
  PROVE  IInv'
<1>1. open_document \in Nat /\ At(c, "bump") /\ Doing(c) = "changing"
  BY DoingPlaces DEF Bump, IInv, Shape
<1>2. PICK v \in Nat : v = open_document + 1
  BY <1>1
<1> DEFINE new == [call[c] EXCEPT !.at = "send_change", !.number = v]
<1>3. new \in CallState /\ new.at = "send_change" /\ new.number = v
  BY <1>2 DEF IInv, Shape, CallState, Places
<1>4. call' = [call EXCEPT ![c] = new]
  BY <1>2 DEF Bump
<1> HIDE DEF new
<1>5. /\ call' \in [Callers -> CallState]
      /\ call'[c].at = "send_change" /\ call'[c].number = v
      /\ \A d \in Callers \ {c} : call'[d] = call[d]
  BY <1>3, <1>4, OneMoves DEF IInv
<1>6. open_document' = v /\ Clash(c)
      /\ UNCHANGED <<pending, next_request_id, stdin, server, stdout, reader>>
  BY <1>2 DEF Bump, pipes
<1>7. clashed \subseteq clashed' /\ clashed' \subseteq {"opening", "changing", "closing"}
  BY <1>1, <1>6, NoClash DEF IInv, Shape
<1>8. v # Closed /\ open_document <= v
  BY <1>1, <1>2 DEF Closed
<1>9. Shape' /\ Numbers'
  BY <1>5, <1>6, <1>7, <1>8 DEF IInv, Shape, Numbers, Ids, At
<1>10. (OpenInEnd' <=> OpenInEnd) /\ (ClosedInEnd' <=> ClosedInEnd) /\ (Bounded(v)' <=> Bounded(v))
  BY <1>6, BoundSame
<1>11. Settled' <=> Settled
  BY <1>1, <1>5 DEF Settled, At
<1>12. ASSUME server.alive, "closing" \notin clashed'
       PROVE  /\ open_document # Closed
              /\ \A d \in Callers : (~At(d, "remove"))'
              /\ \A d \in Callers : At(d, "insert")' => At(d, "insert")
  <2>1. open_document # Closed
    BY <1>1, <1>7, <1>12 DEF IInv, Agreement
  <2>2. \A d \in Callers \ {c} : ~At(d, "remove")
    BY <1>6, <1>12, NoClash, DoingPlaces
  <2> QED
    BY <1>5, <2>1, <2>2 DEF At
<1>13. Agreement'
  BY <1>6, <1>7, <1>8, <1>10, <1>11, <1>12 DEF IInv, Agreement
<1>14. ASSUME server.alive, "closing" \notin clashed', "opening" \notin clashed'
       PROVE  /\ \A d \in Callers : (~At(d, "insert") /\ ~At(d, "remove"))'
              /\ \A d \in Callers : At(d, "send_change")' => call'[d].number <= v
              /\ Settled => Bounded(v)
  <2>1. \A d \in Callers \ {c} : ~At(d, "insert") /\ ~At(d, "remove")
    BY <1>6, <1>14, NoClash, DoingPlaces
  <2>2. \A d \in Callers \ {c} : At(d, "send_change") =>
          call[d].number <= open_document /\ call[d].number \in Nat
    BY <1>7, <1>14 DEF IInv, Versions, Shape, CallState
  <2>3. \A d \in Callers : At(d, "send_change")' => call'[d].number <= v
    BY <1>1, <1>5, <1>8, <2>2 DEF At
  <2>4. Settled => Bounded(open_document)
    BY <1>7, <1>14 DEF IInv, Versions
  <2>5. Settled => Bounded(v)
    BY <1>1, <1>8, <2>4, BoundMono DEF IInv
  <2> QED
    BY <1>5, <2>1, <2>3, <2>5 DEF At
<1>15. Bounded(v)' => Bounded(open_document)'
  BY <1>6 DEF Bounded
<1>16. Versions'
  BY <1>6, <1>10, <1>11, <1>14, <1>15 DEF Versions
<1> QED
  BY <1>9, <1>13, <1>16 DEF IInv

\* A message that is written is like those that are there.
LEMMA WritesWell ==
  ASSUME IInv, NEW msg \in Message, Written(msg) \/ NotWritten, next_request_id' = next_request_id,
         msg.method = "request" => msg.number \in Ids,
         msg.method = "didOpen" => msg.number = 1,
         msg.method = "didClose" => msg.number = Closed,
         msg.method = "didChange" => msg.number # Closed
  PROVE  /\ stdin' \in Seq(Message)
         /\ \A i \in DOMAIN stdin' :
              /\ stdin'[i].method = "request" => stdin'[i].number \in Ids'
              /\ stdin'[i].method = "didOpen" => stdin'[i].number = 1
              /\ stdin'[i].method = "didClose" => stdin'[i].number = Closed
              /\ stdin'[i].method = "didChange" => stdin'[i].number # Closed
<1>1. Ids' = Ids
  BY DEF Ids
<1>2. CASE Written(msg)
  <2>1. /\ stdin' \in Seq(Message)
        /\ DOMAIN stdin' = DOMAIN stdin \cup {Len(stdin) + 1}
        /\ \A i \in DOMAIN stdin : stdin'[i] = stdin[i]
        /\ stdin'[Len(stdin) + 1] = msg
    BY <1>2, StdinGrows DEF IInv
  <2> QED
    BY <1>1, <2>1 DEF IInv, Numbers
<1>3. CASE NotWritten
  BY <1>1, <1>3 DEF NotWritten, IInv, Shape, Numbers
<1> QED
  BY <1>2, <1>3

LEMMA SendOpenStep ==
  ASSUME IInv, NEW c \in Callers, SendOpen(c)
  PROVE  IInv'
<1>1. At(c, "send_open") /\ Doing(c) = "opening" /\ Clash(c)
      /\ UNCHANGED <<open_document, pending, next_request_id, server, stdout, reader>>
  BY DoingPlaces DEF SendOpen
<1>2. clashed \subseteq clashed' /\ clashed' \subseteq {"opening", "changing", "closing"}
  BY <1>1, NoClash DEF IInv, Shape
<1>3. \/ Written(DidOpen) /\ Goto(c, "insert")
      \/ NotWritten /\ Goto(c, "over")
  BY DEF SendOpen
<1>4. /\ call' \in [Callers -> CallState]
      /\ call'[c].at \in {"insert", "over"}
      /\ \A d \in Callers \ {c} : call'[d] = call[d]
  BY <1>3, Goes DEF IInv, Places
<1>5. /\ stdin' \in Seq(Message)
      /\ \A i \in DOMAIN stdin' :
           /\ stdin'[i].method = "request" => stdin'[i].number \in Ids'
           /\ stdin'[i].method = "didOpen" => stdin'[i].number = 1
           /\ stdin'[i].method = "didClose" => stdin'[i].number = Closed
           /\ stdin'[i].method = "didChange" => stdin'[i].number # Closed
  BY <1>1, <1>3, WritesWell, MessagesAre
<1>6. Shape'
  BY <1>1, <1>2, <1>4, <1>5 DEF IInv, Shape, Ids
<1>7. Numbers'
  BY <1>1, <1>4, <1>5 DEF IInv, Numbers, At, Ids
<1>8. CASE NotWritten
  BY <1>1, <1>6, <1>7, <1>8 DEF NotWritten, IInv, Agreement, Versions
<1>9. CASE Written(DidOpen) /\ Goto(c, "insert")
  <2>1. OpenInEnd'
    BY <1>1, <1>9, OpenGrows, MessagesAre DEF IInv
  <2>2. At(c, "insert")'
    BY <1>9, Goes DEF At, IInv, Places
  <2>3. ~Settled'
    BY <2>2 DEF Settled
  <2>4. ASSUME server.alive, "closing" \notin clashed'
        PROVE  /\ \A d \in Callers : (~At(d, "remove"))'
               /\ \A d \in Callers : At(d, "bump")' => open_document # Closed
    <3>1. \A d \in Callers \ {c} : ~At(d, "remove")
      BY <1>1, <2>4, NoClash, DoingPlaces
    <3>2. \A d \in Callers \ {c} : At(d, "bump") => open_document # Closed
      BY <1>2, <2>4 DEF IInv, Agreement
    <3> QED
      BY <1>4, <3>1, <3>2 DEF At
  <2>5. Agreement'
    BY <1>1, <2>1, <2>3, <2>4 DEF Agreement
  <2>6. Bounded(1)'
    BY <1>1, <1>9, BoundKept, MessagesAre DEF IInv, Resets
  <2>7. ASSUME server.alive, "closing" \notin clashed', "opening" \notin clashed'
        PROVE  \A d \in Callers : (~At(d, "remove") /\ ~At(d, "send_change"))'
    <3>1. \A d \in Callers \ {c} : ~At(d, "remove") /\ ~At(d, "send_change")
      BY <1>1, <2>7, NoClash, DoingPlaces
    <3> QED
      BY <1>4, <3>1 DEF At
  <2>8. Versions'
    BY <1>1, <2>3, <2>6, <2>7 DEF Versions
  <2> QED
    BY <1>6, <1>7, <2>5, <2>8 DEF IInv
<1> QED
  BY <1>3, <1>8, <1>9

LEMMA SendCloseStep ==
  ASSUME IInv, NEW c \in Callers, SendClose(c)
  PROVE  IInv'
<1>1. At(c, "send_close") /\ Doing(c) = "closing" /\ Clash(c)
      /\ UNCHANGED <<open_document, pending, next_request_id, server, stdout, reader>>
  BY DoingPlaces DEF SendClose
<1>2. clashed \subseteq clashed' /\ clashed' \subseteq {"opening", "changing", "closing"}
  BY <1>1, NoClash DEF IInv, Shape
<1>3. \/ Written(DidClose) /\ Goto(c, "remove")
      \/ NotWritten /\ Goto(c, "over")
  BY DEF SendClose
<1>4. /\ call' \in [Callers -> CallState]
      /\ call'[c].at \in {"remove", "over"}
      /\ \A d \in Callers \ {c} : call'[d] = call[d]
  BY <1>3, Goes DEF IInv, Places
<1>5. /\ stdin' \in Seq(Message)
      /\ \A i \in DOMAIN stdin' :
           /\ stdin'[i].method = "request" => stdin'[i].number \in Ids'
           /\ stdin'[i].method = "didOpen" => stdin'[i].number = 1
           /\ stdin'[i].method = "didClose" => stdin'[i].number = Closed
           /\ stdin'[i].method = "didChange" => stdin'[i].number # Closed
  BY <1>1, <1>3, WritesWell, MessagesAre
<1>6. Shape'
  BY <1>1, <1>2, <1>4, <1>5 DEF IInv, Shape, Ids
<1>7. Numbers'
  BY <1>1, <1>4, <1>5 DEF IInv, Numbers, At, Ids
<1>8. CASE NotWritten
  BY <1>1, <1>6, <1>7, <1>8 DEF NotWritten, IInv, Agreement, Versions
<1>9. CASE Written(DidClose) /\ Goto(c, "remove")
  <2>1. ClosedInEnd'
    BY <1>1, <1>9, OpenGrows, MessagesAre DEF IInv
  <2>2. At(c, "remove")'
    BY <1>9, Goes DEF At, IInv, Places
  <2>3. ~Settled'
    BY <2>2 DEF Settled
  <2>4. ASSUME server.alive, "closing" \notin clashed'
        PROVE  /\ \A d \in Callers \ {c} : (/\ ~At(d, "insert") /\ ~At(d, "remove")
                                            /\ ~At(d, "bump") /\ ~At(d, "send_change"))'
               /\ (/\ ~At(c, "insert") /\ ~At(c, "bump") /\ ~At(c, "send_change"))'
    <3>1. \A d \in Callers \ {c} : /\ ~At(d, "insert") /\ ~At(d, "remove")
                                   /\ ~At(d, "bump") /\ ~At(d, "send_change")
      BY <1>1, <2>4, NoClash, DoingPlaces
    <3> QED
      BY <1>4, <2>2, <3>1 DEF At
  <2>5. Agreement'
    BY <1>1, <2>1, <2>3, <2>4 DEF Agreement
  <2>6. Closed \in Nat
    BY DEF Closed
  <2>7. Bounded(Closed)'
    BY <1>1, <1>9, <2>6, BoundKept, MessagesAre DEF IInv, Resets, Closed
  <2>8. Versions'
    BY <1>1, <2>3, <2>4, <2>7 DEF Versions
  <2> QED
    BY <1>6, <1>7, <2>5, <2>8 DEF IInv
<1> QED
  BY <1>3, <1>8, <1>9

LEMMA SendChangeStep ==
  ASSUME IInv, NEW c \in Callers, SendChange(c)
  PROVE  IInv'
<1> DEFINE n == call[c].number
<1>1. At(c, "send_change") /\ Doing(c) = "changing" /\ Clash(c)
      /\ UNCHANGED <<open_document, pending, next_request_id, server, stdout, reader>>
  BY DoingPlaces DEF SendChange
<1>2. clashed \subseteq clashed' /\ clashed' \subseteq {"opening", "changing", "closing"}
  BY <1>1, NoClash DEF IInv, Shape
<1>3. /\ call' \in [Callers -> CallState]
      /\ call'[c].at = "over"
      /\ \A d \in Callers \ {c} : call'[d] = call[d]
  BY Goes DEF SendChange, IInv, Places
<1>4. n \in Nat /\ n # Closed
  BY <1>1 DEF IInv, Shape, CallState, Numbers
<1>5. Written(DidChange(n)) \/ NotWritten
  BY DEF SendChange
<1> HIDE DEF n
<1>6. /\ DidChange(n) \in Message
      /\ DidChange(n).method = "didChange" /\ DidChange(n).number = n
  BY <1>4, MessagesAre
<1>7. /\ stdin' \in Seq(Message)
      /\ \A i \in DOMAIN stdin' :
           /\ stdin'[i].method = "request" => stdin'[i].number \in Ids'
           /\ stdin'[i].method = "didOpen" => stdin'[i].number = 1
           /\ stdin'[i].method = "didClose" => stdin'[i].number = Closed
           /\ stdin'[i].method = "didChange" => stdin'[i].number # Closed
  BY <1>1, <1>4, <1>5, <1>6, WritesWell
<1>8. Shape'
  BY <1>1, <1>2, <1>3, <1>7 DEF IInv, Shape, Ids
<1>9. Numbers'
  BY <1>1, <1>3, <1>7 DEF IInv, Numbers, At, Ids
<1>10. CASE NotWritten
  BY <1>1, <1>8, <1>9, <1>10 DEF NotWritten, IInv, Agreement, Versions
<1>11. CASE Written(DidChange(n))
  <2>1. (OpenInEnd => OpenInEnd') /\ (ClosedInEnd => ClosedInEnd')
    BY <1>1, <1>6, <1>11, OpenGrows DEF IInv
  <2>2. \A d \in Callers :
          /\ At(d, "insert")' <=> At(d, "insert")
          /\ At(d, "remove")' <=> At(d, "remove")
          /\ At(d, "bump")' => At(d, "bump")
          /\ At(d, "send_change")' => At(d, "send_change") /\ call'[d].number = call[d].number
    BY <1>1, <1>3 DEF At
  <2>3. Settled' <=> Settled
    BY <2>2 DEF Settled
  <2>4. Agreement'
    BY <1>1, <1>2, <2>1, <2>2, <2>3 DEF IInv, Agreement
  <2>5. ASSUME server.alive, "closing" \notin clashed', "opening" \notin clashed'
        PROVE  /\ \A d \in Callers : ~At(d, "insert") /\ ~At(d, "remove")
               /\ Bounded(open_document)'
    <3>1. \A d \in Callers : ~At(d, "insert") /\ ~At(d, "remove")
      BY <1>1, <2>5, NoClash, DoingPlaces
    <3>2. Bounded(open_document) /\ n <= open_document
      BY <1>1, <1>2, <2>5, <3>1 DEF IInv, Versions, Settled, n
    <3>3. PICK m \in Nat : m = open_document
      BY DEF IInv, Shape
    <3>4. Bounded(m)
      BY <3>2, <3>3 DEF Bounded
    <3>5. Bounded(m)'
      BY <1>1, <1>6, <1>11, <3>2, <3>3, <3>4, BoundKept DEF IInv
    <3>6. Bounded(open_document)'
      BY <1>1, <3>3, <3>5 DEF Bounded
    <3> QED
      BY <3>1, <3>6
  <2>6. Versions'
    BY <1>1, <1>2, <2>2, <2>5 DEF IInv, Versions
  <2> QED
    BY <1>8, <1>9, <2>4, <2>6 DEF IInv
<1> QED
  BY <1>5, <1>10, <1>11

\* A request says nothing of the document.
LEMMA AskStep ==
  ASSUME IInv, NEW c \in Callers, Ask(c)
  PROVE  IInv'
<1> DEFINE n == call[c].number
<1>1. At(c, "ask")
      /\ UNCHANGED <<open_document, next_request_id, server, stdout, reader, clashed>>
  BY DEF Ask
<1>2. n \in Ids /\ n \in Nat
  BY <1>1 DEF IInv, Numbers, Shape, CallState
<1>3. PICK place \in {"await", "exit", "over"} : Goto(c, place)
  BY DEF Ask, AfterRequest
<1>4. /\ call' \in [Callers -> CallState]
      /\ call'[c].at \in {"await", "exit", "over"}
      /\ \A d \in Callers \ {c} : call'[d] = call[d]
  BY <1>3, Goes DEF IInv, Places
<1>5. (Written(Request(n)) \/ NotWritten) /\ pending' \subseteq pending
  BY DEF Ask
<1> HIDE DEF n
<1>6. /\ Request(n) \in Message
      /\ Request(n).method = "request" /\ Request(n).number = n
  BY <1>2, MessagesAre
<1>7. /\ stdin' \in Seq(Message)
      /\ \A i \in DOMAIN stdin' :
           /\ stdin'[i].method = "request" => stdin'[i].number \in Ids'
           /\ stdin'[i].method = "didOpen" => stdin'[i].number = 1
           /\ stdin'[i].method = "didClose" => stdin'[i].number = Closed
           /\ stdin'[i].method = "didChange" => stdin'[i].number # Closed
  BY <1>1, <1>2, <1>5, <1>6, WritesWell
<1>8. Shape'
  BY <1>1, <1>4, <1>5, <1>7 DEF IInv, Shape, Ids
<1>9. Numbers'
  BY <1>1, <1>4, <1>7 DEF IInv, Numbers, At, Ids
<1>10. CASE NotWritten
  BY <1>1, <1>8, <1>9, <1>10 DEF NotWritten, IInv, Agreement, Versions
<1>11. CASE Written(Request(n))
  <2>1. (OpenInEnd => OpenInEnd') /\ (ClosedInEnd => ClosedInEnd')
    BY <1>1, <1>6, <1>11, OpenGrows DEF IInv
  <2>2. \A d \in Callers :
          /\ At(d, "insert")' <=> At(d, "insert")
          /\ At(d, "remove")' <=> At(d, "remove")
          /\ At(d, "bump")' => At(d, "bump")
          /\ At(d, "send_change")' => At(d, "send_change") /\ call'[d].number = call[d].number
    BY <1>1, <1>4 DEF At
  <2>3. Settled' <=> Settled
    BY <2>2 DEF Settled
  <2>4. Agreement'
    BY <1>1, <2>1, <2>2, <2>3 DEF IInv, Agreement
  <2>5. \A m \in Nat : Bounded(m) => Bounded(m)'
    BY <1>1, <1>6, <1>11, BoundKept DEF IInv
  <2>6. PICK m \in Nat : m = open_document
    BY DEF IInv, Shape
  <2>7. Bounded(open_document) => Bounded(open_document)'
    BY <1>1, <2>5, <2>6 DEF Bounded
  <2>8. (Bounded(1) => Bounded(1)') /\ (Bounded(Closed) => Bounded(Closed)')
    BY <2>5 DEF Closed
  <2>9. Versions'
    BY <1>1, <2>2, <2>3, <2>7, <2>8 DEF IInv, Versions
  <2> QED
    BY <1>8, <1>9, <2>4, <2>9 DEF IInv
<1> QED
  BY <1>5, <1>10, <1>11

-----------------------------------------------------------------------------
(* The steps of the server.                                                *)

\* What the server takes off the pipe it knows instead.
LEMMA ServeMoves ==
  ASSUME IInv, Serve
  PROVE  /\ Len(stdin) \in Nat /\ DOMAIN stdin = 1..Len(stdin) /\ 1 \in DOMAIN stdin
         /\ stdin' \in Seq(Message) /\ Len(stdin') = Len(stdin) - 1
         /\ DOMAIN stdin' = 1..(Len(stdin) - 1)
         /\ \A i \in DOMAIN stdin' : i + 1 \in DOMAIN stdin /\ stdin'[i] = stdin[i + 1]
         /\ server' \in [alive : BOOLEAN, version : Nat, unanswered : SUBSET Ids, interjected : BOOLEAN]
         /\ server'.alive = server.alive
         /\ server'.version =
              IF stdin[1].method = "request" \/ (stdin[1].method = "didChange" /\ server.version = Closed)
                THEN server.version ELSE stdin[1].number
<1>1. stdin \in Seq(Message) /\ stdin # <<>> /\ stdin' = Tail(stdin) /\ Head(stdin) = stdin[1]
  BY DEF IInv, Shape, Serve
<1>2. /\ Len(stdin) \in Nat /\ DOMAIN stdin = 1..Len(stdin) /\ 1 \in DOMAIN stdin
      /\ stdin' \in Seq(Message) /\ Len(stdin') = Len(stdin) - 1
      /\ DOMAIN stdin' = 1..(Len(stdin) - 1)
      /\ \A i \in DOMAIN stdin' : i + 1 \in DOMAIN stdin /\ stdin'[i] = stdin[i + 1]
  BY <1>1
<1>3. stdin[1] \in Message
  BY <1>1, <1>2
<1>4. /\ stdin[1].method \in {"didOpen", "didChange", "didClose", "request"}
      /\ stdin[1].number \in Nat
      /\ stdin[1].method = "request" => stdin[1].number \in Ids
  BY <1>2, <1>3 DEF Message, IInv, Numbers
<1>5. server \in [alive : BOOLEAN, version : Nat, unanswered : SUBSET Ids, interjected : BOOLEAN]
  BY DEF IInv, Shape
<1>6. server' = IF stdin[1].method = "request"
                  THEN [server EXCEPT !.unanswered = @ \cup {stdin[1].number}]
                  ELSE IF stdin[1].method = "didChange" /\ server.version = Closed THEN server
                  ELSE [server EXCEPT !.version = stdin[1].number]
  BY <1>1, <1>4 DEF Serve
<1>7. CASE stdin[1].method = "request"
  BY <1>2, <1>4, <1>5, <1>6, <1>7
<1>8. CASE stdin[1].method # "request"
  BY <1>2, <1>4, <1>5, <1>6, <1>8
<1> QED
  BY <1>7, <1>8

LEMMA ServeKeepsOutcome ==
  ASSUME IInv, Serve
  PROVE  /\ OpenInEnd => OpenInEnd'
         /\ ClosedInEnd => ClosedInEnd'
         /\ \A n \in Nat : Bounded(n) => Bounded(n)'
<1> DEFINE first == stdin[1]
<1>1. /\ Len(stdin) \in Nat /\ DOMAIN stdin = 1..Len(stdin) /\ 1 \in DOMAIN stdin
      /\ Len(stdin') = Len(stdin) - 1
      /\ DOMAIN stdin' = 1..(Len(stdin) - 1)
      /\ \A i \in DOMAIN stdin' : i + 1 \in DOMAIN stdin /\ stdin'[i] = stdin[i + 1]
      /\ server'.version =
           IF first.method = "request" \/ (first.method = "didChange" /\ server.version = Closed)
             THEN server.version ELSE first.number
  BY ServeMoves
<1>2. /\ first.method \in {"didOpen", "didChange", "didClose", "request"}
      /\ first.method = "didOpen" => first.number # Closed
      /\ first.method = "didClose" => first.number = Closed
      /\ first.method = "didChange" => first.number # Closed
  <2>1. first \in Message
    BY <1>1 DEF IInv, Shape
  <2> QED
    BY <1>1, <2>1 DEF Message, IInv, Numbers, Closed
<1>3. /\ \A j \in DOMAIN stdin' : j + 1 \in 2..Len(stdin)
      /\ \A i \in DOMAIN stdin' : \A j \in (i + 1)..Len(stdin') :
           j \in DOMAIN stdin' /\ j + 1 \in ((i + 1) + 1)..Len(stdin)
      /\ \A i \in DOMAIN stdin : i # 1 => i - 1 \in DOMAIN stdin' /\ (i - 1) + 1 = i
      /\ \A i \in DOMAIN stdin : \A j \in (i + 1)..Len(stdin) :
           j # 1 /\ j \in DOMAIN stdin /\ j - 1 \in i..Len(stdin')
      /\ 1 + 1 = 2
  BY <1>1
<1> HIDE DEF first
<1>4. ASSUME OpenInEnd PROVE OpenInEnd'
  <2>1. ASSUME NEW i \in DOMAIN stdin, stdin[i].method = "didOpen",
               \A j \in (i + 1)..Len(stdin) : stdin[j].method # "didClose", i # 1
        PROVE  OpenInEnd'
    <3>1. i - 1 \in DOMAIN stdin' /\ stdin'[i - 1].method = "didOpen"
      BY <1>1, <1>3, <2>1
    <3>2. \A j \in ((i - 1) + 1)..Len(stdin') : stdin'[j].method # "didClose"
      <4> SUFFICES ASSUME NEW j \in ((i - 1) + 1)..Len(stdin') PROVE stdin'[j].method # "didClose"
        OBVIOUS
      <4>1. j \in DOMAIN stdin' /\ j + 1 \in (i + 1)..Len(stdin)
        BY <1>1, <3>1
      <4> QED
        BY <1>1, <2>1, <4>1
    <3> QED
      BY <3>1, <3>2 DEF OpenInEnd
  <2>2. ASSUME \A j \in 2..Len(stdin) : stdin[j].method # "didClose",
               server'.version # Closed
        PROVE  OpenInEnd'
    BY <1>1, <1>3, <2>2 DEF OpenInEnd
  <2>3. CASE server.version # Closed /\ \A i \in DOMAIN stdin : stdin[i].method # "didClose"
    <3>1. \A j \in 2..Len(stdin) : stdin[j].method # "didClose"
      BY <1>1, <2>3
    <3>2. first.method # "didClose"
      BY <1>1, <2>3 DEF first
    <3> QED
      BY <1>1, <1>2, <2>2, <2>3, <3>1, <3>2
  <2>4. CASE \E i \in DOMAIN stdin :
              stdin[i].method = "didOpen" /\ \A j \in (i + 1)..Len(stdin) : stdin[j].method # "didClose"
    <3>1. PICK i \in DOMAIN stdin :
              stdin[i].method = "didOpen" /\ \A j \in (i + 1)..Len(stdin) : stdin[j].method # "didClose"
      BY <2>4
    <3>2. CASE i = 1
      <4>1. first.method = "didOpen" /\ \A j \in 2..Len(stdin) : stdin[j].method # "didClose"
        BY <1>3, <3>1, <3>2 DEF first
      <4> QED
        BY <1>1, <1>2, <2>2, <4>1
    <3> QED
      BY <2>1, <3>1, <3>2
  <2> QED
    BY <1>4, <2>3, <2>4 DEF OpenInEnd
<1>5. ASSUME ClosedInEnd PROVE ClosedInEnd'
  <2>1. ASSUME NEW i \in DOMAIN stdin, stdin[i].method = "didClose",
               \A j \in (i + 1)..Len(stdin) : stdin[j].method # "didOpen", i # 1
        PROVE  ClosedInEnd'
    <3>1. i - 1 \in DOMAIN stdin' /\ stdin'[i - 1].method = "didClose"
      BY <1>1, <1>3, <2>1
    <3>2. \A j \in ((i - 1) + 1)..Len(stdin') : stdin'[j].method # "didOpen"
      <4> SUFFICES ASSUME NEW j \in ((i - 1) + 1)..Len(stdin') PROVE stdin'[j].method # "didOpen"
        OBVIOUS
      <4>1. j \in DOMAIN stdin' /\ j + 1 \in (i + 1)..Len(stdin)
        BY <1>1, <3>1
      <4> QED
        BY <1>1, <2>1, <4>1
    <3> QED
      BY <3>1, <3>2 DEF ClosedInEnd
  <2>2. ASSUME \A j \in 2..Len(stdin) : stdin[j].method # "didOpen",
               server'.version = Closed
        PROVE  ClosedInEnd'
    BY <1>1, <1>3, <2>2 DEF ClosedInEnd
  <2>3. CASE server.version = Closed /\ \A i \in DOMAIN stdin : stdin[i].method # "didOpen"
    <3>1. \A j \in 2..Len(stdin) : stdin[j].method # "didOpen"
      BY <1>1, <2>3
    <3>2. first.method # "didOpen"
      BY <1>1, <2>3 DEF first
    <3> QED
      BY <1>1, <1>2, <2>2, <2>3, <3>1, <3>2
  <2>4. CASE \E i \in DOMAIN stdin :
              stdin[i].method = "didClose" /\ \A j \in (i + 1)..Len(stdin) : stdin[j].method # "didOpen"
    <3>1. PICK i \in DOMAIN stdin :
              stdin[i].method = "didClose" /\ \A j \in (i + 1)..Len(stdin) : stdin[j].method # "didOpen"
      BY <2>4
    <3>2. CASE i = 1
      <4>1. first.method = "didClose" /\ \A j \in 2..Len(stdin) : stdin[j].method # "didOpen"
        BY <1>3, <3>1, <3>2 DEF first
      <4> QED
        BY <1>1, <1>2, <2>2, <4>1
    <3> QED
      BY <2>1, <3>1, <3>2
  <2> QED
    BY <1>5, <2>3, <2>4 DEF ClosedInEnd
<1>6. ASSUME NEW n \in Nat, Bounded(n) PROVE Bounded(n)'
  <2>1. ASSUME NEW i \in DOMAIN stdin', stdin'[i].method # "request",
               \A j \in (i + 1)..Len(stdin') : ~Resets(stdin'[j])
        PROVE  stdin'[i].number <= n
    <3>1. i + 1 \in DOMAIN stdin /\ stdin'[i] = stdin[i + 1]
      BY <1>1
    <3>2. \A j \in ((i + 1) + 1)..Len(stdin) : ~Resets(stdin[j])
      <4> SUFFICES ASSUME NEW j \in ((i + 1) + 1)..Len(stdin) PROVE ~Resets(stdin[j])
        OBVIOUS
      <4>1. j - 1 \in (i + 1)..Len(stdin') /\ j - 1 \in DOMAIN stdin' /\ (j - 1) + 1 = j
        BY <1>1, <3>1
      <4>2. stdin'[j - 1] = stdin[j]
        BY <1>1, <4>1
      <4> QED
        BY <2>1, <4>1, <4>2
    <3> QED
      BY <1>6, <2>1, <3>1, <3>2 DEF Bounded
  <2>2. ASSUME \A i \in DOMAIN stdin' : ~Resets(stdin'[i])
        PROVE  server'.version <= n
    <3>1. \A j \in 2..Len(stdin) : ~Resets(stdin[j])
      <4> SUFFICES ASSUME NEW j \in 2..Len(stdin) PROVE ~Resets(stdin[j])
        OBVIOUS
      <4>1. j - 1 \in DOMAIN stdin' /\ (j - 1) + 1 = j
        BY <1>1
      <4> QED
        BY <1>1, <2>2, <4>1
    <3>2. first.method # "request" => first.number <= n
      BY <1>1, <1>3, <1>6, <3>1 DEF Bounded, first
    <3>3. ~Resets(first) => \A i \in DOMAIN stdin : ~Resets(stdin[i])
      BY <1>1, <3>1 DEF first
    <3>4. ~Resets(first) => server.version <= n
      BY <1>6, <3>3 DEF Bounded
    <3> QED
      BY <1>1, <1>2, <3>2, <3>4 DEF Resets
  <2> QED
    BY <2>1, <2>2 DEF Bounded
<1> QED
  BY <1>4, <1>5, <1>6

LEMMA ServeStep ==
  ASSUME IInv, Serve
  PROVE  IInv'
<1>1. UNCHANGED <<open_document, pending, next_request_id, call, reader, clashed>> /\ server.alive
  BY DEF Serve, Unchanged
<1>2. Shape'
  BY <1>1, ServeMoves DEF IInv, Shape, Ids
<1>3. Numbers'
  <2>1. \A i \in DOMAIN stdin' : i + 1 \in DOMAIN stdin /\ stdin'[i] = stdin[i + 1]
    BY ServeMoves
  <2> QED
    BY <1>1, <2>1 DEF IInv, Numbers, At, Ids
<1>4. Settled' <=> Settled
  BY <1>1 DEF Settled, At
<1>5. Agreement'
  BY <1>1, <1>4, ServeKeepsOutcome DEF IInv, Agreement, At
<1>6. PICK n \in Nat : n = open_document
  BY DEF IInv, Shape
<1>7. Bounded(open_document) => Bounded(open_document)'
  <2>1. Bounded(open_document) => Bounded(n)
    BY <1>6 DEF Bounded
  <2>2. Bounded(n)' => Bounded(open_document)'
    BY <1>1, <1>6 DEF Bounded
  <2> QED
    BY <2>1, <2>2, ServeKeepsOutcome
<1>8. (Bounded(1) => Bounded(1)') /\ (Bounded(Closed) => Bounded(Closed)')
  BY ServeKeepsOutcome DEF Closed
<1>9. Versions'
  BY <1>1, <1>4, <1>7, <1>8 DEF IInv, Versions, At
<1> QED
  BY <1>2, <1>3, <1>5, <1>9 DEF IInv

LEMMA ServerTalks ==
  ASSUME IInv, Respond \/ Interject
  PROVE  IInv'
<1>1. UNCHANGED <<open_document, pending, next_request_id, call, reader, clashed, stdin>>
  BY DEF Respond, Interject, Unchanged
<1>2. /\ server' \in [alive : BOOLEAN, version : Nat, unanswered : SUBSET Ids, interjected : BOOLEAN]
      /\ server'.version = server.version /\ server'.alive = server.alive
  BY DEF Respond, Interject, IInv, Shape
<1>3. Shape' /\ Numbers'
  BY <1>1, <1>2 DEF IInv, Shape, Numbers, Ids, At
<1> QED
  BY <1>1, <1>2, <1>3, Frame DEF IInv, At

LEMMA DieStep ==
  ASSUME IInv, Die
  PROVE  IInv'
<1>1. UNCHANGED <<open_document, pending, next_request_id, call, reader, clashed, stdin>>
      /\ server' = [server EXCEPT !.alive = FALSE, !.unanswered = {}]
  BY DEF Die, Kill, Unchanged
<1>2. Shape' /\ Numbers' /\ ~server'.alive
  BY <1>1 DEF IInv, Shape, Numbers, Ids, At
<1> QED
  BY <1>2 DEF IInv, Agreement, Versions

LEMMA StutterStep ==
  ASSUME IInv, UNCHANGED vars
  PROVE  IInv'
<1>1. UNCHANGED <<open_document, pending, next_request_id, call, reader, clashed, stdin, server>>
  BY DEF vars
<1>2. Shape' /\ Numbers'
  BY <1>1 DEF IInv, Shape, Numbers, Ids, At
<1> QED
  BY <1>1, <1>2, Frame DEF IInv, At

-----------------------------------------------------------------------------

LEMMA InitHolds == ASSUME Init PROVE IInv
<1>1. open_document \in Nat /\ server.version = open_document /\ stdin = <<>>
      /\ DOMAIN stdin = {}
  BY DEF Init, Closed
<1>2. \A c \in Callers : call[c].at = "none"
  BY DEF Init
<1>3. call \in [Callers -> CallState]
  BY DEF Init, CallState, Places
<1>4. Shape
  BY <1>1, <1>3 DEF Init, Shape
<1>5. Numbers
  BY <1>1, <1>2 DEF Numbers, At
<1>6. Agreement
  BY <1>1, <1>2 DEF Agreement, At, OpenInEnd, ClosedInEnd
<1>7. Versions
  BY <1>1, <1>2 DEF Versions, At, Bounded
<1> QED
  BY <1>4, <1>5, <1>6, <1>7 DEF IInv

LEMMA Inductive == IInv /\ [Next]_vars => IInv'
<1> SUFFICES ASSUME IInv, [Next]_vars PROVE IInv'
  OBVIOUS
<1>1. ASSUME NEW c \in Callers, Begin(c) PROVE IInv'
  BY <1>1, BeginStep
<1>2. ASSUME NEW c \in Callers, CallStep(c) PROVE IInv'
  BY <1>2, CheckStep, SendOpenStep, InsertStep, BumpStep, SendChangeStep, SendCloseStep,
     RemoveStep, RegisterStep, AskStep, ExitStep DEF CallStep
<1>3. CASE ReaderStep
  BY <1>3, ReaderKeeps
<1>4. CASE ServerAnswers
  BY <1>4, ServeStep, ServerTalks DEF ServerAnswers
<1>5. CASE Interject
  BY <1>5, ServerTalks
<1>6. CASE Die
  BY <1>6, DieStep
<1>7. CASE UNCHANGED vars
  BY <1>7, StutterStep
<1> QED
  BY <1>1, <1>2, <1>3, <1>4, <1>5, <1>6, <1>7 DEF Next

LEMMA Always == Spec => []IInv
BY InitHolds, Inductive, PTL DEF Spec

\* The numbers under which calls wait and that the server may answer have been
\* given out, and the rest has its shape.
THEOREM TypeCorrect == Spec => []TypeOK
<1>1. IInv => TypeOK
  <2> SUFFICES ASSUME IInv PROVE TypeOK
    OBVIOUS
  <2>1. \A c \in Callers : call[c].kind \in Kinds \cup {"none"}
    BY DEF IInv, Shape, CallState
  <2> QED
    BY <2>1 DEF IInv, Shape, TypeOK, Ids
<1> QED
  BY <1>1, Always, PTL

\* Client and server agree about the document whenever no call is at it and
\* the server has read everything, for any calls in any order, unless a close
\* (for its version: or an opening) overlapped with another call.
THEOREM DocumentsAgreeAlways == Spec => []DocumentsAgree
<1>1. IInv => DocumentsAgree
  <2> SUFFICES ASSUME IInv, stdin = <<>>, server.alive, \A c \in Callers : Doing(c) = "none",
                      "closing" \notin clashed
               PROVE  /\ server.version # Closed <=> open_document # Closed
                      /\ "opening" \notin clashed => server.version <= open_document
    BY DEF DocumentsAgree
  <2>1. Settled
    BY DoingPlaces DEF Settled
  <2>2. DOMAIN stdin = {}
    OBVIOUS
  <2>3. server.version # Closed <=> open_document # Closed
    BY <2>1, <2>2 DEF IInv, Agreement, OpenInEnd, ClosedInEnd
  <2>4. "opening" \notin clashed => server.version <= open_document
    BY <2>1, <2>2 DEF IInv, Versions, Bounded
  <2> QED
    BY <2>3, <2>4
<1> QED
  BY <1>1, Always, PTL
=============================================================================
