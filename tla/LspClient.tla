------------------------------ MODULE LspClient ------------------------------
(***************************************************************************)
(* A connection to a language server (lsp/src/client.rs, manager.rs):      *)
(* calls that share the pipe to it, the table of requests that wait, the   *)
(* open documents, and the task that reads what the server writes.         *)
(*                                                                         *)
(* Documents share nothing, so that there is one.  The server is connected *)
(* and initialised, which happens under the manager's lock.  It is the     *)
(* environment: it reads and answers when it likes, asks with numbers of   *)
(* its own, writes what cannot be parsed, and dies.                        *)
(***************************************************************************)
EXTENDS Naturals, Sequences

CONSTANTS Callers,     \* calls of the manager, each one operation
          MaxRequests  \* numbers of requests, a bound for the server's own

Kinds == {"open", "change", "define", "close", "shutdown"}
Closed == 0

VARIABLES open_document,  \* its version in open_documents, or Closed
          pending,        \* pending_requests
          next_request_id,
          call,           \* where each call is, its number or version
          stdin,          \* written to the server and not read by it
          server,         \* whether it lives, and what it knows of the document
          stdout,         \* written by the server and not read
          reader,         \* the task of spawn_reader
          retired,        \* the manager has let go of this client
          clashed         \* history: what overlapping calls may have spoilt

vars == <<open_document, pending, next_request_id, call, stdin, server, stdout, reader,
          retired, clashed>>
pipes == <<stdin, server, stdout, reader>>

DidOpen == [method |-> "didOpen", number |-> 1]
DidChange(v) == [method |-> "didChange", number |-> v]
DidClose == [method |-> "didClose", number |-> 0]
Request(id) == [method |-> "request", number |-> id]
Answer(id) == [method |-> "answer", number |-> id]
Garbage == [method |-> "garbage", number |-> 0]

\* Calls that are over may have left the document open.
Init ==
  /\ open_document \in {Closed, 1}
  /\ pending = {}
  /\ next_request_id = 1
  /\ call = [c \in Callers |-> [kind |-> "none", at |-> "none", number |-> 0, late |-> FALSE]]
  /\ stdin = <<>>
  /\ server = [alive |-> TRUE, version |-> open_document, unanswered |-> {}, interjected |-> FALSE]
  /\ stdout = <<>>
  /\ reader = "reading"
  /\ retired = FALSE
  /\ clashed = {}

-----------------------------------------------------------------------------
(* The calls.  Between two of their steps others get the locks.            *)

At(c, place) == call[c].at = place
Goto(c, place) == call' = [call EXCEPT ![c].at = place]

\* The manager hands the client out until shutdown takes it.
Begin(c) ==
  /\ At(c, "none")
  /\ ~retired
  /\ \E kind \in Kinds :
       /\ call' = [call EXCEPT ![c].kind = kind,
                     ![c].at = CASE kind = "open" -> "send_open"
                                 [] kind = "shutdown" -> "register"
                                 [] OTHER -> "check"]
       /\ retired' = (kind = "shutdown")
  /\ UNCHANGED <<open_document, pending, next_request_id, pipes, clashed>>

\* is_document_open, at the beginning of change, close and ensure_document_open.
Check(c) ==
  /\ At(c, "check")
  /\ Goto(c, IF open_document = Closed
               THEN IF call[c].kind = "close" THEN "over" ELSE "send_open"
               ELSE CASE call[c].kind = "close" -> "send_close"
                      [] call[c].kind = "change" -> "bump"
                      [] OTHER -> "register")
  /\ UNCHANGED <<open_document, pending, next_request_id, pipes, retired, clashed>>

\* send_message: whole messages, under the writer's lock.  A call on a server
\* that is gone ends with the error.
Written(msg) == server.alive /\ stdin' = Append(stdin, msg)
NotWritten == ~server.alive /\ UNCHANGED stdin

\* What a call is doing to the document.
Doing(c) ==
  CASE call[c].at \in {"send_open", "insert"} -> "opening"
    [] call[c].at \in {"bump", "send_change"} -> "changing"
    [] call[c].at \in {"send_close", "remove"} -> "closing"
    [] OTHER -> "none"

Clash(c) ==
  LET others == {Doing(d) : d \in Callers \ {c}} \ {"none"}
  IN clashed' = IF others = {} THEN clashed ELSE clashed \cup others \cup {Doing(c)}

SendOpen(c) ==
  /\ At(c, "send_open")
  /\ \/ Written(DidOpen) /\ Goto(c, "insert")
     \/ NotWritten /\ Goto(c, "over")
  /\ Clash(c)
  /\ UNCHANGED <<open_document, pending, next_request_id, server, stdout, reader, retired>>

Insert(c) ==
  /\ At(c, "insert")
  /\ open_document' = 1
  /\ Goto(c, IF call[c].kind = "define" THEN "register" ELSE "over")
  /\ Clash(c)
  /\ UNCHANGED <<pending, next_request_id, pipes, retired>>

\* Fault: the version is taken and not kept.
Fault_NotKept(c) ==
  /\ At(c, "bump")
  /\ call' = [call EXCEPT ![c].at = "send_change", ![c].number = open_document + 1]
  /\ Clash(c)
  /\ UNCHANGED <<open_document, pending, next_request_id, pipes, retired>>

\* The next version, of a document that a close may have removed since.
Bump(c) ==
  /\ At(c, "bump")
  /\ open_document' = open_document + 1
  /\ call' = [call EXCEPT ![c].at = "send_change", ![c].number = open_document + 1]
  /\ Clash(c)
  /\ UNCHANGED <<pending, next_request_id, pipes, retired>>

SendChange(c) ==
  /\ At(c, "send_change")
  /\ Written(DidChange(call[c].number)) \/ NotWritten
  /\ Goto(c, "over")
  /\ Clash(c)
  /\ UNCHANGED <<open_document, pending, next_request_id, server, stdout, reader, retired>>

SendClose(c) ==
  /\ At(c, "send_close")
  /\ \/ Written(DidClose) /\ Goto(c, "remove")
     \/ NotWritten /\ Goto(c, "over")
  /\ Clash(c)
  /\ UNCHANGED <<open_document, pending, next_request_id, server, stdout, reader, retired>>

Remove(c) ==
  /\ At(c, "remove")
  /\ open_document' = Closed
  /\ Goto(c, "over")
  /\ Clash(c)
  /\ UNCHANGED <<pending, next_request_id, pipes, retired>>

\* request: the number, and the sender that waits under it.
Register(c) ==
  /\ At(c, "register")
  /\ next_request_id' = next_request_id + 1
  /\ pending' = pending \cup {next_request_id}
  /\ call' = [call EXCEPT ![c].at = "ask", ![c].number = next_request_id,
                          ![c].late = reader # "reading"]
  /\ UNCHANGED <<open_document, pipes, retired, clashed>>

\* shutdown goes on to kill the server whatever becomes of its request.
AfterRequest(c) == IF call[c].kind = "shutdown" THEN "exit" ELSE "over"

\* What came for the number before the request was sent ends it as well.
Ask(c) ==
  /\ At(c, "ask")
  /\ \/ /\ Written(Request(call[c].number))
        /\ Goto(c, IF call[c].number \in pending THEN "await" ELSE AfterRequest(c))
        /\ UNCHANGED pending
     \/ NotWritten /\ Goto(c, AfterRequest(c)) /\ pending' = pending \ {call[c].number}
  /\ UNCHANGED <<open_document, next_request_id, server, stdout, reader, retired, clashed>>

Kill == server' = [server EXCEPT !.alive = FALSE, !.unanswered = {}]

\* The exit notification, and the end of the child.
Exit(c) ==
  /\ At(c, "exit")
  /\ Kill
  /\ Goto(c, "over")
  /\ UNCHANGED <<open_document, pending, next_request_id, stdin, stdout, reader, retired, clashed>>

CallStep(c) ==
  \/ Check(c) \/ SendOpen(c) \/ Insert(c) \/ Bump(c) \/ SendChange(c)
  \/ SendClose(c) \/ Remove(c) \/ Register(c) \/ Ask(c) \/ Exit(c)

-----------------------------------------------------------------------------
(* The task that reads.                                                    *)

\* The senders of the numbers ids are taken and used.
Wake(ids) ==
  /\ pending' = pending \ ids
  /\ call' = [c \in Callers |->
                IF At(c, "await") /\ call[c].number \in ids
                  THEN [call[c] EXCEPT !.at = AfterRequest(c)] ELSE call[c]]

\* Fault: only the requests that an answer names end.
Fault_NotDrained == reader' = "failed" /\ UNCHANGED <<pending, call>>

\* An error ends the task, and every request that waits with it.
Drain == reader' = "failed" /\ Wake(pending)

ReadMessage ==
  /\ reader = "reading"
  /\ stdout # <<>>
  /\ stdout' = Tail(stdout)
  /\ IF Head(stdout).method = "garbage" THEN Drain
     ELSE UNCHANGED reader /\ Wake({Head(stdout).number})
  /\ UNCHANGED <<open_document, next_request_id, stdin, server, retired, clashed>>

\* The stream ends between two messages, which is no error, or within one.
ReadEnd ==
  /\ reader = "reading"
  /\ stdout = <<>>
  /\ ~server.alive
  /\ \/ reader' = "over" /\ UNCHANGED <<pending, call>>
     \/ Drain
  /\ UNCHANGED <<open_document, next_request_id, stdin, server, stdout, retired, clashed>>

ReaderStep == ReadMessage \/ ReadEnd

-----------------------------------------------------------------------------
(* The server.                                                             *)

Unchanged == UNCHANGED <<open_document, pending, next_request_id, call, reader, retired, clashed>>

Serve ==
  /\ server.alive /\ stdin # <<>>
  /\ LET msg == Head(stdin)
     IN server' = CASE msg.method = "request" -> [server EXCEPT !.unanswered = @ \cup {msg.number}]
                    [] msg.method = "didChange" /\ server.version = Closed -> server
                    [] OTHER -> [server EXCEPT !.version = msg.number]
  /\ stdin' = Tail(stdin)
  /\ UNCHANGED stdout /\ Unchanged

Respond ==
  /\ \E id \in server.unanswered :
       /\ server' = [server EXCEPT !.unanswered = @ \ {id}]
       /\ stdout' = Append(stdout, Answer(id))
  /\ UNCHANGED stdin /\ Unchanged

ServerAnswers == Serve \/ Respond

\* Once, a request of its own, whose number may be that of one that waits, or
\* something that is no message.
Interject ==
  /\ server.alive /\ ~server.interjected
  /\ server' = [server EXCEPT !.interjected = TRUE]
  /\ \E msg \in {Request(id) : id \in 1..MaxRequests} \cup {Garbage} : stdout' = Append(stdout, msg)
  /\ UNCHANGED stdin /\ Unchanged

Die ==
  /\ server.alive
  /\ Kill
  /\ UNCHANGED <<stdin, stdout>> /\ Unchanged

Next ==
  \/ \E c \in Callers : Begin(c) \/ CallStep(c)
  \/ ReaderStep
  \/ ServerAnswers \/ Interject \/ Die

Spec == Init /\ [][Next]_vars

\* Calls and the reader go on, and a server that lives answers.
Fairness ==
  /\ \A c \in Callers : WF_vars(CallStep(c))
  /\ WF_vars(ReaderStep)
  /\ WF_vars(ServerAnswers)

FairSpec == Spec /\ Fairness

-----------------------------------------------------------------------------
(* Properties.                                                             *)

TypeOK ==
  /\ open_document \in Nat
  /\ pending \subseteq 1..(next_request_id - 1)
  /\ \A c \in Callers : call[c].kind \in Kinds \cup {"none"}
  /\ server.unanswered \subseteq 1..(next_request_id - 1)
  /\ reader \in {"reading", "over", "failed"}
  /\ clashed \subseteq {"opening", "changing", "closing"}

\* A call that waits for an answer gets one or an error, whoever else asks and
\* however the server ends, unless the stream ended between two messages or
\* had ended before the call: nobody wakes those.  (Each call waits once, so
\* that there is a time when none waits.)
Waits(c) == At(c, "await") /\ ~call[c].late
RequestsEnd ==
  (\E c \in Callers : Waits(c)) ~> reader = "over" \/ \A c \in Callers : ~Waits(c)

\* When no call is at the document and the server has read everything, it has
\* the document open exactly when the client believes so, unless a close
\* overlapped with another call; and it knows no version the client has yet
\* to give out, unless an opening overlapped, which sets the count back.
DocumentsAgree ==
  stdin = <<>> /\ server.alive /\ (\A c \in Callers : Doing(c) = "none") /\ "closing" \notin clashed
    => /\ server.version # Closed <=> open_document # Closed
       /\ "opening" \notin clashed => server.version <= open_document
=============================================================================
