------------------------------ MODULE McpManager ------------------------------
(***************************************************************************)
(* The MCP servers of one process (runtime/src/mcp_stdio.rs): children     *)
(* that are spoken to over their pipes, one operation at a time, and the   *)
(* tools they were found to have.                                          *)
(*                                                                         *)
(* The terminal discovers when it starts and never calls; the HTTP server  *)
(* has a route for calls and never discovers.  Modelled is a caller that   *)
(* does both and shuts down, as the tests do.  The manager is locked for a *)
(* whole operation; a client that hangs up drops one while it waits.  A    *)
(* server is the environment: it answers in the order it is asked, speaks  *)
(* out of turn, and dies.  The pipe takes a request whole.                 *)
(***************************************************************************)
EXTENDS Naturals, Sequences

CONSTANTS Last,        \* servers are 1..Last, in the order of their names
          Tools,       \* names a server may give a tool
          NameOf,      \* [Servers \X Tools -> the names the model is shown]
          MaxRequests  \* bound: requests that are sent

Servers == 1..Last

VARIABLES process,          \* per server: the child that is held, and its pipes
          initialized,      \* servers that have been initialised
          tool_index,       \* routes
          discovered,
          next_request_id,
          op,               \* the operation under way
          mixed,            \* history: servers that spoke out of turn, or whose answer no one took
          mistaken          \* history: servers with an answer taken for another request's

vars == <<process, initialized, tool_index, discovered, next_request_id, op, mixed, mistaken>>
tools == <<tool_index, discovered>>
history == <<mixed, mistaken>>

NoProcess == [held |-> FALSE, alive |-> FALSE, stdin |-> <<>>, stdout |-> <<>>]
Spawned == [held |-> TRUE, alive |-> TRUE, stdin |-> <<>>, stdout |-> <<>>]
Idle == [kind |-> "none", server |-> 0, at |-> "none", number |-> 0]

\* mcp_tool_name.  Normalisation makes one name of many: tools of two servers,
\* and tools of one, may come to share a name.
Qualified(s, tool) == NameOf[s, tool]
NameFor(t) == Qualified(t.server, t.tool)
Route(t) == [name |-> NameFor(t), server |-> t.server, tool |-> t.tool]

Init ==
  /\ process = [s \in Servers |-> NoProcess]
  /\ initialized = {}
  /\ tool_index = {}
  /\ discovered = {}
  /\ next_request_id = 1
  /\ op = Idle
  /\ mixed = {}
  /\ mistaken = {}

-----------------------------------------------------------------------------
(* The operations begin.  A tool without a route is an error at once.      *)

Begin(kind, s, place) ==
  /\ op = Idle
  /\ op' = [Idle EXCEPT !.kind = kind, !.server = s, !.at = place]
  /\ UNCHANGED <<process, initialized, tools, next_request_id, history>>

DiscoverTools == Begin("discover", 1, "ready")
CallTool == \E route \in tool_index : Begin("call", route.server, "ready")
Shutdown == Begin("shutdown", 1, "kill")

Goto(place) == op' = [op EXCEPT !.at = place]

-----------------------------------------------------------------------------
(* ensure_server_ready.                                                    *)

Spawn ==
  /\ op.at = "ready" /\ ~process[op.server].held
  /\ \/ op' = Idle /\ UNCHANGED <<process, initialized, history>>
     \/ /\ process' = [process EXCEPT ![op.server] = Spawned]
        /\ initialized' = initialized \ {op.server}
        /\ mixed' = mixed \ {op.server}
        /\ mistaken' = mistaken \ {op.server}
        /\ UNCHANGED op
  /\ UNCHANGED <<tools, next_request_id>>

\* A request takes a number, and fails when the server is gone.
Send(method, place) ==
  /\ next_request_id <= MaxRequests
  /\ next_request_id' = next_request_id + 1
  /\ IF process[op.server].alive
       THEN /\ process' = [process EXCEPT ![op.server].stdin =
                             Append(@, [method |-> method, number |-> next_request_id])]
            /\ op' = [op EXCEPT !.at = place, !.number = next_request_id]
       ELSE op' = Idle /\ UNCHANGED process

\* Fault: the server counts as initialised once it was asked.
Fault_NotAwaited ==
  /\ op.at = "ready" /\ process[op.server].held /\ op.server \notin initialized
  /\ Send("initialize", "ask")
  /\ initialized' = initialized \cup {op.server}
  /\ UNCHANGED <<tools, history>>

Initialize ==
  /\ op.at = "ready" /\ process[op.server].held /\ op.server \notin initialized
  /\ Send("initialize", "initialize")
  /\ UNCHANGED <<initialized, tools, history>>

AlreadyReady ==
  /\ op.at = "ready" /\ process[op.server].held /\ op.server \in initialized
  /\ Goto("ask")
  /\ UNCHANGED <<process, initialized, tools, next_request_id, history>>

-----------------------------------------------------------------------------
(* The requests.                                                           *)

\* Fault: the routes go and the tools stay.
Fault_RoutesOnly(s) ==
  /\ tool_index' = {route \in tool_index : route.server # s}
  /\ UNCHANGED discovered

Forget(s) ==
  /\ tool_index' = {route \in tool_index : route.server # s}
  /\ discovered' = {t \in discovered : t.server # s}

\* A page of tools: a name that is there already is routed anew, to the last
\* tool of the page that has it.
Learn(s, offered) ==
  LET new == {[server |-> s, tool |-> tool] : tool \in offered}
  IN \E last \in SUBSET new :
       /\ \A t \in new : \E u \in last : NameFor(u) = NameFor(t)
       /\ \A t, u \in last : NameFor(u) = NameFor(t) => u = t
       /\ tool_index' = {old \in tool_index : \A t \in last : NameFor(t) # old.name}
                           \cup {Route(t) : t \in last}
       /\ discovered' = discovered \cup new

Ask ==
  /\ op.at = "ask"
  /\ IF op.kind = "discover"
       THEN Forget(op.server) /\ Send("list", "list")
       ELSE Send("call", "call") /\ UNCHANGED tools
  /\ UNCHANGED <<initialized, history>>

NextPage ==
  /\ op.at = "page"
  /\ Send("list", "list")
  /\ UNCHANGED <<initialized, tools, history>>

\* Where discovery and shutdown go after a server.
NextServer(place) ==
  op' = IF op.server = Last THEN Idle ELSE [op EXCEPT !.server = @ + 1, !.at = place]

\* What is no response, or a result of another method, cannot be read; a
\* result of tools/call may lack everything, so that any result will do.
Readable(frame, method) ==
  /\ frame.form # "notification"
  /\ frame.form = "result" => method = "call" \/ frame.method = method

InitializeAnswered ==
  /\ initialized' = initialized \cup {op.server}
  /\ Goto("ask")
  /\ UNCHANGED tools

ListAnswered ==
  /\ \E offered \in SUBSET Tools : Learn(op.server, offered)
  /\ Goto("page") \/ NextServer("ready")
  /\ UNCHANGED initialized

\* One frame is read, whatever it answers.
ReadResponse ==
  /\ op.at \in {"initialize", "list", "call"}
  /\ process[op.server].stdout # <<>>
  /\ process' = [process EXCEPT ![op.server].stdout = Tail(@)]
  /\ LET frame == Head(process[op.server].stdout)
         readable == Readable(frame, op.at)
     IN /\ mistaken' = IF readable /\ frame.number # op.number
                         THEN mistaken \cup {op.server} ELSE mistaken
        /\ IF op.at = "call" \/ ~readable \/ frame.form # "result"
             THEN op' = Idle /\ UNCHANGED <<initialized, tools>>
             ELSE \/ op.at = "initialize" /\ InitializeAnswered
                  \/ op.at = "list" /\ ListAnswered
  /\ UNCHANGED <<next_request_id, mixed>>

ReadEnd ==
  /\ op.at \in {"initialize", "list", "call"}
  /\ process[op.server].stdout = <<>> /\ ~process[op.server].alive
  /\ op' = Idle
  /\ UNCHANGED <<process, initialized, tools, next_request_id, history>>

\* The caller hangs up: what was asked is still answered.
Dropped ==
  /\ op.at \in {"initialize", "list", "call", "kill"}
  /\ op' = Idle
  /\ mixed' = IF op.at = "kill" THEN mixed ELSE mixed \cup {op.server}
  /\ UNCHANGED <<process, initialized, tools, next_request_id, mistaken>>

\* The routes stay, and the next call starts the server again.
Kill ==
  /\ op.at = "kill"
  /\ process' = [process EXCEPT ![op.server] = NoProcess]
  /\ initialized' = initialized \ {op.server}
  /\ NextServer("kill")
  /\ UNCHANGED <<tools, next_request_id, history>>

Operation ==
  \/ Spawn \/ Initialize \/ AlreadyReady \/ Ask \/ NextPage \/ ReadResponse \/ ReadEnd
  \/ Dropped \/ Kill

-----------------------------------------------------------------------------
(* The servers.                                                            *)

Unchanged == UNCHANGED <<initialized, tools, next_request_id, op, mistaken>>

Reply(s) ==
  /\ process[s].alive /\ process[s].stdin # <<>>
  /\ \E form \in {"result", "error"} :
       LET asked == Head(process[s].stdin)
           frame == [form |-> form, method |-> asked.method, number |-> asked.number]
       IN process' = [process EXCEPT ![s].stdin = Tail(@), ![s].stdout = Append(@, frame)]
  /\ UNCHANGED mixed /\ Unchanged

\* Once: a request of its own, or a notification.
Interject(s) ==
  /\ process[s].alive /\ s \notin mixed
  /\ \E form \in {"request", "notification"} :
       process' = [process EXCEPT ![s].stdout =
                     Append(@, [form |-> form, method |-> "own", number |-> 0])]
  /\ mixed' = mixed \cup {s}
  /\ Unchanged

Die(s) ==
  /\ process[s].alive
  /\ process' = [process EXCEPT ![s].alive = FALSE, ![s].stdin = <<>>]
  /\ UNCHANGED mixed /\ Unchanged

Next ==
  \/ DiscoverTools \/ CallTool \/ Shutdown
  \/ Operation
  \/ \E s \in Servers : Reply(s) \/ Interject(s) \/ Die(s)

Spec == Init /\ [][Next]_vars

-----------------------------------------------------------------------------
(* Properties.                                                             *)

TypeOK ==
  /\ \A s \in Servers : process[s].alive => process[s].held
  /\ \A s \in initialized : s \in Servers /\ process[s].held
  /\ \A t \in discovered : t.server \in Servers /\ t.tool \in Tools
  /\ next_request_id \in 1..(MaxRequests + 1)
  /\ op # Idle => op.server \in Servers
  /\ mixed \cup mistaken \subseteq Servers

\* Tools whose name a tool of another server has as well.
Contested(t) ==
  \E s \in Servers \ {t.server}, tool \in Tools : Qualified(s, tool) = NameFor(t)

\* Wherever a discovery broke off, under the name of a tool that was discovered
\* a call reaches a tool that was discovered at the same server; it is that
\* very tool unless the server has two of one name.  Excepted is a tool whose
\* name another server's has, which may have lost its route to it, and with it
\* to nobody.  A name has one route, and no route outlives its tool.
ToolsShownAreRouted ==
  /\ \A t \in discovered :
       Contested(t) \/ \E route \in tool_index : route.server = t.server /\ route.name = NameFor(t)
  /\ \A route \in tool_index : \E t \in discovered : route = Route(t)
  /\ \A r1, r2 \in tool_index : r1.name = r2.name => r1 = r2

\* Answers are taken in the order of the requests and by no number.  As long
\* as a server speaks when it is asked, and each answer finds its caller,
\* none is taken for that of another request, over errors, deaths and new
\* starts.
AnswersMatch == mistaken \subseteq mixed
=============================================================================
