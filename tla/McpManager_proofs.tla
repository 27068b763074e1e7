-------------------------- MODULE McpManager_proofs --------------------------
(***************************************************************************)
(* Proofs about McpManager, for any number of servers, any tools and any   *)
(* number of requests.                                                     *)
(***************************************************************************)
EXTENDS McpManager, TLAPS

\* There is a server to start with.
Sound == Last \in Nat \ {0} /\ MaxRequests \in Nat

Methods == {"initialize", "list", "call", "own"}
Request == [method : Methods, number : Nat]
Frame == [form : {"result", "error", "request", "notification"}, method : Methods, number : Nat]
Child == [held : BOOLEAN, alive : BOOLEAN, stdin : Seq(Request), stdout : Seq(Frame)]
Tool == [server : Servers, tool : Tools]
Places == {"none", "ready", "ask", "initialize", "list", "page", "call", "kill"}
OpState == [kind : {"none", "discover", "call", "shutdown"}, server : Nat, at : Places, number : Nat]
Awaiting == {"initialize", "list", "call"}

Shape ==
  /\ process \in [Servers -> Child]
  /\ initialized \subseteq Servers
  /\ discovered \subseteq Tool
  /\ next_request_id \in 1..(MaxRequests + 1)
  /\ op \in OpState
  /\ op = Idle \/ op.server \in Servers
  /\ op.at = "none" => op = Idle
  /\ mixed \subseteq Servers
  /\ mistaken \subseteq Servers

\* What runs is held, and so is what is or will be initialised; what does not
\* run reads nothing.
Held ==
  /\ \A s \in Servers : process[s].alive => process[s].held
  /\ \A s \in Servers : ~process[s].alive => process[s].stdin = <<>>
  /\ \A s \in initialized : process[s].held
  /\ op.at = "initialize" => process[op.server].held

HasRoute(t) == \E route \in tool_index : route.server = t.server /\ route.name = NameFor(t)

Routes ==
  /\ tool_index \subseteq {Route(t) : t \in discovered}
  /\ \A t \in discovered : Contested(t) \/ HasRoute(t)
  /\ \A r1, r2 \in tool_index : r1.name = r2.name => r1 = r2

Empty(s) == process[s].stdin = <<>> /\ process[s].stdout = <<>>

\* Of a request that waits, either it or its answer is in the pipes, alone.
OneIsThere(s) ==
  \/ Empty(s)
  \/ /\ \E r \in Request : process[s].stdin = <<r>> /\ r.number = op.number
     /\ process[s].stdout = <<>>
  \/ /\ process[s].stdin = <<>>
     /\ \E f \in Frame : process[s].stdout = <<f>> /\ f.number = op.number

\* The pipes of a server that spoke only when it was asked, and to a caller.
Pipes ==
  /\ mistaken \subseteq mixed
  /\ \A s \in Servers \ mixed :
       IF op.server = s /\ op.at \in Awaiting THEN OneIsThere(s) ELSE Empty(s)

Inv == Shape /\ Held /\ Routes /\ Pipes

-----------------------------------------------------------------------------
(* Names and routes.                                                       *)

LEMMA RouteOf ==
  ASSUME NEW t
  PROVE  /\ Route(t).name = NameFor(t) /\ Route(t).server = t.server
         /\ Route(t).tool = t.tool
BY DEF Route

\* A discovery that forgets a server keeps what is known of the others.
LEMMA ForgetKeepsRoutes ==
  ASSUME Inv, Sound, NEW s \in Servers, Forget(s)
  PROVE  Routes' /\ discovered' \subseteq Tool
<1>1. tool_index' = {route \in tool_index : route.server # s}
  BY DEF Forget
<1>2. discovered' = {t \in discovered : t.server # s}
  BY DEF Forget
<1>4. tool_index' \subseteq {Route(t) : t \in discovered'}
  BY <1>1, <1>2 DEF Inv, Routes, Route
<1>5. \A t \in discovered' : Contested(t) \/ HasRoute(t)'
  BY <1>1, <1>2 DEF Inv, Routes, HasRoute
<1>6. \A r1, r2 \in tool_index' : r1.name = r2.name => r1 = r2
  BY <1>1 DEF Inv, Routes
<1> QED
  BY <1>2, <1>4, <1>5, <1>6 DEF Routes, Inv, Shape

\* A page of tools routes each of its names, and takes no name that only tools
\* of another server have.
LEMMA LearnKeepsRoutes ==
  ASSUME Inv, Sound, NEW s \in Servers, NEW offered \in SUBSET Tools, Learn(s, offered)
  PROVE  Routes' /\ discovered' \subseteq Tool
<1> DEFINE new == {[server |-> s, tool |-> tool] : tool \in offered}
           old(last) == {r \in tool_index : \A t \in last : NameFor(t) # r.name}
<1>1. PICK last \in SUBSET new :
        /\ \A t \in new : \E u \in last : NameFor(u) = NameFor(t)
        /\ \A t, u \in last : NameFor(u) = NameFor(t) => u = t
        /\ tool_index' = old(last) \cup {Route(t) : t \in last}
        /\ discovered' = discovered \cup new
  BY DEF Learn
<1>2. \A t \in new : t \in Tool /\ t.server = s /\ t.tool \in Tools
  BY DEF Tool
<1>3. discovered \subseteq Tool /\ Routes
  BY DEF Inv, Shape
<1> HIDE DEF new
<1>4. tool_index' \subseteq {Route(t) : t \in discovered'}
  BY <1>1, <1>3 DEF Routes
<1>5. ASSUME NEW t \in discovered', ~Contested(t)
      PROVE  HasRoute(t)'
  <2>1. CASE t \in new
    <3>1. PICK u \in last : NameFor(u) = NameFor(t)
      BY <1>1, <2>1
    <3>2. Route(u) \in tool_index' /\ u \in new
      BY <1>1
    <3> QED
      BY <1>2, <2>1, <3>1, <3>2, RouteOf DEF HasRoute
  <2>2. CASE t \notin new
    <3>1. PICK route \in tool_index : route.server = t.server /\ route.name = NameFor(t)
      BY <1>1, <1>3, <1>5, <2>2 DEF Routes, HasRoute
    <3>2. CASE \A u \in last : NameFor(u) # route.name
      BY <1>1, <3>1, <3>2 DEF HasRoute
    <3>3. CASE \E u \in last : NameFor(u) = route.name
      <4>1. PICK u \in last : NameFor(u) = NameFor(t)
        BY <3>1, <3>3
      <4>2. u \in new /\ Qualified(s, u.tool) = NameFor(t) /\ u.tool \in Tools
        BY <1>1, <1>2, <4>1 DEF NameFor
      <4>3. t.server = s
        BY <1>5, <4>2 DEF Contested
      <4>4. Route(u) \in tool_index'
        BY <1>1
      <4> QED
        BY <1>2, <4>1, <4>2, <4>3, <4>4, RouteOf DEF HasRoute
    <3> QED
      BY <3>2, <3>3
  <2> QED
    BY <2>1, <2>2
<1>6. ASSUME NEW r1 \in tool_index', NEW r2 \in tool_index', r1.name = r2.name
      PROVE  r1 = r2
  <2>1. CASE r1 \in old(last) /\ r2 \in old(last)
    BY <1>3, <1>6, <2>1 DEF Routes
  <2>2. ASSUME NEW t \in last, r1 = Route(t) PROVE r1 = r2
    <3>1. r2 \notin old(last)
      BY <1>6, <2>2, RouteOf
    <3>2. PICK u \in last : r2 = Route(u)
      BY <1>1, <3>1
    <3> QED
      BY <1>1, <1>6, <2>2, <3>2, RouteOf
  <2>3. ASSUME NEW t \in last, r2 = Route(t) PROVE r1 = r2
    <3>1. r1 \notin old(last)
      BY <1>6, <2>3, RouteOf
    <3>2. PICK u \in last : r1 = Route(u)
      BY <1>1, <3>1
    <3> QED
      BY <1>1, <1>6, <2>3, <3>2, RouteOf
  <2> QED
    BY <1>1, <2>1, <2>2, <2>3
<1>7. discovered' \subseteq Tool
  BY <1>1, <1>2, <1>3
<1> QED
  BY <1>1, <1>4, <1>5, <1>6, <1>7 DEF Routes

-----------------------------------------------------------------------------
(* The steps.                                                              *)

LEMMA IdleTypes == Idle \in OpState /\ Idle.at = "none"
BY DEF Idle, OpState, Places

LEMMA InitInv ==
  ASSUME Init, Sound PROVE Inv
BY DEF Init, Inv, Shape, Held, Routes, Pipes, Empty, NoProcess, Idle, Child, OpState, Places,
       Servers, Awaiting, Sound

\* The operation goes where it awaits nothing, having awaited nothing.
LEMMA BeginInv ==
  ASSUME Inv, Sound, DiscoverTools \/ CallTool \/ Shutdown PROVE Inv'
<1>1. PICK kind \in {"discover", "call", "shutdown"}, s \in Servers, place \in {"ready", "kill"} :
        Begin(kind, s, place)
  <2>1. ASSUME NEW route \in tool_index PROVE route.server \in Servers
    BY DEF Inv, Routes, HasRoute, Shape, Route, Tool
  <2> QED
    BY <2>1 DEF DiscoverTools, CallTool, Shutdown, Servers, Sound
<1>2. op = Idle /\ op' = [Idle EXCEPT !.kind = kind, !.server = s, !.at = place]
  BY <1>1 DEF Begin
<1>3. UNCHANGED <<process, initialized, tool_index, discovered, next_request_id, mixed, mistaken>>
  BY <1>1 DEF Begin, tools, history
<1>4. op'.at = place /\ op'.server = s /\ op' \in OpState /\ op.at = "none"
  <2>1. s \in Nat
    BY DEF Servers, Sound
  <2>2. [Idle EXCEPT !.kind = kind, !.server = s, !.at = place] \in OpState
    BY <2>1, IdleTypes DEF OpState, Places
  <2> QED
    BY <1>2, <2>2, IdleTypes DEF OpState
<1>5. Shape'
  BY <1>3, <1>4 DEF Inv, Shape
<1>6. Held'
  BY <1>3, <1>4 DEF Inv, Held
<1>7. Routes'
  BY <1>3 DEF Inv, Routes, HasRoute
<1>8. Pipes'
  BY <1>3, <1>4 DEF Inv, Pipes, Empty, Awaiting
<1> QED
  BY <1>5, <1>6, <1>7, <1>8 DEF Inv

LEMMA SpawnInv ==
  ASSUME Inv, Sound, Spawn PROVE Inv'
<1> USE DEF Inv
<1>1. op \in OpState /\ op.server \in Servers /\ op.at = "ready"
  BY DEF Spawn, Shape, Idle
<1>2. CASE op' = Idle /\ UNCHANGED <<process, initialized, history>>
  BY <1>1, <1>2 DEF Spawn, Shape, Held, Routes, HasRoute, Pipes, Empty, Awaiting, Idle, OpState, Places, tools, history
<1>3. CASE /\ process' = [process EXCEPT ![op.server] = Spawned]
           /\ initialized' = initialized \ {op.server}
           /\ mixed' = mixed \ {op.server}
           /\ mistaken' = mistaken \ {op.server}
           /\ UNCHANGED op
  <2>1. Shape'
    BY <1>1, <1>3 DEF Spawn, Shape, Spawned, Child, tools
  <2>2. Held'
    BY <1>1, <1>3 DEF Spawn, Shape, Held, Spawned
  <2>3. Routes'
    BY DEF Spawn, Routes, HasRoute, tools
  <2>4. Pipes'
    BY <1>1, <1>3 DEF Spawn, Shape, Pipes, Empty, Awaiting, Spawned
  <2> QED
    BY <2>1, <2>2, <2>3, <2>4
<1> QED
  BY <1>2, <1>3 DEF Spawn

\* A request is the only thing in the pipes, and a server that is gone ends
\* the operation.
LEMMA SendInv ==
  ASSUME Inv, Sound, NEW method \in {"initialize", "list", "call"}, Send(method, method),
         op.at \in {"ready", "ask", "page"},
         UNCHANGED <<initialized, mixed, mistaken>>,
         Routes' /\ discovered' \subseteq Tool
  PROVE  Inv'
<1> USE DEF Inv
<1>1. op \in OpState /\ op.server \in Servers /\ op.at \notin Awaiting
  BY DEF Shape, Idle, Awaiting
<1>2. next_request_id \in Nat /\ next_request_id' \in 1..(MaxRequests + 1)
  BY DEF Send, Shape, Sound
<1>3. CASE ~process[op.server].alive
  <2>1. op' = Idle /\ UNCHANGED process
    BY <1>3 DEF Send
  <2> QED
    BY <1>1, <1>2, <2>1 DEF Shape, Held, Pipes, Empty, Awaiting, Idle, OpState, Places
<1>4. CASE process[op.server].alive
  <2> DEFINE r == [method |-> method, number |-> next_request_id]
  <2>1. /\ process' = [process EXCEPT ![op.server].stdin = Append(@, r)]
        /\ op' = [op EXCEPT !.at = method, !.number = next_request_id]
    BY <1>4 DEF Send
  <2>2. r \in Request
    BY <1>2 DEF Request, Methods
  <2>3. process \in [Servers -> Child]
    BY DEF Shape
  <2>4. op' \in OpState /\ op'.server = op.server /\ op'.at = method /\ op'.number = next_request_id
    BY <1>1, <1>2, <2>1 DEF OpState, Places
  <2>5. \A s \in Servers : s # op.server => process'[s] = process[s]
    BY <2>1, <2>3
  <2>6. /\ process'[op.server].alive /\ process'[op.server].held
        /\ process'[op.server].stdin = Append(process[op.server].stdin, r)
        /\ process'[op.server].stdout = process[op.server].stdout
    BY <1>1, <1>4, <2>1, <2>3 DEF Child, Held
  <2>7. process' \in [Servers -> Child]
    <3>1. process[op.server] \in Child
      BY <1>1, <2>3
    <3> HIDE DEF r
    <3>2. Append(process[op.server].stdin, r) \in Seq(Request)
      BY <2>2, <3>1 DEF Child
    <3>3. [process[op.server] EXCEPT !.stdin = Append(@, r)] \in Child
      BY <3>1, <3>2 DEF Child
    <3> QED
      BY <1>1, <2>1, <2>3, <3>3
  <2>8. Shape'
    BY <1>1, <1>2, <2>4, <2>7 DEF Shape
  <2>9. Held'
    BY <1>1, <2>4, <2>5, <2>6 DEF Held, Shape
  <2>10. ASSUME NEW s \in Servers \ mixed'
         PROVE  IF op'.server = s /\ op'.at \in Awaiting THEN OneIsThere(s)' ELSE Empty(s)'
    <3>1. Empty(s)
      BY <1>1 DEF Pipes
    <3>2. CASE s = op.server
      <4>1. process'[s].stdin = <<r>> /\ process'[s].stdout = <<>>
        BY <2>2, <2>6, <3>1, <3>2 DEF Empty
      <4>2. r.number = op'.number
        BY <2>4
      <4> HIDE DEF r
      <4> QED
        BY <2>2, <2>4, <3>2, <4>1, <4>2 DEF OneIsThere, Awaiting
    <3>3. CASE s # op.server
      BY <2>4, <2>5, <3>1, <3>3 DEF Empty
    <3> QED
      BY <3>2, <3>3
  <2> QED
    BY <2>8, <2>9, <2>10 DEF Pipes
<1> QED
  BY <1>3, <1>4

LEMMA InitializeInv ==
  ASSUME Inv, Sound, Initialize PROVE Inv'
<1>1. Send("initialize", "initialize") /\ UNCHANGED <<initialized, tool_index, discovered, mixed, mistaken>>
  BY DEF Initialize, tools, history
<1>2. Routes' /\ discovered' \subseteq Tool
  BY <1>1 DEF Inv, Shape, Routes, HasRoute
<1> QED
  BY <1>1, <1>2, SendInv DEF Initialize

LEMMA AskInv ==
  ASSUME Inv, Sound, Ask PROVE Inv'
<1>1. UNCHANGED <<initialized, mixed, mistaken>> /\ op.at = "ask"
  BY DEF Ask, history
<1>2. CASE op.kind = "discover"
  <2>1. Forget(op.server) /\ Send("list", "list")
    BY <1>2 DEF Ask
  <2>2. op.server \in Servers
    BY <1>1 DEF Inv, Shape, Idle
  <2> QED
    BY <1>1, <2>1, <2>2, ForgetKeepsRoutes, SendInv
<1>3. CASE op.kind # "discover"
  <2>1. Send("call", "call") /\ UNCHANGED <<tool_index, discovered>>
    BY <1>3 DEF Ask, tools
  <2>2. Routes' /\ discovered' \subseteq Tool
    BY <2>1 DEF Inv, Shape, Routes, HasRoute
  <2> QED
    BY <1>1, <2>1, <2>2, SendInv
<1> QED
  BY <1>2, <1>3

LEMMA NextPageInv ==
  ASSUME Inv, Sound, NextPage PROVE Inv'
<1>1. Send("list", "list") /\ UNCHANGED <<initialized, tool_index, discovered, mixed, mistaken>>
  BY DEF NextPage, tools, history
<1>2. Routes' /\ discovered' \subseteq Tool
  BY <1>1 DEF Inv, Shape, Routes, HasRoute
<1> QED
  BY <1>1, <1>2, SendInv DEF NextPage

LEMMA AlreadyReadyInv ==
  ASSUME Inv, Sound, AlreadyReady PROVE Inv'
<1>1. UNCHANGED <<process, initialized, tool_index, discovered, next_request_id, mixed, mistaken>>
  BY DEF AlreadyReady, tools, history
<1>2. op \in OpState /\ op.server \in Servers /\ op.at = "ready"
  BY DEF AlreadyReady, Inv, Shape, Idle
<1>3. op' \in OpState /\ op'.at = "ask" /\ op'.server = op.server
  BY <1>2 DEF AlreadyReady, Goto, OpState, Places
<1> QED
  BY <1>1, <1>2, <1>3 DEF Inv, Shape, Held, Routes, HasRoute, Pipes, Empty, Awaiting

\* Where an operation goes once a server is done.
LEMMA NextServerTypes ==
  ASSUME Sound, op \in OpState, op.server \in Servers, NEW place \in {"ready", "kill"},
         NextServer(place)
  PROVE  /\ op' \in OpState
         /\ op' = Idle \/ (op'.server \in Servers /\ op'.at = place)
<1>1. CASE op.server = Last
  BY <1>1, IdleTypes DEF NextServer
<1>2. CASE op.server # Last
  <2>1. op' = [op EXCEPT !.server = @ + 1, !.at = place]
    BY <1>2 DEF NextServer
  <2>2. op.server + 1 \in Servers /\ op.server + 1 \in Nat
    BY <1>2 DEF Servers, Sound
  <2>3. place \in Places
    BY DEF Places
  <2> QED
    BY <2>1, <2>2, <2>3 DEF OpState
<1> QED
  BY <1>1, <1>2

\* What a request awaited is read, and it was its own answer unless the pipes
\* had been mixed.
LEMMA ReadResponseInv ==
  ASSUME Inv, Sound, ReadResponse PROVE Inv'
<1> USE DEF Inv
<1> DEFINE srv == op.server
           frame == Head(process[srv].stdout)
           readable == Readable(frame, op.at)
<1>1. /\ op.at \in Awaiting
      /\ process[srv].stdout # <<>>
      /\ process' = [process EXCEPT ![srv].stdout = Tail(@)]
      /\ next_request_id' = next_request_id /\ mixed' = mixed
      /\ mistaken' = IF readable /\ frame.number # op.number THEN mistaken \cup {srv} ELSE mistaken
      /\ \/ op' = Idle /\ UNCHANGED <<initialized, tools>>
         \/ op.at = "initialize" /\ InitializeAnswered
         \/ op.at = "list" /\ ListAnswered
  BY DEF ReadResponse, Awaiting
<1>2. op \in OpState /\ srv \in Servers /\ process \in [Servers -> Child]
  BY <1>1 DEF Shape, Idle, Awaiting
<1>3. /\ \A s \in Servers : s # srv => process'[s] = process[s]
      /\ process'[srv].held = process[srv].held
      /\ process'[srv].alive = process[srv].alive
      /\ process'[srv].stdin = process[srv].stdin
      /\ process'[srv].stdout = Tail(process[srv].stdout)
  BY <1>1, <1>2 DEF Child
<1>4. process' \in [Servers -> Child]
  <2>1. process[srv] \in Child
    BY <1>2
  <2>2. Tail(process[srv].stdout) \in Seq(Frame)
    BY <1>1, <2>1 DEF Child
  <2>3. [process[srv] EXCEPT !.stdout = Tail(@)] \in Child
    BY <2>1, <2>2 DEF Child
  <2> QED
    BY <1>1, <1>2, <2>3
<1>5. /\ op' \in OpState
      /\ op' = Idle \/ (op'.server \in Servers /\ op'.at \in {"ask", "page", "ready"})
      /\ initialized' \subseteq initialized \cup {srv}
      /\ initialized' = initialized \/ op.at = "initialize"
      /\ Routes' /\ discovered' \subseteq Tool
  <2>1. CASE op' = Idle /\ UNCHANGED <<initialized, tools>>
    BY <2>1, IdleTypes DEF tools, Routes, HasRoute, Shape
  <2>2. CASE op.at = "initialize" /\ InitializeAnswered
    <3>1. /\ op' = [op EXCEPT !.at = "ask"] /\ UNCHANGED <<tool_index, discovered>>
          /\ initialized' = initialized \cup {srv}
      BY <2>2 DEF InitializeAnswered, Goto, tools
    <3>2. op' \in OpState /\ op'.server \in Servers /\ op'.at = "ask"
      BY <1>2, <3>1 DEF OpState, Places
    <3>3. Routes' /\ discovered' \subseteq Tool
      BY <3>1 DEF Routes, HasRoute, Shape
    <3> QED
      BY <2>2, <3>1, <3>2, <3>3
  <2>3. CASE op.at = "list" /\ ListAnswered
    <3>1. PICK offered \in SUBSET Tools : Learn(srv, offered)
      BY <2>3 DEF ListAnswered
    <3>2. Routes' /\ discovered' \subseteq Tool
      BY <1>2, <3>1, LearnKeepsRoutes
    <3>3. CASE Goto("page")
      <4>1. op' \in OpState /\ op'.server \in Servers /\ op'.at = "page"
        BY <1>2, <3>3 DEF Goto, OpState, Places
      <4> QED
        BY <2>3, <3>2, <4>1 DEF ListAnswered
    <3>4. CASE NextServer("ready")
      BY <1>2, <2>3, <3>2, <3>4, NextServerTypes DEF ListAnswered
    <3> QED
      BY <2>3, <3>3, <3>4 DEF ListAnswered
  <2> QED
    BY <1>1, <2>1, <2>2, <2>3
<1>6. op'.at \notin Awaiting /\ (op'.at = "none" => op' = Idle)
  BY <1>5 DEF Idle, Awaiting
<1>7. Shape'
  BY <1>1, <1>2, <1>4, <1>5, <1>6 DEF Shape
<1>8. Held'
  BY <1>1, <1>2, <1>3, <1>5, <1>6 DEF Held, Awaiting, Shape
<1>9. srv \notin mixed =>
        /\ process[srv].stdin = <<>>
        /\ \E f \in Frame : process[srv].stdout = <<f>> /\ f.number = op.number
  BY <1>1, <1>2 DEF Pipes, OneIsThere, Empty
<1>10. srv \notin mixed =>
         process'[srv].stdin = <<>> /\ process'[srv].stdout = <<>> /\ frame.number = op.number
  <2>1. ASSUME NEW f \in Frame, process[srv].stdout = <<f>>
        PROVE  Head(process[srv].stdout) = f /\ Tail(process[srv].stdout) = <<>>
    <3> QED
      BY <2>1
  <2> QED
    BY <1>3, <1>9, <2>1
<1>11. ASSUME NEW s \in Servers \ mixed PROVE Empty(s)'
  <2>1. CASE s = srv
    BY <1>10, <1>11, <2>1 DEF Empty
  <2>2. CASE s # srv
    <3>1. Empty(s)
      BY <1>11, <2>2 DEF Pipes
    <3> QED
      BY <1>3, <2>2, <3>1 DEF Empty
  <2> QED
    BY <2>1, <2>2
<1>12. mistaken' \subseteq mixed'
  BY <1>1, <1>10 DEF Pipes
<1> QED
  BY <1>1, <1>5, <1>6, <1>7, <1>8, <1>11, <1>12 DEF Pipes

\* A child that is gone, with nothing in its pipes, fails what awaits it.
LEMMA ReadEndInv ==
  ASSUME Inv, Sound, ReadEnd PROVE Inv'
<1> USE DEF Inv
<1>1. /\ op' = Idle /\ op.at \in Awaiting
      /\ process[op.server].stdout = <<>> /\ ~process[op.server].alive
      /\ UNCHANGED <<process, initialized, tool_index, discovered, next_request_id, mixed, mistaken>>
  BY DEF ReadEnd, Awaiting, tools, history
<1>2. op.server \in Servers
  BY <1>1 DEF Shape, Idle, Awaiting
<1>3. Idle \in OpState /\ Idle.at = "none"
  BY DEF Idle, OpState, Places
<1>4. Empty(op.server)
  BY <1>1, <1>2 DEF Held, Empty
<1>5. \A s \in Servers \ mixed : Empty(s)
  BY <1>4 DEF Pipes
<1> QED
  BY <1>1, <1>3, <1>5 DEF Shape, Held, Routes, HasRoute, Pipes, Empty, Awaiting

LEMMA DroppedInv ==
  ASSUME Inv, Sound, Dropped PROVE Inv'
<1> USE DEF Inv
<1>1. /\ op' = Idle /\ op.at \in Awaiting \cup {"kill"}
      /\ mixed' = IF op.at = "kill" THEN mixed ELSE mixed \cup {op.server}
      /\ UNCHANGED <<process, initialized, tool_index, discovered, next_request_id, mistaken>>
  BY DEF Dropped, Awaiting, tools
<1>2. op.server \in Servers
  BY <1>1 DEF Shape, Idle, Awaiting
<1>3. Idle \in OpState /\ Idle.at = "none"
  BY DEF Idle, OpState, Places
<1>4. \A s \in Servers \ mixed' : Empty(s)
  BY <1>1 DEF Pipes, Awaiting
<1>5. Pipes'
  BY <1>1, <1>3, <1>4 DEF Pipes, Empty, Awaiting
<1> QED
  BY <1>1, <1>2, <1>3, <1>5 DEF Shape, Held, Routes, HasRoute

LEMMA KillInv ==
  ASSUME Inv, Sound, Kill PROVE Inv'
<1> USE DEF Inv
<1>1. /\ op.at = "kill" /\ NextServer("kill")
      /\ process' = [process EXCEPT ![op.server] = NoProcess]
      /\ initialized' = initialized \ {op.server}
      /\ UNCHANGED <<tool_index, discovered, next_request_id, mixed, mistaken>>
  BY DEF Kill, tools, history
<1>2. op \in OpState /\ op.server \in Servers /\ process \in [Servers -> Child]
  BY <1>1 DEF Shape, Idle
<1>3. /\ op' \in OpState
      /\ op' = Idle \/ (op'.server \in Servers /\ op'.at = "kill")
  BY <1>1, <1>2, NextServerTypes
<1>4. Shape'
  BY <1>1, <1>2, <1>3 DEF Shape, NoProcess, Child, Idle
<1>5. Held'
  BY <1>1, <1>2, <1>3 DEF Shape, Held, NoProcess, Idle
<1>6. Routes'
  BY <1>1 DEF Routes, HasRoute
<1>7. Pipes'
  BY <1>1, <1>2, <1>3 DEF Pipes, Empty, Awaiting, NoProcess, Idle
<1> QED
  BY <1>4, <1>5, <1>6, <1>7

-----------------------------------------------------------------------------
(* The steps of the servers.                                               *)

\* What was asked leaves one pipe and its answer enters the other.
LEMMA ReplyInv ==
  ASSUME Inv, Sound, NEW s \in Servers, Reply(s) PROVE Inv'
<1> USE DEF Inv
<1>1. PICK form \in {"result", "error"} :
        LET asked == Head(process[s].stdin)
            frame == [form |-> form, method |-> asked.method, number |-> asked.number]
        IN process' = [process EXCEPT ![s].stdin = Tail(@), ![s].stdout = Append(@, frame)]
  BY DEF Reply
<1> DEFINE asked == Head(process[s].stdin)
           frame == [form |-> form, method |-> asked.method, number |-> asked.number]
<1>2. /\ process[s].alive /\ process[s].stdin # <<>>
      /\ UNCHANGED <<initialized, tool_index, discovered, next_request_id, op, mixed, mistaken>>
  BY DEF Reply, Unchanged, tools
<1>3. process \in [Servers -> Child] /\ process[s] \in Child
  BY DEF Shape
<1>4. asked \in Request /\ Tail(process[s].stdin) \in Seq(Request)
  BY <1>2, <1>3 DEF Child
<1>5. frame \in Frame
  BY <1>4 DEF Request, Frame
<1>6. /\ \A u \in Servers : u # s => process'[u] = process[u]
      /\ process'[s].held = process[s].held
      /\ process'[s].alive = process[s].alive
      /\ process'[s].stdin = Tail(process[s].stdin)
      /\ process'[s].stdout = Append(process[s].stdout, frame)
  BY <1>1, <1>3 DEF Child
<1>7. process' \in [Servers -> Child]
  <2> HIDE DEF frame
  <2>1. Append(process[s].stdout, frame) \in Seq(Frame)
    BY <1>3, <1>5 DEF Child
  <2>2. [process[s] EXCEPT !.stdin = Tail(@), !.stdout = Append(@, frame)] \in Child
    BY <1>3, <1>4, <2>1 DEF Child
  <2>3. process' = [process EXCEPT ![s] = [process[s] EXCEPT !.stdin = Tail(@), !.stdout = Append(@, frame)]]
    BY <1>1, <1>3 DEF Child, frame
  <2> QED
    BY <1>3, <2>2, <2>3
<1>8. Shape'
  BY <1>2, <1>7 DEF Shape
<1>9. Held'
  BY <1>2, <1>6, IdleTypes DEF Held, Shape
<1>10. ASSUME NEW u \in Servers \ mixed
       PROVE  IF op.server = u /\ op.at \in Awaiting THEN OneIsThere(u)' ELSE Empty(u)'
  <2>1. CASE u # s
    BY <1>2, <1>6, <1>10, <2>1 DEF Pipes, OneIsThere, Empty
  <2>2. CASE u = s
    <3>1. op.server = s /\ op.at \in Awaiting /\ OneIsThere(s)
      BY <1>2, <1>10, <2>2 DEF Pipes, Empty
    <3>2. PICK r \in Request : process[s].stdin = <<r>> /\ r.number = op.number
      BY <1>2, <3>1 DEF OneIsThere, Empty
    <3>3. process[s].stdout = <<>>
      BY <1>2, <3>1 DEF OneIsThere, Empty
    <3>4. asked = r /\ Tail(process[s].stdin) = <<>>
      BY <3>2
    <3>5. frame.number = op.number
      BY <3>2, <3>4
    <3>6. process'[s].stdin = <<>> /\ process'[s].stdout = <<frame>>
      <4> HIDE DEF frame
      <4> QED
        BY <1>5, <1>6, <3>3, <3>4
    <3> HIDE DEF frame
    <3> QED
      BY <1>2, <1>5, <2>2, <3>1, <3>5, <3>6 DEF OneIsThere
  <2> QED
    BY <2>1, <2>2
<1>11. Pipes'
  BY <1>2, <1>10 DEF Pipes
<1> QED
  BY <1>2, <1>8, <1>9, <1>11 DEF Routes, HasRoute

LEMMA InterjectInv ==
  ASSUME Inv, Sound, NEW s \in Servers, Interject(s) PROVE Inv'
<1> USE DEF Inv
<1>1. PICK form \in {"request", "notification"} :
        process' = [process EXCEPT ![s].stdout =
                      Append(@, [form |-> form, method |-> "own", number |-> 0])]
  BY DEF Interject
<1> DEFINE frame == [form |-> form, method |-> "own", number |-> 0]
<1>2. /\ mixed' = mixed \cup {s}
      /\ UNCHANGED <<initialized, tool_index, discovered, next_request_id, op, mistaken>>
  BY DEF Interject, Unchanged, tools
<1>3. process \in [Servers -> Child] /\ process[s] \in Child
  BY DEF Shape
<1>4. frame \in Frame
  BY DEF Frame, Methods
<1>5. /\ \A u \in Servers : u # s => process'[u] = process[u]
      /\ process'[s].held = process[s].held
      /\ process'[s].alive = process[s].alive
      /\ process'[s].stdin = process[s].stdin
  BY <1>1, <1>3 DEF Child
<1>6. process' \in [Servers -> Child]
  <2> HIDE DEF frame
  <2>1. Append(process[s].stdout, frame) \in Seq(Frame)
    BY <1>3, <1>4 DEF Child
  <2>2. [process[s] EXCEPT !.stdout = Append(@, frame)] \in Child
    BY <1>3, <2>1 DEF Child
  <2>3. process' = [process EXCEPT ![s] = [process[s] EXCEPT !.stdout = Append(@, frame)]]
    BY <1>1, <1>3 DEF Child, frame
  <2> QED
    BY <1>3, <2>2, <2>3
<1>7. Shape'
  BY <1>2, <1>6 DEF Shape
<1>8. Held'
  BY <1>2, <1>5, IdleTypes DEF Held, Shape
<1>9. Pipes'
  BY <1>2, <1>5 DEF Pipes, OneIsThere, Empty
<1> QED
  BY <1>2, <1>7, <1>8, <1>9 DEF Routes, HasRoute

LEMMA DieInv ==
  ASSUME Inv, Sound, NEW s \in Servers, Die(s) PROVE Inv'
<1> USE DEF Inv
<1>1. /\ process' = [process EXCEPT ![s].alive = FALSE, ![s].stdin = <<>>]
  BY DEF Die
<1>2. /\ process[s].alive
      /\ UNCHANGED <<initialized, tool_index, discovered, next_request_id, op, mixed, mistaken>>
  BY DEF Die, Unchanged, tools
<1>3. process \in [Servers -> Child] /\ process[s] \in Child
  BY DEF Shape
<1>4. /\ \A u \in Servers : u # s => process'[u] = process[u]
      /\ process'[s].held = process[s].held
      /\ process'[s].alive = FALSE
      /\ process'[s].stdin = <<>>
      /\ process'[s].stdout = process[s].stdout
  BY <1>1, <1>3 DEF Child
<1>5. process' \in [Servers -> Child]
  <2>1. [process[s] EXCEPT !.alive = FALSE, !.stdin = <<>>] \in Child
    <3>1. <<>> \in Seq(Request)
      OBVIOUS
    <3> QED
      BY <1>3, <3>1 DEF Child
  <2>2. process' = [process EXCEPT ![s] = [process[s] EXCEPT !.alive = FALSE, !.stdin = <<>>]]
    BY <1>1, <1>3 DEF Child
  <2> QED
    BY <1>3, <2>1, <2>2
<1>6. Shape'
  BY <1>2, <1>5 DEF Shape
<1>7. Held'
  BY <1>2, <1>4, IdleTypes DEF Held, Shape
<1>8. ASSUME NEW u \in Servers \ mixed
      PROVE  IF op.server = u /\ op.at \in Awaiting THEN OneIsThere(u)' ELSE Empty(u)'
  <2>1. CASE u # s
    BY <1>2, <1>4, <1>8, <2>1 DEF Pipes, OneIsThere, Empty
  <2>2. CASE u = s
    BY <1>2, <1>4, <1>8, <2>2 DEF Pipes, OneIsThere, Empty
  <2> QED
    BY <2>1, <2>2
<1>9. Pipes'
  BY <1>2, <1>8 DEF Pipes
<1> QED
  BY <1>2, <1>6, <1>7, <1>9 DEF Routes, HasRoute

LEMMA StepInv ==
  ASSUME Inv, Sound, [Next]_vars PROVE Inv'
<1>1. CASE DiscoverTools \/ CallTool \/ Shutdown
  BY <1>1, BeginInv
<1>2. CASE Operation
  BY <1>2, SpawnInv, InitializeInv, AlreadyReadyInv, AskInv, NextPageInv, ReadResponseInv,
     ReadEndInv, DroppedInv, KillInv DEF Operation
<1>3. CASE \E s \in Servers : Reply(s) \/ Interject(s) \/ Die(s)
  BY <1>3, ReplyInv, InterjectInv, DieInv
<1>4. CASE UNCHANGED vars
  BY <1>4 DEF vars, Inv, Shape, Held, Routes, HasRoute, Pipes, OneIsThere, Empty
<1> QED
  BY <1>1, <1>2, <1>3, <1>4 DEF Next

LEMMA Inductive ==
  ASSUME Sound PROVE Spec => []Inv
<1>1. Init => Inv
  BY InitInv
<1>2. Inv /\ [Next]_vars => Inv'
  BY StepInv
<1> QED
  BY <1>1, <1>2, PTL DEF Spec

-----------------------------------------------------------------------------
(* The properties.                                                         *)

\* Whatever becomes of the children (McpServerManager), what is held, routed
\* and under way stays well typed.
THEOREM TypeCorrect ==
  ASSUME Sound PROVE Spec => []TypeOK
<1>1. Inv => TypeOK
  BY DEF Inv, Shape, Held, TypeOK, Tool
<1> QED
  BY <1>1, Inductive, PTL

\* Under the names of the tools discover_tools has found call_tool finds tools
\* of the same server, however far a discovery came: for any servers, any tools
\* and whatever names normalisation gives them.
THEOREM ToolsShownAreRoutedAlways ==
  ASSUME Sound PROVE Spec => []ToolsShownAreRouted
<1>1. Inv => ToolsShownAreRouted
  BY DEF Inv, Routes, HasRoute, ToolsShownAreRouted
<1> QED
  BY <1>1, Inductive, PTL

\* McpStdioProcess::request takes the next frame for its answer and checks no
\* id; that is right as long as no server speaks out of turn and no caller
\* leaves, through errors, deaths and new starts.
THEOREM AnswersMatchAlways ==
  ASSUME Sound PROVE Spec => []AnswersMatch
<1>1. Inv => AnswersMatch
  BY DEF Inv, Pipes, AnswersMatch
<1> QED
  BY <1>1, Inductive, PTL
=============================================================================
