----------------------------- MODULE MCComponents -----------------------------
(***************************************************************************)
(* Components that share no state, checked side by side: a behaviour is    *)
(* one of a single component, chosen at the start, and the others stay in  *)
(* one of their initial states.                                            *)
(***************************************************************************)
EXTENDS Naturals, FiniteSets, TLC

VARIABLES active,
  \* TuiSession
  ui, action, app, msgs, perms, outcomes, session, disk, turn, typed, interrupted,
  doubled, replaced,
  \* SwdFiles
  files, unreadable, phase, mode, batch, snaps, step, failed_at, transactions, disturbed,
  \* PluginStore
  shipped, dir, registry, settings, op, loaded, debris,
  \* ConversationStream
  rows, channels, entry, post, stream, overlaps,
  \* ModelStream
  route, whole, chunks, state, reader, result,
  \* Orchestrator
  now, slot, candidates, request,
  \* LspClient
  open_document, pending, next_request_id, call, stdin, server, stdout, lsp_reader,
  retired, clashed,
  \* McpManager
  process, initialized, tool_index, discovered, mcp_request_id, mcp_op, mixed, mistaken

CONSTANTS MaxTyped, Interruptions
Inputs == ((0..2) \X (0..2)) \cup ((0..3) \X (0..1))
Tui == INSTANCE TuiSession

CONSTANTS Paths, Contents, MaxActions
InitialFiles == [p \in Paths |-> IF p = "a" THEN "v1" ELSE "absent"]
Swd == INSTANCE SwdFiles WITH outcomes <- transactions

CONSTANTS External, Bundled, MaxVersion
Plugins == INSTANCE PluginStore

CONSTANTS Posts, Streams, Plain, MaxParts, Capacity
Hosted == INSTANCE ConversationStream WITH MaxChunks <- MaxParts

CONSTANTS Calls, MaxPieces, MaxChunks
Answer == INSTANCE ModelStream

CONSTANTS Providers, MaxCalls, Cooldown, MaxTime
Fallback == INSTANCE Orchestrator

CONSTANTS Callers, MaxRequests
Lsp == INSTANCE LspClient WITH reader <- lsp_reader

CONSTANTS Last, Tools, NameOf, MaxAsked
Mcp == INSTANCE McpManager WITH next_request_id <- mcp_request_id, op <- mcp_op,
                                MaxRequests <- MaxAsked

\* The names of the instance: one tool has a name of its own, the others, two of
\* them of one server, have another together.
SomeNames == [s \in 1..Last, tool \in Tools |-> IF s = 1 /\ tool = "x" THEN "own" ELSE "common"]

\* What the proofs about the components assume of the constants.
ASSUME BoundsAreNumbers ==
  /\ {MaxTyped, MaxActions, MaxVersion, MaxParts, MaxPieces, MaxChunks, MaxCalls, Cooldown,
      MaxAsked} \subseteq Nat
  /\ {Capacity, MaxTime, Last} \subseteq Nat \ {0}

\* The three markers of a file are no contents.
ASSUME MarkersAreApart ==
  /\ InitialFiles \in [Paths -> Contents \cup {Swd!Absent}]
  /\ Contents \cap {Swd!Absent, Swd!Torn, Swd!None} = {}

\* No plugin of the bundle can be installed by the user as well: identifiers end
\* in the name of the marketplace.
ASSUME BundleIsApart == External \cap Bundled = {}

\* The block of a call is its index, a number from one up; that of text is zero,
\* and that of thinking would be the block of an answer's 999th call.
ASSUME BlocksAreApart == Calls \subseteq Nat \ Answer!Talk /\ IsFiniteSet(Calls)

\* The provers know no powers: 10 ^ MaxCalls is a multiple of ten unless MaxCalls
\* is zero.
ASSUME ProvidersAreRated ==
  /\ IsFiniteSet(Providers)
  /\ \E k \in 1..Fallback!Scale : Fallback!Scale = 10 * k

tuiVars == <<ui, action, app, msgs, perms, outcomes, session, disk, turn, typed, interrupted,
             doubled, replaced>>
swdVars == <<files, unreadable, phase, mode, batch, snaps, step, failed_at, transactions, disturbed>>
pluginsVars == <<shipped, dir, registry, settings, op, loaded, debris>>
hostedVars == <<rows, channels, entry, post, stream, overlaps>>
answerVars == <<route, whole, chunks, state, reader, result>>
fallbackVars == <<now, slot, candidates, request>>
lspVars == <<open_document, pending, next_request_id, call, stdin, server, stdout, lsp_reader,
             retired, clashed>>
mcpVars == <<process, initialized, tool_index, discovered, mcp_request_id, mcp_op, mixed, mistaken>>
vars == <<active, tuiVars, swdVars, pluginsVars, hostedVars, answerVars, fallbackVars,
          lspVars, mcpVars>>

\* A component that is not active rests in one initial state.
Init ==
  /\ active \in {"tui", "swd", "plugins", "hosted", "answer", "fallback", "lsp", "mcp"}
  /\ Tui!Init /\ Swd!Init /\ Plugins!Init /\ Hosted!Init /\ Answer!Init /\ Fallback!Init
  /\ Lsp!Init /\ Mcp!Init
  /\ active # "swd" => unreadable = {}
  /\ active # "plugins" => shipped = [b \in Bundled |-> MaxVersion]
  /\ active # "answer" => route = "agent" /\ whole = [c \in Calls |-> 0]
  /\ active # "lsp" => open_document = Lsp!Closed

Next ==
  /\ UNCHANGED active
  /\ \/ active = "tui" /\ Tui!Next
        /\ UNCHANGED <<swdVars, pluginsVars, hostedVars, answerVars, fallbackVars, lspVars, mcpVars>>
     \/ active = "swd" /\ Swd!Next
        /\ UNCHANGED <<tuiVars, pluginsVars, hostedVars, answerVars, fallbackVars, lspVars, mcpVars>>
     \/ active = "plugins" /\ Plugins!Next
        /\ UNCHANGED <<tuiVars, swdVars, hostedVars, answerVars, fallbackVars, lspVars, mcpVars>>
     \/ active = "hosted" /\ Hosted!Next
        /\ UNCHANGED <<tuiVars, swdVars, pluginsVars, answerVars, fallbackVars, lspVars, mcpVars>>
     \/ active = "answer" /\ Answer!Next
        /\ UNCHANGED <<tuiVars, swdVars, pluginsVars, hostedVars, fallbackVars, lspVars, mcpVars>>
     \/ active = "fallback" /\ Fallback!Next
        /\ UNCHANGED <<tuiVars, swdVars, pluginsVars, hostedVars, answerVars, lspVars, mcpVars>>
     \/ active = "lsp" /\ Lsp!Next
        /\ UNCHANGED <<tuiVars, swdVars, pluginsVars, hostedVars, answerVars, fallbackVars, mcpVars>>
     \/ active = "mcp" /\ Mcp!Next
        /\ UNCHANGED <<tuiVars, swdVars, pluginsVars, hostedVars, answerVars, fallbackVars, lspVars>>

Spec == Init /\ [][Next]_vars

\* The fairness of each component, for its behaviours.
FairSpec ==
  /\ Spec
  /\ WF_ui(active = "tui" /\ Tui!UiGoesOn)
  /\ WF_turn(active = "tui" /\ Tui!ThreadsGoOn)
  /\ Tui!UserCloses
  /\ \A p \in Posts : WF_hostedVars(active = "hosted" /\ Hosted!Generate(p))
  /\ \A s \in Streams : WF_hostedVars(active = "hosted" /\ Hosted!Receive(s))
  /\ \A c \in Callers : WF_lspVars(active = "lsp" /\ Lsp!CallStep(c))
  /\ WF_lspVars(active = "lsp" /\ Lsp!ReaderStep)
  /\ WF_lspVars(active = "lsp" /\ Lsp!ServerAnswers)

-----------------------------------------------------------------------------
(* The properties of the components, stated where they are defined.        *)

\* The active component keeps to its types.
TypeOK ==
  /\ active = "tui" => Tui!TypeOK
  /\ active = "swd" => Swd!TypeOK
  /\ active = "plugins" => Plugins!TypeOK
  /\ active = "hosted" => Hosted!TypeOK
  /\ active = "answer" => Answer!TypeOK
  /\ active = "fallback" => Fallback!TypeOK
  /\ active = "lsp" => Lsp!TypeOK
  /\ active = "mcp" => Mcp!TypeOK

\* Terminal (run_tui_repl): the flag that shows a turn as running is set only
\* while the end of some turn is still to reach the UI.
ThinkingIsOfATurn == Tui!ThinkingIsOfATurn

\* Terminal: a queued message always has a turn whose end will send it.
QueueHasATurn == Tui!QueueHasATurn

\* Terminal: what was typed waits, is on its way or has a turn, until one poll
\* drains the ends of two turns.
NothingTypedVanishes == Tui!NothingTypedVanishes

\* Terminal: when all threads are over the file holds what memory holds.
SavedWhenQuiet == Tui!SavedWhenQuiet

\* Terminal: a thread that asks for permission is answered.
AskingEnds == Tui!AskingEnds

\* Strict writes (swd.rs): a handler that failed leaves the files as it found
\* them, but that one it could not read may be gone, and one it was writing torn
\* when nothing puts it back.
FailureLeavesNothing == Swd!FailureLeavesNothing

\* Strict writes: a file reported as verified holds what the last action on it
\* was to leave.
VerifiedIsLast == Swd!VerifiedIsLast

\* Plugins (PluginManager): directory, record and setting agree after an
\* operation that succeeds.
PluginsAgree == Plugins!PluginsAgree

\* Plugins: a listing mends the bundled plugins and drops records without one.
ListingMends == Plugins!ListingMends

\* Hosted conversations (stream_events): a stream shows an answer piece by piece,
\* up to the first that reads as an end.
WholeAnswer == Hosted!WholeAnswer

\* Hosted conversations: a stream open during a generation ends.
StreamEnds == Hosted!StreamEnds

\* OpenAI-compatible streams (StreamState): calls reach the agent loop once and
\* with their arguments.
CallsArrive == Answer!CallsArrive

\* Orchestrator: status, rate and cooldown of a provider go together.
BreakerConsistent == Fallback!BreakerConsistent

\* Language servers (LspClient): a request that was sent while the client read
\* ends, unless the stream ends between two messages.
RequestsEnd == Lsp!RequestsEnd

\* Language servers: client and server agree on what is open and on which
\* versions exist, unless calls on one document overlapped.
DocumentsAgree == Lsp!DocumentsAgree

\* MCP servers (McpServerManager): under the name of a tool that was discovered a
\* call reaches a tool of its server, wherever a discovery broke off and whatever
\* names tools share, unless another server has the name.
ToolsShownAreRouted == Mcp!ToolsShownAreRouted

\* MCP servers: no answer is taken for that of another request as long as the
\* server speaks when it is asked and no caller leaves before its answer.
AnswersMatch == Mcp!AnswersMatch

=============================================================================
