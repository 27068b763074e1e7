---------------------------- MODULE SessionTurns ----------------------------
(***************************************************************************)
(* One session of the HTTP server: the turn slot `current_turn`, the turn  *)
(* tasks that run beside each other in blocking threads, the conversation  *)
(* they copy, extend and write back, the permission requests they block    *)
(* on, and the handlers that cancel, compact, import and delete.           *)
(*                                                                         *)
(* A handler is cut into one action per stretch of code that runs under    *)
(* one lock or up to one `.await`; everything another task can see happen  *)
(* in between is therefore a state of the model.  Sequence numbers, and    *)
(* events that overtake one another, are the business of EventLog; here    *)
(* `event_history` is the set of the events published so far.              *)
(***************************************************************************)
EXTENDS Naturals, FiniteSets

CONSTANTS
  Turns,        \* turn ids: one for every POST .../messages that arrives
  NoTurn,       \* `None` in the turn slot
  Cancellable,  \* the turns some client may ask to cancel
  Compactions,  \* the calls of the two compact endpoints
  MaxAsks,      \* bound: permission requests of one turn
  Importing,    \* whether clients may replace the conversation (resume)
  WsFrames      \* the forms of an answer a WebSocket client may send

ASSUME TurnsAssumption ==
  /\ IsFiniteSet(Turns)
  /\ NoTurn \notin Turns
  /\ Cancellable \subseteq Turns
ASSUME BoundsAssumption ==
  /\ MaxAsks \in Nat
  /\ Importing \in BOOLEAN
  /\ WsFrames \subseteq {"decide", "untagged"}

VARIABLES
  stored,               \* the session is in the store's map
  known,                \* turns and requests that were there when it was deleted
  current_turn,         \* the slot: the turn whose handle is in it
  cancel_flag,          \* turns whose flag is set (no code reads it)
  phase,                \* where each turn's handler, then task, stands
  prior,                \* the conversation each turn started from
  conversation,         \* runtime_state.conversation
  usage,                \* runtime_state.usage, in units of one turn's tokens
  pending_permissions,  \* requests waiting in the map
  asked,                \* how many requests each turn has made
  answer,               \* what the oneshot of each request has carried
  executed,             \* requests whose tool was run
  registered,           \* history: decisions a client was told are registered (204)
  event_history,        \* events published, as <<turn, kind>>
  cancelling,           \* cancel handlers between the slot and the publish
  ws_open,              \* a permissions WebSocket is connected
  compaction,           \* where each compact call stands
  copy,                 \* the conversation each compact call works on
  missed,               \* turns stored between the call's read and its write
  imported              \* a client has replaced the conversation

turnVars       == <<current_turn, phase, prior>>
cancelVars     == <<cancel_flag, cancelling>>
stateVars      == <<conversation, usage>>
permissionVars == <<pending_permissions, asked, answer, executed, registered>>
compactVars    == <<compaction, copy, missed>>
storeVars      == <<stored, known, imported>>
\* What a turn's own handler and task leave alone.
outsideVars    == <<storeVars, cancelVars, ws_open, compactVars>>
vars == <<turnVars, stateVars, permissionVars, event_history, outsideVars>>

-----------------------------------------------------------------------------
(* What the conversation holds.  `said`: the turns it still tells of,      *)
(* verbatim or in a summary; `kept`: those whose messages, with their      *)
(* token counts, are still there.                                          *)

Conversation      == [said : SUBSET Turns, kept : SUBSET Turns]
EmptyConversation == [said |-> {}, kept |-> {}]

Requests == Turns \X (1..MaxAsks)
Kinds == {"TurnStarted", "PermissionRequest", "MessageAppended", "UsageDelta",
          "TurnCompleted", "TurnError", "TurnCancelled"}

\* The handler of the POST is still running.
Admission == {"claimed", "snapshotted"}
\* The spawned task exists.
Tasks     == {"running", "requesting", "waiting", "stashed", "failed",
              "replayed", "counted", "ending"}
Active    == Admission \cup Tasks
Phases    == Active \cup {"new", "rejected", "dropped", "finished"}

ActiveTurns  == {t \in Turns : phase[t] \in Active}
Stashed      == {t \in Turns : phase[t] \in {"stashed", "replayed", "counted"}
                               \/ <<t, "TurnCompleted">> \in event_history}
Counted      == {t \in Turns : phase[t] = "counted"
                               \/ <<t, "TurnCompleted">> \in event_history}
LatestAsk(t) == <<t, asked[t]>>

\* A handler that found the session before it was deleted keeps it, and goes
\* on with what it came for.
Reachable(x) == stored \/ x \in known

Publish(t, kinds) == event_history' = event_history \cup ({t} \X kinds)
Goto(t, p)        == phase' = [phase EXCEPT ![t] = p]

Init ==
  /\ stored = TRUE
  /\ known = {}
  /\ current_turn = NoTurn
  /\ cancel_flag = {}
  /\ phase = [t \in Turns |-> "new"]
  /\ prior = [t \in Turns |-> EmptyConversation]
  /\ conversation = EmptyConversation
  /\ usage = 0
  /\ pending_permissions = {}
  /\ asked = [t \in Turns |-> 0]
  /\ answer = [r \in Requests |-> "none"]
  /\ executed = {}
  /\ registered = {}
  /\ event_history = {}
  /\ cancelling = {}
  /\ ws_open = FALSE
  /\ compaction = [c \in Compactions |-> "idle"]
  /\ copy = [c \in Compactions |-> EmptyConversation]
  /\ missed = [c \in Compactions |-> {}]
  /\ imported = FALSE

-----------------------------------------------------------------------------
(* send_message.  The handler looks the session up, then locks its slot; a *)
(* deletion in between does not stop it.                                   *)

\* Fault: the slot is filled without looking into it.
Fault_SlotUnchecked == TRUE

SlotFree == current_turn = NoTurn

\* The session is gone (404) or its slot is taken (409).
SendMessage_Reject(t) ==
  /\ phase[t] = "new"
  /\ ~stored \/ ~SlotFree
  /\ Goto(t, "rejected")
  /\ UNCHANGED <<current_turn, prior, stateVars, permissionVars, event_history,
                 outsideVars>>

\* Check and fill the slot under its lock.
SendMessage_Claim(t) ==
  /\ phase[t] = "new"
  /\ SlotFree
  /\ current_turn' = t
  /\ Goto(t, "claimed")
  /\ UNCHANGED <<prior, stateVars, permissionVars, event_history, outsideVars>>

\* The slot's lock is released; the conversation is copied under another.
SendMessage_Snapshot(t) ==
  /\ phase[t] = "claimed"
  /\ prior' = [prior EXCEPT ![t] = conversation]
  /\ Goto(t, "snapshotted")
  /\ UNCHANGED <<current_turn, stateVars, permissionVars, event_history,
                 outsideVars>>

\* TurnStarted enters the history; no await separates it from the spawn.
SendMessage_Spawn(t) ==
  /\ phase[t] = "snapshotted"
  /\ Publish(t, {"TurnStarted"})
  /\ Goto(t, "running")
  /\ UNCHANGED <<current_turn, prior, stateVars, permissionVars, outsideVars>>

\* The client hangs up while the handler awaits the state's or the history's
\* lock: the future is dropped, and the slot keeps the handle.
SendMessage_Drop(t) ==
  /\ phase[t] \in Admission
  /\ Goto(t, "dropped")
  /\ UNCHANGED <<current_turn, prior, stateVars, permissionVars, event_history,
                 outsideVars>>

-----------------------------------------------------------------------------
(* HttpPermissionPrompter::decide, in the turn's blocking thread *)

Prompter_Insert(t) ==
  /\ phase[t] = "running"
  /\ asked[t] < MaxAsks
  /\ asked' = [asked EXCEPT ![t] = @ + 1]
  /\ pending_permissions' = pending_permissions \cup {<<t, asked[t] + 1>>}
  /\ Goto(t, "requesting")
  /\ UNCHANGED <<current_turn, prior, stateVars, answer, executed, registered,
                 event_history, outsideVars>>

Prompter_Publish(t) ==
  /\ phase[t] = "requesting"
  /\ Publish(t, {"PermissionRequest"})
  /\ Goto(t, "waiting")
  /\ UNCHANGED <<current_turn, prior, stateVars, permissionVars, outsideVars>>

\* Fault: any answer runs the tool.
Fault_AnyAnswerRuns(r) == answer[r] # "none"

Approved(r) == answer[r] = "allow"

\* The oneshot delivers; an allowed tool runs, a denied one does not.
Prompter_Return(t) ==
  /\ phase[t] = "waiting"
  /\ answer[LatestAsk(t)] # "none"
  /\ executed' = executed \cup {r \in {LatestAsk(t)} : Approved(r)}
  /\ Goto(t, "running")
  /\ UNCHANGED <<current_turn, prior, stateVars, pending_permissions, asked,
                 answer, registered, event_history, outsideVars>>

Decides(outcome) == outcome \in {"allow", "deny"}

\* Fault: the request is looked up and stays in the map.
Fault_NotRemoved(r, outcome) == pending_permissions

\* Fault: the request is not put back after an outcome that does not decide.
Fault_NotPutBack(r, outcome) == pending_permissions \ {r}

Remaining(r, outcome) ==
  IF Decides(outcome) THEN pending_permissions \ {r} ELSE pending_permissions

\* Fault: the outcome is passed on as the client sent it.
Fault_Unvalidated(r, outcome) == [answer EXCEPT ![r] = outcome]

Answered(r, outcome) ==
  IF Decides(outcome) THEN [answer EXCEPT ![r] = outcome] ELSE answer

\* decide_permission: searches the stored sessions for the request; an
\* outcome that is neither allow nor deny puts the request back, and only the
\* others are reported as registered.
DecidePermission(r, outcome) ==
  /\ Reachable(r)
  /\ r \in pending_permissions
  /\ pending_permissions' = Remaining(r, outcome)
  /\ answer' = Answered(r, outcome)
  /\ registered' = registered \cup {d \in {<<r, outcome>>} : Decides(outcome)}
  /\ UNCHANGED <<turnVars, stateVars, asked, executed, event_history,
                 outsideVars>>

-----------------------------------------------------------------------------
(* permissions_ws: the socket holds the session itself, not its id, and so *)
(* outlives the session's removal from the store.                          *)

OpenSocket ==
  /\ stored
  /\ ~ws_open
  /\ ws_open' = TRUE
  /\ UNCHANGED <<turnVars, stateVars, permissionVars, event_history, storeVars,
                 cancelVars, compactVars>>

CloseSocket ==
  /\ ws_open
  /\ ws_open' = FALSE
  /\ UNCHANGED <<turnVars, stateVars, permissionVars, event_history, storeVars,
                 cancelVars, compactVars>>

\* Only a frame tagged "type":"decide" parses; the form the README shows has
\* no tag and is skipped, as is an outcome that is neither allow nor deny.
Accepted(form, outcome) == form = "decide" /\ Decides(outcome)

\* A text frame that answers r.
AnswerOnSocket(r, form, outcome) ==
  /\ ws_open
  /\ r \in pending_permissions
  /\ IF Accepted(form, outcome)
     THEN /\ pending_permissions' = Remaining(r, outcome)
          /\ answer' = Answered(r, outcome)
     ELSE UNCHANGED <<pending_permissions, answer>>
  /\ UNCHANGED <<turnVars, stateVars, asked, executed, registered, event_history,
                 outsideVars>>

-----------------------------------------------------------------------------
(* run_turn_task *)

\* Fault: the run is not seeded with the copy.
Fault_Unseeded(t, kept) == [said |-> {t}, kept |-> {t}]

\* The session run_turn hands back: the copy, extended by this turn.
Extended(t, kept) == [said |-> prior[t].said \cup {t}, kept |-> kept \cup {t}]

\* run_turn returns Ok: the copy, extended by this turn (and perhaps
\* compacted on the way), replaces the session's conversation.
RunTurn_Stash(t) ==
  /\ phase[t] = "running"
  /\ \E kept \in {prior[t].kept, {}} : conversation' = Extended(t, kept)
  /\ missed' = [c \in Compactions |->
                  IF compaction[c] = "read" THEN missed[c] \cup {t}
                                            ELSE missed[c]]
  /\ Goto(t, "stashed")
  /\ UNCHANGED <<current_turn, prior, usage, permissionVars, event_history,
                 storeVars, cancelVars, ws_open, compaction, copy>>

\* Fault: what a failed run leaves behind is stored too.
Fault_StashOnError(t) ==
  /\ phase[t] = "running"
  /\ Goto(t, "failed")
  /\ conversation' = Extended(t, prior[t].kept)
  /\ UNCHANGED <<current_turn, prior, usage, permissionVars, event_history,
                 outsideVars>>

\* run_turn returns Err, or the blocking task panics: nothing is stashed.
RunTurn_Fail(t) ==
  /\ phase[t] = "running"
  /\ Goto(t, "failed")
  /\ UNCHANGED <<current_turn, prior, stateVars, permissionVars, event_history,
                 outsideVars>>

\* The summary is replayed as events, UsageDelta last.
RunTurn_Replay(t) ==
  /\ phase[t] = "stashed"
  /\ Publish(t, {"MessageAppended", "UsageDelta"})
  /\ Goto(t, "replayed")
  /\ UNCHANGED <<current_turn, prior, stateVars, permissionVars, outsideVars>>

\* summary.usage is the tracker's cumulative figure: the tokens of every
\* message the turn started from, and its own.
NewUsage(t) == usage + Cardinality(prior[t].kept) + 1

\* Fault: the slot is emptied once the turn is stored and counted.
Fault_EmptiedAtCount(t) ==
  /\ phase[t] = "replayed"
  /\ usage' = NewUsage(t)
  /\ current_turn' = NoTurn
  /\ Goto(t, "counted")
  /\ UNCHANGED <<prior, conversation, permissionVars, event_history, outsideVars>>

RunTurn_Count(t) ==
  /\ phase[t] = "replayed"
  /\ usage' = NewUsage(t)
  /\ Goto(t, "counted")
  /\ UNCHANGED <<current_turn, prior, conversation, permissionVars,
                 event_history, outsideVars>>

RunTurn_Report(t) ==
  /\ \/ phase[t] = "counted" /\ Publish(t, {"TurnCompleted"})
     \/ phase[t] = "failed"  /\ Publish(t, {"TurnError"})
  /\ Goto(t, "ending")
  /\ UNCHANGED <<current_turn, prior, stateVars, permissionVars, outsideVars>>

\* Fault: the error path returns before the slot is emptied.
Fault_KeptOnError(t) ==
  IF <<t, "TurnError">> \in event_history THEN current_turn ELSE NoTurn

\* The slot is emptied, whoever's handle is in it.
Released(t) == NoTurn

RunTurn_Release(t) ==
  /\ phase[t] = "ending"
  /\ current_turn' = Released(t)
  /\ Goto(t, "finished")
  /\ UNCHANGED <<prior, stateVars, permissionVars, event_history, outsideVars>>

-----------------------------------------------------------------------------
(* cancel_turn *)

CancelTurn(t) ==
  /\ Reachable(t)
  /\ t \in Cancellable
  /\ current_turn = t
  /\ cancel_flag' = cancel_flag \cup {t}
  /\ current_turn' = NoTurn
  /\ cancelling' = cancelling \cup {t}
  /\ UNCHANGED <<phase, prior, stateVars, permissionVars, event_history,
                 storeVars, ws_open, compactVars>>

\* Published after the slot's lock is released.
CancelTurn_Publish(t) ==
  /\ t \in cancelling
  /\ cancelling' = cancelling \ {t}
  /\ Publish(t, {"TurnCancelled"})
  /\ UNCHANGED <<turnVars, stateVars, permissionVars, storeVars, cancel_flag,
                 ws_open, compactVars>>

\* The client of the cancel hangs up while the publish awaits the history.
CancelTurn_Drop(t) ==
  /\ t \in cancelling
  /\ cancelling' = cancelling \ {t}
  /\ UNCHANGED <<turnVars, stateVars, permissionVars, event_history, storeVars,
                 cancel_flag, ws_open, compactVars>>

-----------------------------------------------------------------------------
(* compact, resume, delete *)

Compact_Read(c) ==
  /\ compaction[c] = "idle"
  /\ compaction' = [compaction EXCEPT ![c] = "read"]
  /\ copy' = [copy EXCEPT ![c] = conversation]
  /\ UNCHANGED <<turnVars, stateVars, permissionVars, event_history, storeVars,
                 cancelVars, ws_open, missed>>

\* The lock was released in between; the old messages become a summary.
Compact_Write(c) ==
  /\ compaction[c] = "read"
  /\ compaction' = [compaction EXCEPT ![c] = "written"]
  /\ \E kept \in SUBSET copy[c].kept :
       conversation' = [said |-> copy[c].said, kept |-> kept]
  /\ UNCHANGED <<turnVars, usage, permissionVars, event_history, storeVars,
                 cancelVars, ws_open, copy, missed>>

\* commands::resume_session: the client sends back a conversation it has
\* exported earlier, here one some turn started from.
Resume ==
  /\ Importing
  /\ \E t \in Turns : conversation' = prior[t]
  /\ imported' = TRUE
  /\ UNCHANGED <<turnVars, usage, permissionVars, event_history, stored, known,
                 cancelVars, ws_open, compactVars>>

DeleteSession ==
  /\ stored
  /\ stored' = FALSE
  /\ known' = pending_permissions \cup {t \in Turns : current_turn = t}
  /\ UNCHANGED <<turnVars, stateVars, permissionVars, event_history, imported,
                 cancelVars, ws_open, compactVars>>

-----------------------------------------------------------------------------
Outcomes == {"allow", "deny", "other"}

\* What the server does by itself once the task is spawned.
TaskStep(t) ==
  \/ Prompter_Insert(t) \/ Prompter_Publish(t) \/ Prompter_Return(t)
  \/ RunTurn_Stash(t) \/ RunTurn_Fail(t) \/ RunTurn_Replay(t)
  \/ RunTurn_Count(t) \/ RunTurn_Report(t) \/ RunTurn_Release(t)

HandlerStep(t) ==
  \/ SendMessage_Reject(t) \/ SendMessage_Claim(t)
  \/ SendMessage_Snapshot(t) \/ SendMessage_Spawn(t) \/ SendMessage_Drop(t)
  \/ CancelTurn(t) \/ CancelTurn_Publish(t) \/ CancelTurn_Drop(t)

Next ==
  \/ \E t \in Turns : HandlerStep(t) \/ TaskStep(t)
  \/ \E r \in Requests, o \in Outcomes :
       \/ DecidePermission(r, o)
       \/ \E form \in WsFrames : AnswerOnSocket(r, form, o)
  \/ \E c \in Compactions : Compact_Read(c) \/ Compact_Write(c)
  \/ OpenSocket \/ CloseSocket \/ Resume \/ DeleteSession

Spec == Init /\ [][Next]_vars

(***************************************************************************)
(* Tasks, once spawned, are scheduled until they end: the blocking thread  *)
(* runs and every lock is held for a bounded time.  A handler that its     *)
(* client does not drop is polled to its end.  Nothing in the code makes a *)
(* client answer a permission request (there is no timeout), so that is an *)
(* assumption about the user, kept apart.                                  *)
(***************************************************************************)
TaskFairness ==
  \A t \in Turns :
    /\ WF_vars(TaskStep(t))
    /\ WF_vars(SendMessage_Snapshot(t) \/ SendMessage_Spawn(t)
               \/ SendMessage_Drop(t))

UserFairness ==
  \A r \in Requests :
    WF_vars(\E outcome \in {"allow", "deny"} :
              \/ stored /\ DecidePermission(r, outcome)
              \/ AnswerOnSocket(r, "decide", outcome))

FairSpec == Spec /\ TaskFairness /\ UserFairness

-----------------------------------------------------------------------------
(* Properties *)

TypeOK ==
  /\ stored \in BOOLEAN
  /\ known \subseteq Requests \cup Turns
  /\ current_turn \in Turns \cup {NoTurn}
  /\ cancel_flag \subseteq Turns
  /\ phase \in [Turns -> Phases]
  /\ prior \in [Turns -> Conversation]
  /\ conversation \in Conversation
  /\ usage \in Nat
  /\ pending_permissions \subseteq Requests
  /\ asked \in [Turns -> 0..MaxAsks]
  /\ answer \in [Requests -> {"none", "allow", "deny"}]
  /\ executed \subseteq Requests
  /\ registered \subseteq Requests \X {"allow", "deny"}
  /\ event_history \subseteq Turns \X Kinds
  /\ cancelling \subseteq Turns
  /\ ws_open \in BOOLEAN
  /\ compaction \in [Compactions -> {"idle", "read", "written"}]
  /\ copy \in [Compactions -> Conversation]
  /\ missed \in [Compactions -> SUBSET Turns]
  /\ imported \in BOOLEAN

\* A handle in the slot belongs to a turn that is on its way, or to one whose
\* client hung up before the task was spawned: that turn blocks the session.
HandleOwned ==
  current_turn # NoTurn =>
    phase[current_turn] \in Active \cup {"dropped"}

\* Until a cancel is accepted the slot keeps turns apart: every turn at work
\* is the one in the slot, so no two of them copy and write back at a time.
ExclusiveUnlessCancelled ==
  cancel_flag = {} => \A t \in ActiveTurns : current_turn = t

\* The turns at work without a handle in the slot: each cancel accepted makes
\* one at most, and passing the loss on (a finishing task empties the slot of
\* another) makes no more.
Orphans == ActiveTurns \ {current_turn}
OverlapBound == Cardinality(Orphans) <= Cardinality(cancel_flag)

\* A turn whose result was stored is in the conversation, unless a turn was
\* cancelled, a client replaced the conversation, or the turn was stored
\* while a compact call stood between its read and its write.
StoredTurnsKept ==
  (cancel_flag = {} /\ ~imported) =>
    \A t \in Stashed :
      t \in conversation.said \/ \E c \in Compactions : t \in missed[c]

\* A turn that ends in an error leaves nothing in the conversation.
FailedTurnLeavesNoTrace ==
  \A t \in Turns :
    (phase[t] = "failed" \/ <<t, "TurnError">> \in event_history)
      => t \notin conversation.said

\* A request in the map is the last one of a turn that waits for it and has
\* no answer: a decision can only reach the request it was meant for.
PendingOwned ==
  \A r \in pending_permissions :
    /\ phase[r[1]] \in {"requesting", "waiting"}
    /\ r = LatestAsk(r[1])
    /\ answer[r] = "none"

\* A turn that has asked waits in the map, or its answer is on the way: no
\* wait is lost.
WaitersReachable ==
  \A t \in Turns :
    phase[t] \in {"requesting", "waiting"} =>
      LatestAsk(t) \in pending_permissions \/ answer[LatestAsk(t)] # "none"

\* A tool that needed a permission ran only when that request was allowed.
ToolsOnlyOnApproval == \A r \in executed : answer[r] = "allow"

\* A turn has gone on from a request once it was told the answer.
GoneOn(r) == r # LatestAsk(r[1]) \/ phase[r[1]] \notin {"requesting", "waiting"}

\* What a client was told is registered stands: over a second client, the
\* socket, a cancel and a delete, a tool whose denial was registered never runs
\* and one whose approval was registered has run when its turn goes on.  So no
\* two clients are told that different decisions of one request stand.
DecisionsStand ==
  \A d \in registered :
    /\ d[2] = "deny" => d[1] \notin executed
    /\ (d[2] = "allow" /\ GoneOn(d[1])) => d[1] \in executed

\* What a client that reads the events may rely on, though handlers and tasks
\* publish side by side.  A turn's events come between its TurnStarted and its
\* end, but for TurnCancelled, which cancel_turn publishes beside a task that
\* knows nothing of it.  Until a cancel is accepted no event of a turn comes
\* before the end of each turn that has one.
Ended(t) == \E k \in {"TurnCompleted", "TurnError"} : <<t, k>> \in event_history

PublishedInOrder ==
  \A t \in Turns, k \in Kinds : <<t, k>> \in event_history' \ event_history =>
    /\ k = "TurnStarted" => \A e \in event_history : e[1] = t => e[2] = "TurnCancelled"
    /\ k \notin {"TurnStarted", "TurnCancelled"} => <<t, "TurnStarted">> \in event_history
    /\ k # "TurnCancelled" => ~Ended(t)
    /\ cancel_flag = {} => \A e \in event_history : e[1] = t \/ Ended(e[1])

TurnsInOrder == [][PublishedInOrder]_vars

\* The session's usage counts each finished turn at least once.
UsageCoversTurns == usage >= Cardinality(Counted)

\* Every task that was spawned ends, as long as its user answers and the
\* session stays in the store or a socket is open, which a delete does not
\* close: no wait for a lock or an answer is forever.
SpawnedTurnsEnd ==
  \A t \in Turns : (phase[t] \in Tasks) ~> (phase[t] = "finished" \/ ~(stored \/ ws_open))

\* (stated by the 409 message: "another turn is already running for this
\* session") Two turns that nobody cancelled are never at work together.
OneTurnAtATime ==
  \A t, u \in ActiveTurns \ cancel_flag : t = u

\* (stated by the API reference, which calls /cost the aggregate cost of the
\* session) The session's usage is the sum over its turns.
UsageIsTheSum ==
  (cancel_flag = {} /\ \A t \in Turns : phase[t] # "counted")
    => usage = Cardinality(Counted)

-----------------------------------------------------------------------------
(* The promise behind the slot, as an abstract specification. *)

Serial == INSTANCE SerialTurns WITH runner <- current_turn,
                                    said   <- conversation.said

\* Turns that copy, extend and write back the conversation look, where nobody
\* cancels, compacts or imports, like turns that extend it in one step and in
\* turn: no update is lost, whoever hangs up and whatever fails.
ImplementsSerial == Serial!Spec

=============================================================================
