----------------------------- MODULE TuiSession -----------------------------
(***************************************************************************)
(* The terminal front end: run_tui_repl (elai-cli/src/main.rs) with the    *)
(* part of the UI it drives (tui.rs).                                      *)
(*                                                                         *)
(* One UI thread renders, drains the messages of the runtime threads,      *)
(* reads a key, takes at most one finished outcome and performs one        *)
(* action.  Every message sent starts a thread that clones the session,    *)
(* runs a turn on its copy, asks for permission through two channels, and  *)
(* writes its copy back at the end.  `thinking` is all that keeps a second *)
(* turn from starting: nothing stops a thread.  The user may leave the     *)
(* program in any state, which ends every thread at once and is no step.   *)
(*                                                                         *)
(* A turn has the number of the message that started it.  A session is the *)
(* set of the turns whose messages it holds; Stored stands for the history *)
(* of another session found on disk.                                       *)
(***************************************************************************)
EXTENDS Naturals, Sequences, SequencesExt

CONSTANTS MaxTyped,      \* messages typed
          Inputs,        \* <<typed, interrupted>>: how many of both there may be
          Interruptions  \* dialogs, pickers, Ctrl+C and quota errors that happen

VARIABLES ui,        \* where the UI thread is in its loop
          action,    \* the TuiAction to perform in this round
          app,       \* UiApp: thinking, message_queue, pending_outgoing, overlay
          msgs,      \* the channel msg_rx
          perms,     \* the channel perm_rx
          outcomes,  \* the channel thread_done_rx
          session,   \* the shared Mutex<Session>
          disk,      \* the session files
          turn,      \* the runtime threads
          typed,     \* messages typed so far
          interrupted,   \* interruptions so far
          doubled,   \* history: some poll drained the ends of two turns
          replaced   \* history: a command replaced the session, unsaved

vars == <<ui, action, app, msgs, perms, outcomes, session, disk, turn,
          typed, interrupted, doubled, replaced>>
inputs == <<typed, interrupted>>
uiVars == <<ui, action, app, perms, typed, doubled, replaced>>

Turns == 1..MaxTyped
NoTurn == 0
Stored == 0
Sessions == SUBSET (Turns \cup {Stored})
Commands == {"clear", "resume", "compact", "other"}
NoAction == [do |-> "none", msg |-> NoTurn]
Do(what) == [do |-> what, msg |-> NoTurn]
Send(m) == [do |-> "send", msg |-> m]
NoOverlay == [kind |-> "none", turn |-> NoTurn]
Picker == [kind |-> "picker", turn |-> NoTurn]
Dialog(kind, t) == [kind |-> kind, turn |-> t]
Msg(kind, t) == [kind |-> kind, turn |-> t]

Init ==
  /\ ui = "drain"
  /\ action = NoAction
  /\ app = [thinking |-> FALSE, queue |-> <<>>, pending |-> NoTurn, overlay |-> NoOverlay]
  /\ msgs = <<>>
  /\ perms = <<>>
  /\ outcomes = <<>>
  /\ session = {}
  /\ disk = [own |-> {}, other |-> {Stored}]
  /\ turn = [t \in Turns |-> [phase |-> "none", base |-> {}, reply |-> "none"]]
  /\ typed = 0
  /\ interrupted = 0
  /\ doubled = FALSE
  /\ replaced = FALSE

-----------------------------------------------------------------------------
(* The runtime threads.                                                    *)

Phases == {"none", "building", "running", "asking", "committed", "told", "over"}

Become(t, phase) == turn' = [turn EXCEPT ![t].phase = phase]

\* The thread drops its copy of the session.
Leave(t, phase) == turn' = [turn EXCEPT ![t].phase = phase, ![t].base = {}]

Interrupted(what) ==
  /\ what \in Interruptions
  /\ <<typed, interrupted + 1>> \in Inputs
  /\ interrupted' = interrupted + 1

\* Fault: a runtime that cannot be built ends the thread without a message.
Fault_SilentFailure(t) ==
  /\ turn[t].phase = "building"
  /\ Leave(t, "told")
  /\ UNCHANGED <<uiVars, interrupted, msgs, outcomes, session, disk>>

\* build_runtime_for_tui fails: the turn ends without touching the session.
FailToBuild(t) ==
  /\ turn[t].phase = "building"
  /\ Leave(t, "told")
  /\ msgs' = Append(msgs, Msg("end", t))
  /\ UNCHANGED <<uiVars, interrupted, outcomes, session, disk>>

\* The runtime is built as soon as the thread does anything else.
Working(t) == turn[t].phase \in {"building", "running"}

\* CliPermissionPrompter::decide: the request carries the sender of the reply.
AskPermission(t) ==
  /\ Working(t)
  /\ Interrupted("dialog")
  /\ Become(t, "asking")
  /\ perms' = Append(perms, t)
  /\ UNCHANGED <<ui, action, app, typed, doubled, replaced, msgs, outcomes, session, disk>>

\* The stream in full SWD mode: the batch of file actions is shown before it
\* is executed.
ShowBatch(t) ==
  /\ Working(t)
  /\ Interrupted("dialog")
  /\ Become(t, "asking")
  /\ msgs' = Append(msgs, Msg("preview", t))
  /\ UNCHANGED <<uiVars, outcomes, session, disk>>

\* reply_rx.recv() returns: a denial ends the wait as an approval does.
TakeReply(t) ==
  /\ turn[t].phase = "asking"
  /\ turn[t].reply # "none"
  /\ turn' = [turn EXCEPT ![t].phase = "running", ![t].reply = "none"]
  /\ UNCHANGED <<uiVars, interrupted, msgs, outcomes, session, disk>>

\* run_turn returned, well or not: what the thread holds becomes the session,
\* and is not used again.
Commit(t) ==
  /\ Working(t)
  /\ session' = turn[t].base \cup {t}
  /\ Leave(t, "committed")
  /\ UNCHANGED <<uiVars, interrupted, msgs, outcomes, disk>>

\* TuiMsg::Done or TuiMsg::Error, which the UI treats alike.
Tell(t) ==
  /\ turn[t].phase = "committed"
  /\ Leave(t, "told")
  /\ msgs' = Append(msgs, Msg("end", t))
  /\ UNCHANGED <<uiVars, interrupted, outcomes, session, disk>>

\* The thread's last statement; TRUE is an error that makes the UI offer other
\* models.
Report(t) ==
  /\ turn[t].phase = "told"
  /\ Become(t, "over")
  /\ \/ outcomes' = Append(outcomes, FALSE) /\ UNCHANGED interrupted
     \/ outcomes' = Append(outcomes, TRUE) /\ Interrupted("quota")
  /\ UNCHANGED <<uiVars, msgs, session, disk>>

\* No step of the thread is possible.
Idle(t) ==
  \/ turn[t].phase \in {"none", "over"}
  \/ turn[t].phase = "asking" /\ turn[t].reply = "none"

ThreadStep(t) ==
  \/ FailToBuild(t) \/ AskPermission(t) \/ ShowBatch(t)
  \/ TakeReply(t) \/ Commit(t) \/ Tell(t) \/ Report(t)

-----------------------------------------------------------------------------
(* The UI thread.                                                          *)

IsEnd(m) == m.kind = "end"

\* Fault: the end of a turn sends no queued message.
Fault_QueueIgnored(a) == a

\* Fault: the next message leaves the queue and is not kept.
Fault_NextLost(a) == IF a.queue = <<>> THEN a ELSE [a EXCEPT !.queue = Tail(@)]

NextQueued(a) ==
  IF a.queue = <<>> THEN a ELSE [a EXCEPT !.pending = Head(a.queue), !.queue = Tail(a.queue)]

\* UiApp::apply_tui_msg, for the messages that change more than the chat.
ApplyTuiMsg(a, m) ==
  IF IsEnd(m) THEN NextQueued([a EXCEPT !.thinking = FALSE])
  ELSE [a EXCEPT !.overlay = Dialog("swd", m.turn)]

\* A dialog whose overlay is replaced drops its reply sender: the thread's
\* recv fails, which counts as a denial.  `shown` are the overlays in turn.
\* Fault: a dialog that is replaced keeps its reply sender alive.
Fault_ReplySenderKept(shown) == {}

Dropped(shown) ==
  {shown[i].turn : i \in {j \in DOMAIN shown : \E k \in DOMAIN shown : j < k}} \ {NoTurn}

Reply(to, what) ==
  turn' = [t \in Turns |-> IF t \in to THEN [turn[t] EXCEPT !.reply = what] ELSE turn[t]]

\* check_pending_permission
CheckPermission(a) ==
  IF a.overlay = NoOverlay /\ perms # <<>>
    THEN /\ app' = [a EXCEPT !.overlay = Dialog("tool", Head(perms))]
         /\ perms' = Tail(perms)
    ELSE /\ app' = a
         /\ UNCHANGED perms

\* render, then the part of poll_and_handle that does not wait: every message
\* in the channel is applied, a queued message goes before any dialog.
Drain ==
  /\ ui = "drain"
  /\ LET a == FoldLeft(ApplyTuiMsg, app, msgs)
         previews == {i \in DOMAIN msgs : msgs[i].kind = "preview"}
         shown == [i \in {0} \cup previews |->
                     IF i = 0 THEN app.overlay ELSE Dialog("swd", msgs[i].turn)]
         ends == {i \in DOMAIN msgs : IsEnd(msgs[i])}
     IN /\ msgs' = <<>>
        /\ Reply(Dropped(shown), "deny")
        /\ doubled' = (doubled \/ \E i, j \in ends : i # j)
        /\ IF a.pending # NoTurn
             THEN /\ app' = [a EXCEPT !.pending = NoTurn]
                  /\ action' = Send(a.pending)
                  /\ ui' = "outcome"
                  /\ UNCHANGED perms
             ELSE /\ CheckPermission(a)
                  /\ action' = NoAction
                  /\ ui' = "key"
  /\ UNCHANGED <<outcomes, session, disk, inputs, replaced>>

Key == ui = "key" /\ ui' = "outcome"
KeepThreads == UNCHANGED <<msgs, perms, outcomes, session, disk, doubled, replaced>>

\* event::poll waits 50 ms and returns nothing.
NoKey ==
  /\ Key
  /\ KeepThreads
  /\ UNCHANGED <<action, app, turn, inputs>>

\* handle_key, Enter: a message typed while a turn is shown as running waits.
Submit ==
  /\ Key
  /\ app.overlay = NoOverlay
  /\ typed < MaxTyped
  /\ <<typed + 1, interrupted>> \in Inputs
  /\ typed' = typed + 1
  /\ IF app.thinking
       THEN app' = [app EXCEPT !.queue = Append(@, typed + 1)] /\ UNCHANGED action
       ELSE action' = Send(typed + 1) /\ UNCHANGED app
  /\ KeepThreads
  /\ UNCHANGED <<turn, interrupted>>

\* handle_key, Ctrl+C: "Geração cancelada", and only the flag changes.
CancelKey ==
  /\ Key
  /\ app.overlay = NoOverlay
  /\ app.thinking
  /\ Interrupted("cancel")
  /\ app' = [app EXCEPT !.thinking = FALSE]
  /\ KeepThreads
  /\ UNCHANGED <<action, turn, typed>>

\* Ctrl+K, `/` and the F keys open a picker whether or not a turn is running.
OpenPicker ==
  /\ Key
  /\ app.overlay = NoOverlay
  /\ Interrupted("command")
  /\ app' = [app EXCEPT !.overlay = Picker]
  /\ KeepThreads
  /\ UNCHANGED <<action, turn, typed>>

\* handle_overlay_key in a picker: Esc, or the choice of a command.
PickerKey ==
  /\ Key
  /\ app.overlay = Picker
  /\ app' = [app EXCEPT !.overlay = NoOverlay]
  /\ \E command \in Commands \cup {"none"} : action' = Do(command)
  /\ KeepThreads
  /\ UNCHANGED <<turn, inputs>>

\* handle_overlay_key in ToolApproval and SwdConfirmApply.
DialogKey ==
  /\ Key
  /\ app.overlay.kind \in {"tool", "swd"}
  /\ app' = [app EXCEPT !.overlay = NoOverlay]
  /\ \E what \in {"allow", "deny"} : Reply({app.overlay.turn}, what)
  /\ KeepThreads
  /\ UNCHANGED <<action, inputs>>

\* Fault: the file is added to.
Fault_Appended ==
  /\ disk' = [disk EXCEPT !.own = @ \cup session]
  /\ replaced' = FALSE

\* save_to_path: the file of this process is written anew.
Save ==
  /\ disk' = [disk EXCEPT !.own = session]
  /\ replaced' = FALSE

\* The end of a thread is taken once a round, after the key: the turn is over
\* for the UI and what memory holds is saved to the file of this process.
TakeOutcome ==
  /\ ui = "outcome"
  /\ ui' = "act"
  /\ IF outcomes = <<>>
       THEN UNCHANGED <<app, outcomes, disk, turn, replaced>>
       ELSE /\ app' = [app EXCEPT !.thinking = FALSE,
                                  !.overlay = IF Head(outcomes) THEN Picker ELSE @]
            /\ Reply(Dropped(IF Head(outcomes) THEN <<app.overlay, Picker>> ELSE <<>>), "deny")
            /\ outcomes' = Tail(outcomes)
            /\ Save
  /\ UNCHANGED <<action, msgs, perms, session, inputs, doubled>>

\* TuiAction::SendMessage: the thread gets a copy of the session as it is now.
SendMessage ==
  /\ action.do = "send"
  /\ IF app.thinking THEN UNCHANGED <<app, turn>>
     ELSE /\ app' = [app EXCEPT !.thinking = TRUE]
          /\ turn' = [turn EXCEPT ![action.msg].phase = "building", ![action.msg].base = session]
  /\ UNCHANGED <<session, disk, msgs, replaced>>

\* /clear, and TuiAction::ResumeSession of a session found on disk.
Clear ==
  /\ action.do = "clear"
  /\ app' = [app EXCEPT !.thinking = FALSE]
  /\ session' = {}
  /\ replaced' = TRUE
  /\ UNCHANGED <<disk, msgs, turn>>

ResumeSession ==
  /\ action.do = "resume"
  /\ \E f \in {"own", "other"} : disk[f] # {} /\ session' = disk[f]
  /\ replaced' = TRUE
  /\ UNCHANGED <<app, disk, msgs, turn>>

\* run_tui_compact_session: what is kept is summarised and saved.
Compact ==
  /\ action.do = "compact"
  /\ Save
  /\ UNCHANGED <<app, session, msgs, turn>>

\* handle_tui_slash_command: every other command clears the flag as well; one
\* that works in a thread of its own may report an error as a turn would.
OtherCommand ==
  /\ action.do = "other"
  /\ app' = [app EXCEPT !.thinking = FALSE]
  /\ \/ UNCHANGED msgs
     \/ msgs' = Append(msgs, Msg("end", NoTurn))
  /\ UNCHANGED <<session, disk, turn, replaced>>

Perform ==
  /\ ui = "act"
  /\ \/ action.do = "none" /\ UNCHANGED <<app, session, disk, msgs, turn, replaced>>
     \/ SendMessage
     \/ Clear
     \/ ResumeSession
     \/ Compact
     \/ OtherCommand
  /\ ui' = "drain"
  /\ action' = NoAction
  /\ UNCHANGED <<perms, outcomes, inputs, doubled>>

UserKey ==
  NoKey \/ Submit \/ CancelKey \/ OpenPicker \/ PickerKey \/ DialogKey

UiStep == Drain \/ UserKey \/ TakeOutcome \/ Perform

Next == UiStep \/ \E t \in Turns : ThreadStep(t)

Spec == Init /\ [][Next]_vars

\* The UI loop goes on, as event::poll returns: each of its steps changes ui,
\* and no other step does.
UiGoesOn == \E at \in {"drain", "key", "outcome", "act"} \ {ui} : ui' = at

\* A thread goes on: each step of one changes its phase, and so does no other
\* step while the thread is not Idle.
ThreadsGoOn ==
  \E t \in {u \in Turns : ~Idle(u)}, phase \in Phases :
    phase # turn[t].phase /\ turn' = [turn EXCEPT ![t].phase = phase, ![t].reply = "none"]

\* These are WF_vars(UiStep) and WF_vars(\E t \in Turns : ThreadStep(t)),
\* written with actions that are easy to enable.  And the user closes an
\* overlay in the end.
UserCloses == []<>(app.overlay = NoOverlay)

Fairness == WF_ui(UiGoesOn) /\ WF_turn(ThreadsGoOn) /\ UserCloses

FairSpec == Spec /\ Fairness

-----------------------------------------------------------------------------
(* Properties.                                                             *)

TypeOK ==
  /\ ui \in {"drain", "key", "outcome", "act"}
  /\ action.msg \in Turns \cup {NoTurn}
  /\ app.thinking \in BOOLEAN
  /\ app.queue \in Seq(Turns)
  /\ app.pending \in Turns \cup {NoTurn}
  /\ app.overlay.kind \in {"none", "picker", "tool", "swd"}
  /\ perms \in Seq(Turns)
  /\ session \in Sessions
  /\ disk.own \in Sessions
  /\ \A t \in Turns : turn[t].base \in Sessions

\* The end of turn t has not reached the UI through the message channel.
Unheard(t) ==
  \/ turn[t].phase \in {"building", "running", "asking", "committed"}
  \/ \E i \in DOMAIN msgs : IsEnd(msgs[i]) /\ msgs[i].turn = t

\* The UI never shows a turn as running when none is: the flag that only the
\* end of a turn clears is set for a turn whose end is still to come.  Every
\* way out of the thread has to report, or the user is left with a spinner
\* and every message typed goes to a queue nobody serves.
ThinkingIsOfATurn == app.thinking => \E t \in Turns : Unheard(t)

\* A message in the queue always has a turn whose end will send it, whatever
\* was cancelled, queued or cleared in between: only the ends of turns take
\* messages out of the queue.
QueueHasATurn ==
  app.queue # <<>> => \/ \E t \in Turns : Unheard(t)
                      \/ app.pending # NoTurn
                      \/ action.do = "send"

\* What the user typed is waiting, on its way or the message of a turn, until
\* one poll drains the ends of two turns: the slot for the next message to
\* send holds one, and the second takes the place of the first.
NothingTypedVanishes ==
  ~doubled =>
    \A m \in 1..typed : \/ m \in ToSet(app.queue)
                        \/ m \in {app.pending, action.msg}
                        \/ turn[m].phase # "none"

\* Once every thread is over and the UI has taken their outcomes, the file
\* holds what memory holds, however the turns overlapped, unless a command
\* replaced the session since.
SavedWhenQuiet ==
  (\A t \in Turns : turn[t].phase \in {"none", "over"}) /\ outcomes = <<>> /\ ~replaced
    => disk.own = session

\* A thread that asks is answered: a dialog that had to wait behind another,
\* or was replaced by one, does not leave its thread blocked.
AskingEnds == \A t \in Turns : []<>(turn[t].phase # "asking")

\* Comment in run_tui_repl: what the runtime produced is persisted, so that the
\* user's input and the work of a turn are not lost.  No step but a command of
\* the user takes the messages of a turn out of the session.
WorkIsKept == [][session \subseteq session' \/ action.do \in {"clear", "resume"}]_vars
=============================================================================
