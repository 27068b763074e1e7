------------------------- MODULE SessionTurns_proofs -------------------------
(***************************************************************************)
(* Theorems about SessionTurns, for any finite set of turns, any number of *)
(* compact calls and any bound on the requests of a turn.                  *)
(***************************************************************************)
EXTENDS SessionTurns, FiniteSetTheorems, TLAPS

LEMMA CopyIsFinite ==
  ASSUME NEW t \in Turns, TypeOK
  PROVE  Cardinality(prior[t].kept) \in Nat
<1>1. prior[t].kept \subseteq Turns
  BY DEF TypeOK, Conversation
<1> QED
  BY <1>1, FS_Subset, FS_CardinalityType, TurnsAssumption

(* A turn that waits for an answer has made a request.  Without it the     *)
(* type of `executed` is not inductive.                                    *)
Numbered ==
  \A t \in Turns : phase[t] \in {"requesting", "waiting"} => asked[t] # 0

LEMMA TypeInit == Init => TypeOK /\ Numbered
<1> SUFFICES ASSUME Init PROVE TypeOK /\ Numbered
  OBVIOUS
<1>1. EmptyConversation \in Conversation
  BY DEF EmptyConversation, Conversation
<1>2. 0 \in 0..MaxAsks /\ 0 \in Nat
  BY BoundsAssumption
<1>3. "new" \in Phases
  BY DEF Phases
<1>4. Numbered
  BY DEF Init, Numbered
<1> QED
  BY <1>1, <1>2, <1>3, <1>4 DEF Init, TypeOK

LEMMA TypeStep == TypeOK /\ Numbered /\ [Next]_vars => TypeOK'
<1> SUFFICES ASSUME TypeOK, Numbered, [Next]_vars PROVE TypeOK'
  OBVIOUS
<1> USE DEF TypeOK, turnVars, cancelVars, storeVars, outsideVars, stateVars,
            permissionVars,
            compactVars, Goto, Publish
<1>1. ASSUME NEW t \in Turns, HandlerStep(t) PROVE TypeOK'
  <2> USE DEF Phases, Active, Admission, Tasks
  <2>1. CASE SendMessage_Reject(t)   BY <2>1 DEF SendMessage_Reject
  <2>2. CASE SendMessage_Claim(t)    BY <2>2 DEF SendMessage_Claim, SlotFree
  <2>3. CASE SendMessage_Snapshot(t) BY <2>3 DEF SendMessage_Snapshot
  <2>4. CASE SendMessage_Spawn(t)    BY <2>4 DEF SendMessage_Spawn, Kinds
  <2>5. CASE SendMessage_Drop(t)     BY <2>5 DEF SendMessage_Drop
  <2>6. CASE CancelTurn(t)           BY <2>6 DEF CancelTurn
  <2>7. CASE CancelTurn_Publish(t)   BY <2>7 DEF CancelTurn_Publish, Kinds
  <2>8. CASE CancelTurn_Drop(t)      BY <2>8 DEF CancelTurn_Drop
  <2> QED
    BY <1>1, <2>1, <2>2, <2>3, <2>4, <2>5, <2>6, <2>7, <2>8 DEF HandlerStep
<1>2. ASSUME NEW t \in Turns, TaskStep(t) PROVE TypeOK'
  <2> USE DEF Phases, Active, Admission, Tasks
  <2>1. CASE Prompter_Insert(t)
    BY <2>1, BoundsAssumption DEF Prompter_Insert, Requests
  <2>2. CASE Prompter_Publish(t)     BY <2>2 DEF Prompter_Publish, Kinds
  <2>3. CASE Prompter_Return(t)
    <3>1. LatestAsk(t) \in Requests
      BY <2>3 DEF Prompter_Return, LatestAsk, Requests, Numbered, Approved
    <3> QED  BY <2>3, <3>1 DEF Prompter_Return, Approved
  <2>4. CASE RunTurn_Stash(t)
    BY <2>4 DEF RunTurn_Stash, Conversation, Extended
  <2>5. CASE RunTurn_Fail(t)         BY <2>5 DEF RunTurn_Fail
  <2>6. CASE RunTurn_Replay(t)       BY <2>6 DEF RunTurn_Replay, Kinds
  <2>7. CASE RunTurn_Count(t)
    BY <2>7, CopyIsFinite DEF RunTurn_Count, NewUsage
  <2>8. CASE RunTurn_Report(t)       BY <2>8 DEF RunTurn_Report, Kinds
  <2>9. CASE RunTurn_Release(t)      BY <2>9 DEF RunTurn_Release, Released
  <2> QED
    BY <1>2, <2>1, <2>2, <2>3, <2>4, <2>5, <2>6, <2>7, <2>8, <2>9 DEF TaskStep
<1>3. ASSUME NEW r \in Requests, NEW o \in Outcomes, DecidePermission(r, o)
      PROVE  TypeOK'
  BY <1>3 DEF DecidePermission, Reachable, Remaining, Answered, Decides
<1>4. ASSUME NEW r \in Requests, NEW o \in Outcomes, NEW form \in WsFrames,
             AnswerOnSocket(r, form, o)
      PROVE  TypeOK'
  BY <1>4 DEF AnswerOnSocket, Accepted, Remaining, Answered, Decides
<1>5. ASSUME NEW c \in Compactions, Compact_Read(c) PROVE TypeOK'
  BY <1>5 DEF Compact_Read
<1>6. ASSUME NEW c \in Compactions, Compact_Write(c) PROVE TypeOK'
  BY <1>6 DEF Compact_Write, Conversation
<1>7. CASE OpenSocket     BY <1>7 DEF OpenSocket
<1>8. CASE CloseSocket    BY <1>8 DEF CloseSocket
<1>9. CASE Resume         BY <1>9 DEF Resume
<1>10. CASE DeleteSession BY <1>10 DEF DeleteSession
<1>11. CASE UNCHANGED vars BY <1>11 DEF vars
<1> QED
  BY <1>1, <1>2, <1>3, <1>4, <1>5, <1>6, <1>7, <1>8, <1>9, <1>10, <1>11
  DEF Next

LEMMA NumberedStep == TypeOK /\ Numbered /\ [Next]_vars => Numbered'
<1> SUFFICES ASSUME TypeOK, Numbered, [Next]_vars PROVE Numbered'
  OBVIOUS
<1> USE DEF TypeOK, Numbered, turnVars, cancelVars, storeVars, outsideVars,
            stateVars, permissionVars, Goto
<1>1. ASSUME NEW t \in Turns, HandlerStep(t) PROVE Numbered'
  BY <1>1 DEF HandlerStep, SendMessage_Reject, SendMessage_Claim,
     SendMessage_Snapshot, SendMessage_Spawn, SendMessage_Drop,
     CancelTurn, CancelTurn_Publish, CancelTurn_Drop, SlotFree
<1>2. ASSUME NEW t \in Turns, TaskStep(t) PROVE Numbered'
  <2>1. CASE Prompter_Insert(t)
    BY <2>1, BoundsAssumption DEF Prompter_Insert
  <2>2. CASE ~Prompter_Insert(t)
    BY <1>2, <2>2 DEF TaskStep, Prompter_Publish, Prompter_Return,
       RunTurn_Stash, RunTurn_Fail, RunTurn_Replay, RunTurn_Count,
       RunTurn_Report, RunTurn_Release, Released, NewUsage, Extended, Approved
  <2> QED  BY <2>1, <2>2
<1>3. CASE UNCHANGED <<phase, asked>>
  BY <1>3
<1> QED
  BY <1>1, <1>2, <1>3 DEF Next, vars, DecidePermission, AnswerOnSocket,
     Compact_Read, Compact_Write, OpenSocket, CloseSocket, Resume,
     DeleteSession, Reachable, Remaining, Answered, Decides, Accepted

(* Every reachable state is well typed. *)
THEOREM TypeCorrect == Spec => [](TypeOK /\ Numbered)
<1>1. Init => TypeOK /\ Numbered
  BY TypeInit
<1>2. TypeOK /\ Numbered /\ [Next]_vars => (TypeOK /\ Numbered)'
  BY TypeStep, NumberedStep
<1> QED
  BY <1>1, <1>2, PTL DEF Spec

-----------------------------------------------------------------------------
(* The slot.  ExclusiveUnlessCancelled is inductive over the types: with   *)
(* the slot empty nobody is at work, so a claim adds the first, and the    *)
(* task that empties the slot is the only one.                             *)

\* An accepted cancel and an imported conversation are never forgotten.
LEMMA FlagsGrow ==
  [Next]_vars => cancel_flag \subseteq cancel_flag' /\ (imported => imported')
<1> SUFFICES ASSUME [Next]_vars
             PROVE  cancel_flag \subseteq cancel_flag' /\ (imported => imported')
  OBVIOUS
<1> USE DEF turnVars, cancelVars, storeVars, outsideVars
<1>1. CASE \E t \in Turns : HandlerStep(t)
  BY <1>1 DEF HandlerStep, SendMessage_Reject, SendMessage_Claim,
     SendMessage_Snapshot, SendMessage_Spawn, SendMessage_Drop, CancelTurn,
     CancelTurn_Publish, CancelTurn_Drop, SlotFree
<1>2. CASE \E t \in Turns : TaskStep(t)
  BY <1>2 DEF TaskStep, Prompter_Insert, Prompter_Publish, Prompter_Return,
     RunTurn_Stash, RunTurn_Fail, RunTurn_Replay, RunTurn_Count,
     RunTurn_Report, RunTurn_Release, Released, NewUsage, Extended, Approved
<1> QED
  BY <1>1, <1>2 DEF Next, vars, DecidePermission, AnswerOnSocket,
     Compact_Read, Compact_Write, OpenSocket, CloseSocket, Resume,
     DeleteSession, Reachable, Remaining, Answered, Decides, Accepted

LEMMA ExclusiveStep ==
  TypeOK /\ ExclusiveUnlessCancelled /\ [Next]_vars => ExclusiveUnlessCancelled'
<1> SUFFICES ASSUME TypeOK, ExclusiveUnlessCancelled, [Next]_vars,
                    cancel_flag' = {}, NEW u \in Turns, phase'[u] \in Active
             PROVE  current_turn' = u
  BY DEF ExclusiveUnlessCancelled, ActiveTurns
<1> USE DEF TypeOK, turnVars, cancelVars, storeVars, outsideVars, Goto
<1>1. cancel_flag = {}
  BY FlagsGrow
<1>2. \A t \in Turns : phase[t] \in Active => current_turn = t
  BY <1>1 DEF ExclusiveUnlessCancelled, ActiveTurns
<1>3. ASSUME NEW t \in Turns, HandlerStep(t) PROVE current_turn' = u
  <2> USE DEF Active, Admission, Tasks
  <2>1. CASE SendMessage_Claim(t)
    BY <2>1, <1>2, TurnsAssumption DEF SendMessage_Claim, SlotFree
  <2>2. CASE CancelTurn(t)
    BY <2>2 DEF CancelTurn
  <2>3. CASE ~SendMessage_Claim(t) /\ ~CancelTurn(t)
    BY <1>3, <2>3, <1>2 DEF HandlerStep, SendMessage_Reject,
       SendMessage_Snapshot, SendMessage_Spawn, SendMessage_Drop,
       CancelTurn_Publish, CancelTurn_Drop
  <2> QED  BY <2>1, <2>2, <2>3
<1>4. ASSUME NEW t \in Turns, TaskStep(t) PROVE current_turn' = u
  <2> USE DEF Active, Admission, Tasks
  <2>1. CASE RunTurn_Release(t)
    BY <2>1, <1>2 DEF RunTurn_Release, Released
  <2>2. CASE ~RunTurn_Release(t)
    BY <1>4, <2>2, <1>2 DEF TaskStep, Prompter_Insert, Prompter_Publish,
       Prompter_Return, RunTurn_Stash, RunTurn_Fail, RunTurn_Replay,
       RunTurn_Count, RunTurn_Report, NewUsage, Extended, Approved
  <2> QED  BY <2>1, <2>2
<1>5. CASE UNCHANGED <<phase, current_turn>>
  BY <1>5, <1>2
<1> QED
  BY <1>3, <1>4, <1>5 DEF Next, vars, DecidePermission, AnswerOnSocket,
     Compact_Read, Compact_Write, OpenSocket, CloseSocket, Resume,
     DeleteSession, Reachable, Remaining, Answered, Decides, Accepted

(* As long as no cancel was accepted, the slot is a lock: at most one turn *)
(* is at work, whatever the clients send, drop, compact or delete.         *)
THEOREM Exclusion == Spec => []ExclusiveUnlessCancelled
<1>1. Init => ExclusiveUnlessCancelled
  BY DEF Init, ExclusiveUnlessCancelled, ActiveTurns, Active, Admission, Tasks
<1> QED
  BY <1>1, ExclusiveStep, TypeCorrect, PTL DEF Spec

-----------------------------------------------------------------------------
(* The order of the events.  What is in the history tells where a turn     *)
(* stands: it was started if it was spawned, and has its end if it has     *)
(* nothing left to do but to release the slot.                             *)

EventInv ==
  /\ \A t \in Turns, k \in Kinds \ {"TurnCancelled"} :
       <<t, k>> \in event_history => phase[t] \in Tasks \cup {"finished"}
  /\ \A t \in Turns :
       phase[t] \in Tasks \cup {"finished"} => <<t, "TurnStarted">> \in event_history
  /\ \A t \in Turns : Ended(t) <=> phase[t] \in {"ending", "finished"}
  /\ \A t \in Turns :
       t \in cancelling \/ <<t, "TurnCancelled">> \in event_history => t \in cancel_flag

\* A step of one turn, with the event it publishes, if any.
LEMMA EventStep ==
  TypeOK /\ EventInv /\ [Next]_vars => EventInv'
<1> SUFFICES ASSUME TypeOK, EventInv, [Next]_vars PROVE EventInv'
  OBVIOUS
<1> USE DEF TypeOK, EventInv, Ended, Publish, Goto, Tasks, Admission, Kinds,
            turnVars, cancelVars, storeVars, outsideVars
<1>1. ASSUME NEW t \in Turns, HandlerStep(t) PROVE EventInv'
  <2>1. CASE SendMessage_Spawn(t)    BY <2>1 DEF SendMessage_Spawn
  <2>2. CASE CancelTurn(t)           BY <2>2 DEF CancelTurn
  <2>3. CASE CancelTurn_Publish(t)   BY <2>3 DEF CancelTurn_Publish
  <2>4. CASE CancelTurn_Drop(t)      BY <2>4 DEF CancelTurn_Drop
  <2>5. CASE SendMessage_Reject(t)   BY <2>5 DEF SendMessage_Reject
  <2>6. CASE SendMessage_Claim(t)    BY <2>6 DEF SendMessage_Claim, SlotFree
  <2>7. CASE SendMessage_Snapshot(t) BY <2>7 DEF SendMessage_Snapshot
  <2>8. CASE SendMessage_Drop(t)     BY <2>8 DEF SendMessage_Drop
  <2> QED
    BY <1>1, <2>1, <2>2, <2>3, <2>4, <2>5, <2>6, <2>7, <2>8 DEF HandlerStep
<1>2. ASSUME NEW t \in Turns, TaskStep(t) PROVE EventInv'
  <2>1. CASE Prompter_Insert(t)      BY <2>1 DEF Prompter_Insert
  <2>2. CASE Prompter_Publish(t)     BY <2>2 DEF Prompter_Publish
  <2>3. CASE Prompter_Return(t)      BY <2>3 DEF Prompter_Return
  <2>4. CASE RunTurn_Stash(t)        BY <2>4 DEF RunTurn_Stash
  <2>5. CASE RunTurn_Fail(t)         BY <2>5 DEF RunTurn_Fail
  <2>6. CASE RunTurn_Replay(t)       BY <2>6 DEF RunTurn_Replay
  <2>7. CASE RunTurn_Count(t)        BY <2>7 DEF RunTurn_Count
  <2>8. CASE RunTurn_Report(t)       BY <2>8 DEF RunTurn_Report
  <2>9. CASE RunTurn_Release(t)      BY <2>9 DEF RunTurn_Release
  <2> QED
    BY <1>2, <2>1, <2>2, <2>3, <2>4, <2>5, <2>6, <2>7, <2>8, <2>9 DEF TaskStep
<1>3. CASE UNCHANGED <<phase, event_history, cancel_flag, cancelling>>
  BY <1>3
<1> QED
  BY <1>1, <1>2, <1>3 DEF Next, vars, DecidePermission, AnswerOnSocket,
     Compact_Read, Compact_Write, OpenSocket, CloseSocket, Resume,
     DeleteSession, Reachable, Remaining, Answered, Decides, Accepted

\* Whoever publishes, other than a cancel, is at work, and the others with an
\* event have ended or were cancelled.
LEMMA EventOrder ==
  TypeOK /\ EventInv /\ ExclusiveUnlessCancelled /\ [Next]_vars => [PublishedInOrder]_vars
<1> SUFFICES ASSUME TypeOK, EventInv, ExclusiveUnlessCancelled, [Next]_vars,
                    NEW t \in Turns, NEW k \in Kinds,
                    <<t, k>> \in event_history' \ event_history
             PROVE  /\ k = "TurnStarted" =>
                         \A e \in event_history : e[1] = t => e[2] = "TurnCancelled"
                    /\ k \notin {"TurnStarted", "TurnCancelled"} =>
                         <<t, "TurnStarted">> \in event_history
                    /\ k # "TurnCancelled" => ~Ended(t)
                    /\ cancel_flag = {} =>
                         \A e \in event_history : e[1] = t \/ Ended(e[1])
  BY DEF PublishedInOrder
<1>1. \/ k = "TurnStarted" /\ phase[t] = "snapshotted"
      \/ k = "TurnCancelled" /\ t \in cancelling
      \/ /\ k \notin {"TurnStarted", "TurnCancelled"}
         /\ phase[t] \in {"requesting", "stashed", "counted", "failed"}
  <2> USE DEF Publish, Kinds, turnVars, cancelVars, storeVars, outsideVars
  <2>1. ASSUME NEW u \in Turns, HandlerStep(u)
        PROVE  \/ SendMessage_Spawn(u) \/ CancelTurn_Publish(u)
               \/ UNCHANGED event_history
    BY <2>1 DEF HandlerStep, SendMessage_Reject, SendMessage_Claim,
       SendMessage_Snapshot, SendMessage_Drop, CancelTurn, CancelTurn_Drop
  <2>2. ASSUME NEW u \in Turns, TaskStep(u)
        PROVE  \/ Prompter_Publish(u) \/ RunTurn_Replay(u) \/ RunTurn_Report(u)
               \/ UNCHANGED event_history
    BY <2>2 DEF TaskStep, Prompter_Insert, Prompter_Return, RunTurn_Stash,
       RunTurn_Fail, RunTurn_Count, RunTurn_Release
  <2>3. PICK u \in Turns : \/ SendMessage_Spawn(u) \/ CancelTurn_Publish(u)
                           \/ Prompter_Publish(u) \/ RunTurn_Replay(u)
                           \/ RunTurn_Report(u)
    BY <2>1, <2>2 DEF Next, vars, DecidePermission, AnswerOnSocket,
       Compact_Read, Compact_Write, OpenSocket, CloseSocket, Resume, DeleteSession
  <2> QED
    BY <2>3 DEF SendMessage_Spawn, CancelTurn_Publish, Prompter_Publish,
       RunTurn_Replay, RunTurn_Report
<1>2. \A e \in event_history : e = <<e[1], e[2]>> /\ e[1] \in Turns /\ e[2] \in Kinds
  BY DEF TypeOK
<1>3. ASSUME k = "TurnStarted", NEW e \in event_history, e[1] = t, e[2] # "TurnCancelled"
      PROVE  FALSE
  BY <1>1, <1>2, <1>3 DEF EventInv, Tasks
<1>4. ASSUME k \notin {"TurnStarted", "TurnCancelled"}
      PROVE  <<t, "TurnStarted">> \in event_history
  BY <1>1, <1>4 DEF EventInv, Tasks
<1>5. ASSUME k # "TurnCancelled" PROVE ~Ended(t)
  BY <1>1, <1>5 DEF EventInv
<1>6. ASSUME cancel_flag = {}, NEW e \in event_history, e[1] # t PROVE Ended(e[1])
  <2>1. e[2] # "TurnCancelled" /\ t \notin cancelling
    <3>1. t \notin cancelling
      BY <1>6 DEF EventInv
    <3>2. e[1] \in Turns /\ e = <<e[1], e[2]>>
      BY <1>2
    <3>3. <<e[1], "TurnCancelled">> \notin event_history
      BY <1>6, <3>2 DEF EventInv
    <3> QED
      BY <3>1, <3>2, <3>3
  <2>2. phase[e[1]] \in Tasks \cup {"finished"}
    BY <1>2, <2>1 DEF EventInv
  <2>3. current_turn = t
    BY <1>1, <1>6, <2>1 DEF ExclusiveUnlessCancelled, ActiveTurns, Active, Admission, Tasks
  <2>4. phase[e[1]] \notin Active
    BY <1>2, <1>6, <2>3 DEF ExclusiveUnlessCancelled, ActiveTurns
  <2> QED
    BY <1>2, <2>2, <2>4 DEF EventInv, Active
<1> QED
  BY <1>3, <1>4, <1>5, <1>6

(* The events of a turn enter the history between its start and its end,   *)
(* but for TurnCancelled, and those of different turns do not mix before a *)
(* cancel was accepted: for any number of turns and requests.              *)
THEOREM OrderIsKept == Spec => TurnsInOrder
<1>1. Init => EventInv
  BY DEF Init, EventInv, Ended, Tasks
<1> QED
  BY <1>1, EventStep, EventOrder, Exclusion, TypeCorrect, PTL DEF Spec, TurnsInOrder

-----------------------------------------------------------------------------
(* Permission requests.  PendingOwned needs to know that a request not yet *)
(* made has no answer.                                                     *)

Unasked == \A t \in Turns, n \in 1..MaxAsks :
             n > asked[t] => answer[<<t, n>>] = "none"

PermissionInv ==
  /\ Numbered
  /\ PendingOwned
  /\ WaitersReachable
  /\ ToolsOnlyOnApproval
  /\ Unasked

LEMMA PermissionInit == Init => PermissionInv
<1> SUFFICES ASSUME Init PROVE PermissionInv
  OBVIOUS
<1>1. Unasked
  BY DEF Init, Unasked, Requests
<1> QED
  BY <1>1 DEF Init, PermissionInv, Numbered, PendingOwned, WaitersReachable,
     ToolsOnlyOnApproval

\* A step that leaves the requests alone and starts or ends no wait.
LEMMA PermissionFrame ==
  ASSUME TypeOK, PermissionInv, UNCHANGED permissionVars,
         \A t \in Turns :
           /\ phase[t] \in {"requesting", "waiting"} <=> 
              phase'[t] \in {"requesting", "waiting"}
  PROVE  PermissionInv'
<1> USE DEF PermissionInv, permissionVars
<1>1. Numbered'             BY DEF Numbered
<1>2. PendingOwned'
  <2> SUFFICES ASSUME NEW r \in pending_permissions
               PROVE  /\ phase'[r[1]] \in {"requesting", "waiting"}
                      /\ r = LatestAsk(r[1])
                      /\ answer[r] = "none"
    BY DEF PendingOwned, LatestAsk
  <2>1. r[1] \in Turns
    BY DEF TypeOK, Requests
  <2> QED
    BY <2>1 DEF PendingOwned
<1>3. WaitersReachable'     BY DEF WaitersReachable, LatestAsk
<1>4. ToolsOnlyOnApproval'  BY DEF ToolsOnlyOnApproval
<1>5. Unasked'              BY DEF Unasked
<1> QED  BY <1>1, <1>2, <1>3, <1>4, <1>5

\* Request r, taken from the map, gets the decision o.
LEMMA PermissionDecided ==
  ASSUME TypeOK, PermissionInv, NEW r \in pending_permissions,
         NEW o \in {"allow", "deny"},
         pending_permissions' = pending_permissions \ {r},
         answer' = [answer EXCEPT ![r] = o],
         UNCHANGED <<phase, asked, executed>>
  PROVE  PermissionInv'
<1> USE DEF TypeOK, PermissionInv
<1>1. PICK t \in Turns : r = LatestAsk(t) /\ answer[r] = "none"
  BY DEF PendingOwned, Requests
<1>2. PendingOwned'
  BY DEF PendingOwned, LatestAsk
<1>3. WaitersReachable'
  BY <1>1 DEF WaitersReachable, LatestAsk
<1>4. ToolsOnlyOnApproval'
  BY <1>1 DEF ToolsOnlyOnApproval
<1>5. Unasked'
  <2> SUFFICES ASSUME NEW u \in Turns, NEW n \in 1..MaxAsks, n > asked[u]
               PROVE  answer'[<<u, n>>] = "none"
    BY DEF Unasked
  <2>1. <<u, n>> # r
    BY <1>1, BoundsAssumption DEF LatestAsk
  <2> QED
    BY <2>1 DEF Unasked, Requests
<1> QED
  BY <1>2, <1>3, <1>4, <1>5 DEF Numbered

LEMMA PermissionStep ==
  TypeOK /\ PermissionInv /\ [Next]_vars => PermissionInv'
<1> SUFFICES ASSUME TypeOK, PermissionInv, [Next]_vars PROVE PermissionInv'
  OBVIOUS
<1> USE DEF turnVars, cancelVars, storeVars, outsideVars, stateVars, Goto
<1>1. ASSUME NEW t \in Turns, HandlerStep(t) PROVE PermissionInv'
  <2>1. /\ UNCHANGED permissionVars
        /\ \/ UNCHANGED phase
           \/ /\ phase[t] \in {"new", "claimed", "snapshotted"}
              /\ \E p \in {"rejected", "claimed", "snapshotted", "running",
                          "dropped"} :
                   phase' = [phase EXCEPT ![t] = p]
    BY <1>1 DEF HandlerStep, SendMessage_Reject, SendMessage_Claim,
       SendMessage_Snapshot, SendMessage_Spawn, SendMessage_Drop, CancelTurn,
       CancelTurn_Publish, CancelTurn_Drop, Admission, SlotFree
  <2> QED
    BY <2>1, PermissionFrame DEF TypeOK
<1>2. ASSUME NEW t \in Turns, TaskStep(t) PROVE PermissionInv'
  <2>1. CASE Prompter_Insert(t)
    <3> USE <2>1 DEF Prompter_Insert, TypeOK
    <3>1. asked[t] + 1 \in 1..MaxAsks /\ asked[t] \in Nat
      BY BoundsAssumption
    <3>2. answer[<<t, asked[t] + 1>>] = "none"
      BY <3>1 DEF PermissionInv, Unasked
    <3>3. PendingOwned'
      <4> SUFFICES ASSUME NEW r \in pending_permissions'
                   PROVE  /\ phase'[r[1]] \in {"requesting", "waiting"}
                          /\ r = <<r[1], asked'[r[1]]>>
                          /\ answer[r] = "none"
        BY DEF PendingOwned, LatestAsk
      <4>1. CASE r = <<t, asked[t] + 1>>
        BY <3>2, <4>1
      <4>2. CASE r \in pending_permissions
        <5>1. r[1] \in Turns /\ phase[r[1]] \in {"requesting", "waiting"}
              /\ r = <<r[1], asked[r[1]]>> /\ answer[r] = "none"
          BY <4>2 DEF Requests, PermissionInv, PendingOwned, LatestAsk
        <5>2. r[1] # t
          BY <5>1
        <5> QED
          BY <5>1, <5>2
      <4> QED
        BY <4>1, <4>2
    <3>4. WaitersReachable'
      BY DEF PermissionInv, WaitersReachable, LatestAsk
    <3>5. Unasked'
      BY <3>1 DEF PermissionInv, Unasked
    <3>6. Numbered'
      BY <3>1 DEF PermissionInv, Numbered
    <3> QED
      BY <3>3, <3>4, <3>5, <3>6 DEF PermissionInv, ToolsOnlyOnApproval
  <2>2. CASE Prompter_Publish(t)
    BY <2>2, PermissionFrame DEF Prompter_Publish, TypeOK
  <2>3. CASE Prompter_Return(t)
    <3> USE <2>3 DEF Prompter_Return, TypeOK, PermissionInv, Approved
    <3>1. PendingOwned'
      <4> SUFFICES ASSUME NEW r \in pending_permissions
                   PROVE  /\ phase'[r[1]] \in {"requesting", "waiting"}
                          /\ r = <<r[1], asked[r[1]]>>
                          /\ answer[r] = "none"
        BY DEF PendingOwned, LatestAsk
      <4>1. r[1] \in Turns /\ phase[r[1]] \in {"requesting", "waiting"}
            /\ r = <<r[1], asked[r[1]]>> /\ answer[r] = "none"
        BY DEF Requests, PendingOwned, LatestAsk
      <4>2. r[1] # t
        BY <4>1 DEF LatestAsk
      <4> QED
        BY <4>1, <4>2
    <3>2. WaitersReachable'
      BY DEF WaitersReachable, LatestAsk
    <3>3. ToolsOnlyOnApproval'
      BY DEF ToolsOnlyOnApproval
    <3> QED
      BY <3>1, <3>2, <3>3 DEF Numbered, Unasked
  <2>4. CASE ~Prompter_Insert(t) /\ ~Prompter_Publish(t) /\ ~Prompter_Return(t)
    <3>1. /\ UNCHANGED permissionVars
          /\ phase[t] \notin {"requesting", "waiting"}
          /\ \E p \in {"stashed", "failed", "replayed", "counted", "ending",
                      "finished"} : phase' = [phase EXCEPT ![t] = p]
      BY <1>2, <2>4 DEF TaskStep, RunTurn_Stash, RunTurn_Fail, RunTurn_Replay,
         RunTurn_Count, RunTurn_Report, RunTurn_Release, Released, NewUsage,
         Extended
    <3> QED
      BY <3>1, PermissionFrame DEF TypeOK
  <2> QED
    BY <2>1, <2>2, <2>3, <2>4
<1>3. ASSUME NEW r \in Requests, NEW o \in Outcomes, DecidePermission(r, o)
      PROVE  PermissionInv'
  <2>1. CASE o \in {"allow", "deny"}
    BY <1>3, <2>1, PermissionDecided DEF DecidePermission, Reachable,
                                         Remaining, Answered, Decides
  <2>2. CASE o \notin {"allow", "deny"}
    BY <1>3, <2>2, PermissionFrame DEF DecidePermission, permissionVars,
                                       Reachable, Remaining, Answered, Decides
  <2> QED  BY <2>1, <2>2
<1>4. ASSUME NEW r \in Requests, NEW o \in Outcomes, NEW form \in WsFrames,
             AnswerOnSocket(r, form, o)
      PROVE  PermissionInv'
  <2>1. CASE form = "decide" /\ o \in {"allow", "deny"}
    BY <1>4, <2>1, PermissionDecided DEF AnswerOnSocket, Accepted, Remaining,
                                         Answered, Decides
  <2>2. CASE ~(form = "decide" /\ o \in {"allow", "deny"})
    BY <1>4, <2>2, PermissionFrame DEF AnswerOnSocket, permissionVars,
                                       Accepted, Remaining, Answered, Decides
  <2> QED  BY <2>1, <2>2
<1>5. CASE UNCHANGED <<phase, permissionVars>>
  BY <1>5, PermissionFrame
<1> QED
  BY <1>1, <1>2, <1>3, <1>4, <1>5 DEF Next, vars, Compact_Read,
     Compact_Write, OpenSocket, CloseSocket, Resume, DeleteSession

(* A decision can only reach the last request of a turn that still waits   *)
(* for it, no waiting turn is forgotten, and a tool runs only if allowed:  *)
(* also after a cancel, and with answers racing on HTTP and WebSocket.     *)
THEOREM PermissionsCorrect ==
  Spec => [](PendingOwned /\ WaitersReachable /\ ToolsOnlyOnApproval)
<1>1. PermissionInv => PendingOwned /\ WaitersReachable /\ ToolsOnlyOnApproval
  BY DEF PermissionInv
<1> QED
  BY <1>1, PermissionInit, PermissionStep, TypeCorrect, PTL DEF Spec

(* A turn that waits can be answered: over HTTP, on the socket, or it has  *)
(* been; however often answers were refused or sent twice.                 *)
THEOREM WaitersStayReachable == Spec => []WaitersReachable
BY PermissionsCorrect, PTL

(* A tool that needed a permission ran only when that request was allowed, *)
(* after a cancel, a delete and with both ways to answer open.             *)
THEOREM ToolsNeedApproval == Spec => []ToolsOnlyOnApproval
BY PermissionsCorrect, PTL

-----------------------------------------------------------------------------
(* What clients were told.  A registered decision is the answer of its     *)
(* request, which is never taken back, and an approved request whose turn  *)
(* has gone on was executed, whoever answered it.                          *)

Registered == \A d \in registered : answer[d[1]] = d[2]
Executed == \A r \in Requests : (answer[r] = "allow" /\ GoneOn(r)) => r \in executed
DecisionInv == Registered /\ Executed

LEMMA DecisionFrame ==
  ASSUME DecisionInv, TypeOK, UNCHANGED permissionVars, NEW t \in Turns,
         NEW p \in Phases, phase' = [phase EXCEPT ![t] = p],
         p \in {"requesting", "waiting"} => phase[t] \in {"requesting", "waiting"},
         phase[t] \in {"requesting", "waiting"} => p \in {"requesting", "waiting"}
  PROVE  DecisionInv'
<1>1. Registered'
  BY DEF DecisionInv, Registered, permissionVars
<1>2. Executed'
  <2> SUFFICES ASSUME NEW r \in Requests, answer[r] = "allow", GoneOn(r)'
               PROVE  r \in executed
    BY DEF Executed, permissionVars
  <2>1. GoneOn(r)
    BY DEF GoneOn, LatestAsk, permissionVars, TypeOK, Requests
  <2> QED
    BY <2>1 DEF DecisionInv, Executed
<1> QED
  BY <1>1, <1>2 DEF DecisionInv

\* An answer given to a request in the map.
LEMMA DecisionGiven ==
  ASSUME DecisionInv, TypeOK, PermissionInv, NEW r \in pending_permissions,
         NEW outcome \in {"allow", "deny"}, answer' = [answer EXCEPT ![r] = outcome],
         registered' \in {registered, registered \cup {<<r, outcome>>}},
         UNCHANGED <<phase, asked, executed>>
  PROVE  DecisionInv'
<1>1. /\ r \in Requests /\ r[1] \in Turns /\ answer[r] = "none"
      /\ r = LatestAsk(r[1]) /\ phase[r[1]] \in {"requesting", "waiting"}
  BY DEF PermissionInv, PendingOwned, TypeOK, Requests
<1>2. Registered'
  <2> SUFFICES ASSUME NEW d \in registered' PROVE answer'[d[1]] = d[2]
    BY DEF Registered
  <2>1. CASE d \in registered
    BY <1>1, <2>1 DEF DecisionInv, Registered, TypeOK
  <2>2. CASE d = <<r, outcome>>
    BY <1>1, <2>2 DEF TypeOK
  <2> QED
    BY <2>1, <2>2
<1>3. Executed'
  <2> SUFFICES ASSUME NEW q \in Requests, answer'[q] = "allow", GoneOn(q)'
               PROVE  q \in executed
    BY DEF Executed
  <2>1. GoneOn(q)
    BY DEF GoneOn, LatestAsk
  <2>2. q # r
    BY <1>1, <2>1 DEF GoneOn
  <2> QED
    BY <1>1, <2>1, <2>2 DEF DecisionInv, Executed, TypeOK
<1> QED
  BY <1>2, <1>3 DEF DecisionInv

LEMMA DecisionStep ==
  TypeOK /\ PermissionInv /\ DecisionInv /\ [Next]_vars => DecisionInv'
<1> SUFFICES ASSUME TypeOK, PermissionInv, DecisionInv, [Next]_vars PROVE DecisionInv'
  OBVIOUS
<1> USE DEF turnVars, cancelVars, storeVars, outsideVars, stateVars, Goto
<1>1. CASE UNCHANGED <<phase, permissionVars>>
  BY <1>1 DEF DecisionInv, Registered, Executed, GoneOn, LatestAsk, permissionVars
<1>2. ASSUME NEW t \in Turns, HandlerStep(t) PROVE DecisionInv'
  <2>1. /\ UNCHANGED permissionVars
        /\ \/ UNCHANGED phase
           \/ /\ phase[t] \in {"new", "claimed", "snapshotted"}
              /\ \E p \in {"rejected", "claimed", "snapshotted", "running",
                          "dropped"} :
                   phase' = [phase EXCEPT ![t] = p]
    BY <1>2 DEF HandlerStep, SendMessage_Reject, SendMessage_Claim,
       SendMessage_Snapshot, SendMessage_Spawn, SendMessage_Drop, CancelTurn,
       CancelTurn_Publish, CancelTurn_Drop, Admission, SlotFree
  <2>2. CASE UNCHANGED phase
    BY <2>1, <2>2, <1>1
  <2>3. CASE ~UNCHANGED phase
    BY <2>1, <2>3, DecisionFrame DEF Phases, Active, Admission, Tasks
  <2> QED
    BY <2>2, <2>3
<1>3. ASSUME NEW t \in Turns, TaskStep(t) PROVE DecisionInv'
  <2>1. CASE Prompter_Insert(t)
    <3>1. /\ phase[t] = "running" /\ phase' = [phase EXCEPT ![t] = "requesting"]
          /\ asked' = [asked EXCEPT ![t] = asked[t] + 1]
          /\ UNCHANGED <<answer, executed, registered>>
      BY <2>1 DEF Prompter_Insert
    <3>2. Registered'
      BY <3>1 DEF DecisionInv, Registered
    <3>3. Executed'
      <4> SUFFICES ASSUME NEW r \in Requests, answer[r] = "allow", GoneOn(r)'
                   PROVE  r \in executed
        BY <3>1 DEF Executed
      <4>1. CASE r[1] = t
        BY <3>1, <4>1 DEF GoneOn, DecisionInv, Executed
      <4>2. CASE r[1] # t
        <5>1. GoneOn(r)
          BY <3>1, <4>2 DEF GoneOn, LatestAsk, TypeOK, Requests
        <5> QED
          BY <5>1 DEF DecisionInv, Executed
      <4> QED
        BY <4>1, <4>2
    <3> QED
      BY <3>2, <3>3 DEF DecisionInv
  <2>2. CASE Prompter_Publish(t)
    BY <2>2, DecisionFrame DEF Prompter_Publish, Phases, Active, Tasks
  <2>3. CASE Prompter_Return(t)
    <3>1. /\ phase[t] = "waiting" /\ phase' = [phase EXCEPT ![t] = "running"]
          /\ executed' = executed \cup {r \in {LatestAsk(t)} : answer[r] = "allow"}
          /\ UNCHANGED <<asked, answer, registered>>
      BY <2>3 DEF Prompter_Return, Approved
    <3>2. Registered'
      BY <3>1 DEF DecisionInv, Registered
    <3>3. Executed'
      <4> SUFFICES ASSUME NEW r \in Requests, answer[r] = "allow", GoneOn(r)'
                   PROVE  r \in executed'
        BY <3>1 DEF Executed
      <4>1. CASE r = LatestAsk(t)
        BY <3>1, <4>1
      <4>2. CASE r # LatestAsk(t)
        <5>1. GoneOn(r)
          BY <3>1, <4>2 DEF GoneOn, LatestAsk, TypeOK, Requests
        <5> QED
          BY <3>1, <5>1 DEF DecisionInv, Executed
      <4> QED
        BY <4>1, <4>2
    <3> QED
      BY <3>2, <3>3 DEF DecisionInv
  <2>4. CASE ~Prompter_Insert(t) /\ ~Prompter_Publish(t) /\ ~Prompter_Return(t)
    <3>1. /\ UNCHANGED permissionVars
          /\ phase[t] \notin {"requesting", "waiting"}
          /\ \E p \in {"stashed", "failed", "replayed", "counted", "ending",
                      "finished"} : phase' = [phase EXCEPT ![t] = p]
      BY <1>3, <2>4 DEF TaskStep, RunTurn_Stash, RunTurn_Fail, RunTurn_Replay,
         RunTurn_Count, RunTurn_Report, RunTurn_Release, Released, NewUsage,
         Extended
    <3> QED
      BY <3>1, DecisionFrame DEF Phases, Active, Tasks
  <2> QED
    BY <2>1, <2>2, <2>3, <2>4
<1>4. ASSUME NEW r \in Requests, NEW o \in Outcomes, DecidePermission(r, o)
      PROVE  DecisionInv'
  <2>1. CASE o \in {"allow", "deny"}
    BY <1>4, <2>1, DecisionGiven DEF DecidePermission, Answered, Decides
  <2>2. CASE o \notin {"allow", "deny"}
    <3>1. UNCHANGED <<phase, permissionVars>>
      BY <1>4, <2>2 DEF DecidePermission, permissionVars, Remaining, Answered, Decides
    <3> QED
      BY <1>1, <3>1
  <2> QED  BY <2>1, <2>2
<1>5. ASSUME NEW r \in Requests, NEW o \in Outcomes, NEW form \in WsFrames,
             AnswerOnSocket(r, form, o)
      PROVE  DecisionInv'
  <2>1. CASE form = "decide" /\ o \in {"allow", "deny"}
    BY <1>5, <2>1, DecisionGiven DEF AnswerOnSocket, Accepted, Answered, Decides
  <2>2. CASE ~(form = "decide" /\ o \in {"allow", "deny"})
    <3>1. UNCHANGED <<phase, permissionVars>>
      BY <1>5, <2>2 DEF AnswerOnSocket, permissionVars, Accepted, Decides
    <3> QED
      BY <1>1, <3>1
  <2> QED  BY <2>1, <2>2
<1> QED
  BY <1>1, <1>2, <1>3, <1>4, <1>5 DEF Next, vars, Compact_Read,
     Compact_Write, OpenSocket, CloseSocket, Resume, DeleteSession

(* What an HTTP client was told is registered is what its turn does, over  *)
(* other clients, the socket, cancels and deletes: a denied tool never     *)
(* runs, an approved one has run when the turn goes on.                    *)
THEOREM RegisteredDecisionsStand == Spec => []DecisionsStand
<1>1. Init => DecisionInv
  <2> SUFFICES ASSUME Init PROVE DecisionInv
    OBVIOUS
  <2>1. registered = {} /\ \A r \in Requests : answer[r] = "none"
    BY DEF Init
  <2> QED
    BY <2>1 DEF DecisionInv, Registered, Executed
<1>2. TypeOK /\ PermissionInv /\ DecisionInv => DecisionsStand
  <2> SUFFICES ASSUME TypeOK, PermissionInv, DecisionInv, NEW d \in registered
               PROVE  /\ d[2] = "deny" => d[1] \notin executed
                      /\ (d[2] = "allow" /\ GoneOn(d[1])) => d[1] \in executed
    BY DEF DecisionsStand
  <2>1. d[1] \in Requests /\ answer[d[1]] = d[2]
    BY DEF TypeOK, DecisionInv, Registered
  <2> QED
    BY <2>1 DEF PermissionInv, ToolsOnlyOnApproval, DecisionInv, Executed
<1> QED
  BY <1>1, <1>2, DecisionStep, PermissionInit, PermissionStep, TypeCorrect, PTL DEF Spec

-----------------------------------------------------------------------------
(* The conversation.  While nobody cancels and nobody imports, whatever    *)
(* will be written back - the copy of the turn at work, the copy of each   *)
(* compact call - already holds every stored turn but the missed ones.     *)

Missed == {t \in Turns : \E c \in Compactions : t \in missed[c]}
HoldsCopy == {"snapshotted", "running", "requesting", "waiting"}

KeptInv ==
  (cancel_flag = {} /\ ~imported) =>
    /\ Stashed \subseteq conversation.said \cup Missed
    /\ \A u \in Turns :
         phase[u] \in HoldsCopy => Stashed \subseteq prior[u].said \cup Missed
    /\ \A c \in Compactions :
         compaction[c] = "read" => Stashed \subseteq copy[c].said \cup Missed

\* Only a stash adds to the stored turns, and only its own.
LEMMA StashedGrows ==
  ASSUME TypeOK, [Next]_vars
  PROVE  \/ Stashed' = Stashed
         \/ \E t \in Turns : RunTurn_Stash(t) /\ Stashed' = Stashed \cup {t}
<1> USE DEF TypeOK, turnVars, cancelVars, storeVars, outsideVars, Goto,
            Publish, Stashed
<1>1. ASSUME NEW t \in Turns, HandlerStep(t) PROVE Stashed' = Stashed
  BY <1>1 DEF HandlerStep, SendMessage_Reject, SendMessage_Claim,
     SendMessage_Snapshot, SendMessage_Spawn, SendMessage_Drop, CancelTurn,
     CancelTurn_Publish, CancelTurn_Drop, Admission, SlotFree
<1>2. ASSUME NEW t \in Turns, TaskStep(t)
      PROVE  \/ Stashed' = Stashed
             \/ RunTurn_Stash(t) /\ Stashed' = Stashed \cup {t}
  <2>1. CASE RunTurn_Stash(t)
    BY <2>1 DEF RunTurn_Stash, Extended
  <2>2. CASE RunTurn_Report(t)
    BY <2>2 DEF RunTurn_Report
  <2>3. CASE ~RunTurn_Stash(t) /\ ~RunTurn_Report(t)
    BY <1>2, <2>3 DEF TaskStep, Prompter_Insert, Prompter_Publish,
       Prompter_Return, RunTurn_Fail, RunTurn_Replay, RunTurn_Count,
       RunTurn_Release, Released, NewUsage, Approved
  <2> QED  BY <2>1, <2>2, <2>3
<1>3. CASE UNCHANGED <<phase, event_history>>
  BY <1>3
<1> QED
  BY <1>1, <1>2, <1>3 DEF Next, vars, DecidePermission, AnswerOnSocket,
     Compact_Read, Compact_Write, OpenSocket, CloseSocket, Resume,
     DeleteSession, Reachable, Remaining, Answered, Decides, Accepted

\* A step that stores no turn and writes no conversation: a copy is kept, or
\* it is taken from the conversation.
LEMMA KeptFrame ==
  ASSUME TypeOK, KeptInv, cancel_flag = {}, ~imported,
         Stashed' = Stashed, UNCHANGED <<conversation, missed>>,
         \A u \in Turns : phase'[u] \in HoldsCopy =>
           \/ phase[u] \in HoldsCopy /\ prior'[u] = prior[u]
           \/ prior'[u] = conversation,
         \A c \in Compactions : compaction'[c] = "read" =>
           \/ compaction[c] = "read" /\ copy'[c] = copy[c]
           \/ copy'[c] = conversation
  PROVE  KeptInv'
BY DEF KeptInv, Missed

LEMMA KeptStep ==
  TypeOK /\ ExclusiveUnlessCancelled /\ KeptInv /\ [Next]_vars => KeptInv'
<1> SUFFICES ASSUME TypeOK, ExclusiveUnlessCancelled, KeptInv, [Next]_vars,
                    cancel_flag' = {}, ~imported'
             PROVE  KeptInv'
  BY DEF KeptInv
<1>1. cancel_flag = {} /\ ~imported
  BY FlagsGrow DEF TypeOK
<1> USE DEF turnVars, cancelVars, storeVars, outsideVars, stateVars,
            compactVars, Goto
<1>2. ASSUME NEW t \in Turns, RunTurn_Stash(t) PROVE KeptInv'
  <2> USE <1>2 DEF RunTurn_Stash, TypeOK, Extended
  <2>1. Stashed' = Stashed \cup {t}
    BY DEF Stashed
  <2>2. Stashed \subseteq prior[t].said \cup Missed
    BY <1>1 DEF KeptInv, HoldsCopy
  <2>3. conversation'.said = prior[t].said \cup {t}
    OBVIOUS
  <2>4. Missed \subseteq Missed'
    BY DEF Missed
  <2>5. \A u \in Turns : phase'[u] \notin HoldsCopy
    BY <1>1, TurnsAssumption DEF ExclusiveUnlessCancelled, ActiveTurns, Active,
       Admission, Tasks, HoldsCopy
  <2>6. ASSUME NEW c \in Compactions, compaction'[c] = "read"
        PROVE  Stashed' \subseteq copy'[c].said \cup Missed'
    <3>1. t \in Missed'
      BY <2>6 DEF Missed
    <3>2. Stashed \subseteq copy[c].said \cup Missed
      BY <1>1, <2>6 DEF KeptInv
    <3> QED
      BY <3>1, <3>2, <2>1, <2>4
  <2> QED
    BY <2>1, <2>2, <2>3, <2>4, <2>5, <2>6 DEF KeptInv
<1>3. ASSUME NEW c \in Compactions, Compact_Write(c) PROVE KeptInv'
  <2> USE <1>3 DEF Compact_Write, TypeOK
  <2>1. Stashed' = Stashed /\ Missed' = Missed
    BY DEF Stashed, Missed
  <2>2. conversation'.said = copy[c].said
    OBVIOUS
  <2> QED
    BY <2>1, <2>2, <1>1 DEF KeptInv
<1>4. CASE /\ ~\E t \in Turns : RunTurn_Stash(t)
           /\ ~\E c \in Compactions : Compact_Write(c)
  <2>1. Stashed' = Stashed
    BY <1>4, StashedGrows
  <2>2. /\ UNCHANGED <<conversation, missed>>
        /\ \A u \in Turns : phase'[u] \in HoldsCopy =>
             \/ phase[u] \in HoldsCopy /\ prior'[u] = prior[u]
             \/ prior'[u] = conversation
        /\ \A c \in Compactions : compaction'[c] = "read" =>
             \/ compaction[c] = "read" /\ copy'[c] = copy[c]
             \/ copy'[c] = conversation
    <3> USE DEF TypeOK, HoldsCopy
    <3>1. CASE \E t \in Turns : HandlerStep(t)
      BY <3>1 DEF HandlerStep, SendMessage_Reject, SendMessage_Claim,
         SendMessage_Snapshot, SendMessage_Spawn, SendMessage_Drop,
         CancelTurn, CancelTurn_Publish, CancelTurn_Drop, SlotFree
    <3>2. CASE \E t \in Turns : TaskStep(t)
      BY <3>2, <1>4 DEF TaskStep, Prompter_Insert, Prompter_Publish,
         Prompter_Return, RunTurn_Fail, RunTurn_Replay, RunTurn_Count,
         RunTurn_Report, RunTurn_Release, Released, NewUsage, Approved
    <3>3. CASE \E c \in Compactions : Compact_Read(c)
      BY <3>3 DEF Compact_Read
    <3>4. CASE UNCHANGED <<conversation, phase, prior, compactVars>>
      BY <3>4
    <3> QED
      BY <1>4, <3>1, <3>2, <3>3, <3>4 DEF Next, vars, DecidePermission,
         AnswerOnSocket, OpenSocket, CloseSocket, Resume, DeleteSession,
         Reachable, Remaining, Answered, Decides, Accepted
  <2> QED
    BY <1>1, <2>1, <2>2, KeptFrame
<1> QED
  BY <1>2, <1>3, <1>4

(* While no turn is cancelled and no client imports a conversation, a      *)
(* stored turn is lost only to a compact call that read before and wrote   *)
(* after: for any number of turns, compact calls, drops and deletes.       *)
THEOREM StoredTurnsSafe == Spec => []StoredTurnsKept
<1>1. Init => KeptInv
  BY DEF Init, KeptInv, Stashed, HoldsCopy
<1>2. TypeOK /\ KeptInv => StoredTurnsKept
  BY DEF KeptInv, StoredTurnsKept, Missed, TypeOK, Stashed
<1> QED
  BY <1>1, <1>2, KeptStep, Exclusion, TypeCorrect, PTL DEF Spec

-----------------------------------------------------------------------------
(* Failed turns.  Nothing that is, or will be, written back names a turn   *)
(* that was not stored, and a task that reported an error stored nothing.  *)

TraceInv ==
  /\ conversation.said \subseteq Stashed
  /\ \A u \in Turns : prior[u].said \subseteq Stashed
  /\ \A c \in Compactions : copy[c].said \subseteq Stashed

OneVerdict ==
  \A t \in Turns :
    /\ <<t, "TurnCompleted">> \in event_history =>
         /\ phase[t] \in {"ending", "finished"}
         /\ <<t, "TurnError">> \notin event_history
    /\ <<t, "TurnError">> \in event_history =>
         phase[t] \in {"ending", "finished"}

LEMMA TraceStep == TypeOK /\ TraceInv /\ [Next]_vars => TraceInv'
<1> SUFFICES ASSUME TypeOK, TraceInv, [Next]_vars PROVE TraceInv'
  OBVIOUS
<1>1. Stashed \subseteq Stashed'
  BY StashedGrows
<1> USE DEF TypeOK, TraceInv, turnVars, cancelVars, storeVars, outsideVars,
            stateVars, compactVars, Goto
<1>2. CASE \E t \in Turns : HandlerStep(t)
  BY <1>1, <1>2 DEF HandlerStep, SendMessage_Reject, SendMessage_Claim,
     SendMessage_Snapshot, SendMessage_Spawn, SendMessage_Drop, CancelTurn,
     CancelTurn_Publish, CancelTurn_Drop, SlotFree
<1>3. ASSUME NEW t \in Turns, TaskStep(t) PROVE TraceInv'
  <2>1. CASE RunTurn_Stash(t)
    <3>1. t \in Stashed'
      BY <2>1 DEF RunTurn_Stash, Stashed, Extended
    <3> QED
      BY <1>1, <2>1, <3>1 DEF RunTurn_Stash, Extended
  <2>2. CASE ~RunTurn_Stash(t)
    BY <1>1, <1>3, <2>2 DEF TaskStep, Prompter_Insert, Prompter_Publish,
       Prompter_Return, RunTurn_Fail, RunTurn_Replay, RunTurn_Count,
       RunTurn_Report, RunTurn_Release, Released, NewUsage, Approved
  <2> QED  BY <2>1, <2>2
<1>4. ASSUME NEW c \in Compactions, Compact_Read(c) \/ Compact_Write(c)
      PROVE  TraceInv'
  BY <1>1, <1>4 DEF Compact_Read, Compact_Write
<1>5. CASE Resume
  BY <1>1, <1>5 DEF Resume
<1>6. CASE UNCHANGED <<conversation, prior, copy>>
  BY <1>1, <1>6
<1> QED
  BY <1>2, <1>3, <1>4, <1>5, <1>6 DEF Next, vars, DecidePermission,
     AnswerOnSocket, OpenSocket, CloseSocket, DeleteSession, Reachable,
     Remaining, Answered, Decides, Accepted

LEMMA VerdictStep == TypeOK /\ OneVerdict /\ [Next]_vars => OneVerdict'
<1> SUFFICES ASSUME TypeOK, OneVerdict, [Next]_vars PROVE OneVerdict'
  OBVIOUS
<1> USE DEF turnVars, cancelVars, storeVars, outsideVars, Goto
<1>1. ASSUME \A u \in Turns : phase[u] \in {"ending", "finished"} =>
                               phase'[u] \in {"ending", "finished"},
             \A u \in Turns, k \in {"TurnCompleted", "TurnError"} :
               <<u, k>> \in event_history' => <<u, k>> \in event_history
      PROVE  OneVerdict'
  BY <1>1 DEF OneVerdict
<1>2. ASSUME NEW t \in Turns, NEW kinds, Publish(t, kinds),
             kinds \cap {"TurnCompleted", "TurnError"} = {}
      PROVE  \A u \in Turns, k \in {"TurnCompleted", "TurnError"} :
               <<u, k>> \in event_history' => <<u, k>> \in event_history
  BY <1>2 DEF Publish
<1>3. ASSUME NEW t \in Turns, HandlerStep(t) PROVE OneVerdict'
  <2>1. \A u \in Turns, k \in {"TurnCompleted", "TurnError"} :
          <<u, k>> \in event_history' => <<u, k>> \in event_history
    BY <1>2, <1>3 DEF HandlerStep, SendMessage_Reject, SendMessage_Claim,
       SendMessage_Snapshot, SendMessage_Spawn, SendMessage_Drop, CancelTurn,
       CancelTurn_Publish, CancelTurn_Drop, SlotFree
  <2>2. \A u \in Turns :
          phase[u] \in {"ending", "finished"} => phase'[u] = phase[u]
    BY <1>3 DEF HandlerStep, SendMessage_Reject, SendMessage_Claim,
       SendMessage_Snapshot, SendMessage_Spawn, SendMessage_Drop, CancelTurn,
       CancelTurn_Publish, CancelTurn_Drop, Admission, TypeOK, SlotFree
  <2> QED  BY <1>1, <2>1, <2>2
<1>4. ASSUME NEW t \in Turns, TaskStep(t) PROVE OneVerdict'
  <2>1. CASE RunTurn_Report(t)
    <3>1. phase[t] \notin {"ending", "finished"} /\ phase'[t] = "ending"
          /\ \A u \in Turns \ {t} : phase'[u] = phase[u]
      BY <2>1 DEF RunTurn_Report, TypeOK
    <3>2. <<t, "TurnCompleted">> \notin event_history
          /\ <<t, "TurnError">> \notin event_history
      BY <3>1 DEF OneVerdict
    <3>3. PICK k \in {"TurnCompleted", "TurnError"} :
            event_history' = event_history \cup ({t} \X {k})
      BY <2>1 DEF RunTurn_Report, Publish
    <3>4. \A u, j : <<u, j>> \in event_history' <=>
                      <<u, j>> \in event_history \/ (u = t /\ j = k)
      BY <3>3
    <3> QED
      BY <3>1, <3>2, <3>4 DEF OneVerdict
  <2>2. CASE ~RunTurn_Report(t)
    <3>1. \A u \in Turns, k \in {"TurnCompleted", "TurnError"} :
            <<u, k>> \in event_history' => <<u, k>> \in event_history
      BY <1>2, <1>4, <2>2 DEF TaskStep, Prompter_Insert, Prompter_Publish,
         Prompter_Return, RunTurn_Stash, RunTurn_Fail, RunTurn_Replay,
         RunTurn_Count, RunTurn_Release, Released, NewUsage, Extended, Approved
    <3>2. \A u \in Turns : phase[u] \in {"ending", "finished"} =>
                            phase'[u] \in {"ending", "finished"}
      BY <1>4, <2>2 DEF TaskStep, Prompter_Insert, Prompter_Publish,
         Prompter_Return, RunTurn_Stash, RunTurn_Fail, RunTurn_Replay,
         RunTurn_Count, RunTurn_Release, TypeOK, Released, NewUsage, Extended,
         Approved
    <3> QED  BY <1>1, <3>1, <3>2
  <2> QED  BY <2>1, <2>2
<1>5. CASE UNCHANGED <<phase, event_history>>
  BY <1>1, <1>5
<1> QED
  BY <1>3, <1>4, <1>5 DEF Next, vars, DecidePermission, AnswerOnSocket,
     Compact_Read, Compact_Write, OpenSocket, CloseSocket, Resume,
     DeleteSession, Reachable, Remaining, Answered, Decides, Accepted

(* A turn that ends in an error leaves the conversation without a trace,   *)
(* also when cancelled turns overlap and stale copies are written back.    *)
THEOREM FailuresLeaveNoTrace == Spec => []FailedTurnLeavesNoTrace
<1>1. Init => TraceInv /\ OneVerdict
  BY DEF Init, TraceInv, OneVerdict, EmptyConversation
<1>2. TypeOK /\ TraceInv /\ OneVerdict => FailedTurnLeavesNoTrace
  BY DEF TypeOK, TraceInv, OneVerdict, FailedTurnLeavesNoTrace, Stashed
<1> QED
  BY <1>1, <1>2, TraceStep, VerdictStep, TypeCorrect, PTL DEF Spec

-----------------------------------------------------------------------------
(* Overlap.  A cancel is counted once, because a turn that left the slot   *)
(* never comes back to it.                                                 *)

SlotNotCancelled ==
  /\ \A t \in cancel_flag : phase[t] # "new"
  /\ current_turn # NoTurn => phase[current_turn] # "new"
  /\ current_turn \notin cancel_flag

LEMMA SlotStep == TypeOK /\ SlotNotCancelled /\ [Next]_vars => SlotNotCancelled'
<1> SUFFICES ASSUME TypeOK, SlotNotCancelled,
[Next]_vars PROVE SlotNotCancelled'
  OBVIOUS
<1> USE TurnsAssumption DEF TypeOK, SlotNotCancelled, turnVars, cancelVars,
                            storeVars, outsideVars, Goto
<1>1. ASSUME NEW t \in Turns, HandlerStep(t) PROVE SlotNotCancelled'
  <2>1. CASE SendMessage_Claim(t)
    BY <2>1 DEF SendMessage_Claim, SlotFree
  <2>2. CASE CancelTurn(t)
    BY <2>2 DEF CancelTurn
  <2>3. CASE ~SendMessage_Claim(t) /\ ~CancelTurn(t)
    BY <1>1, <2>3 DEF HandlerStep, SendMessage_Reject, SendMessage_Snapshot,
       SendMessage_Spawn, SendMessage_Drop, CancelTurn_Publish,
       CancelTurn_Drop, Admission
  <2> QED  BY <2>1, <2>2, <2>3
<1>2. ASSUME NEW t \in Turns, TaskStep(t) PROVE SlotNotCancelled'
  BY <1>2 DEF TaskStep, Prompter_Insert, Prompter_Publish, Prompter_Return,
     RunTurn_Stash, RunTurn_Fail, RunTurn_Replay, RunTurn_Count,
     RunTurn_Report, RunTurn_Release, Released, NewUsage, Extended, Approved
<1>3. CASE UNCHANGED <<phase, current_turn, cancel_flag>>
  BY <1>3
<1> QED
  BY <1>1, <1>2, <1>3 DEF Next, vars, DecidePermission, AnswerOnSocket,
     Compact_Read, Compact_Write, OpenSocket, CloseSocket, Resume,
     DeleteSession, Reachable, Remaining, Answered, Decides, Accepted

LEMMA OverlapStep ==
  TypeOK /\ SlotNotCancelled /\ OverlapBound /\ [Next]_vars => OverlapBound'
<1> SUFFICES ASSUME TypeOK, SlotNotCancelled, OverlapBound, [Next]_vars
             PROVE  OverlapBound'
  OBVIOUS
<1> USE DEF TypeOK, turnVars, cancelVars, storeVars, outsideVars, Goto
<1>1. /\ IsFiniteSet(ActiveTurns) /\ IsFiniteSet(Orphans)
      /\ IsFiniteSet(cancel_flag)
  BY TurnsAssumption, FS_Subset DEF ActiveTurns, Orphans
<1>2. /\ Cardinality(ActiveTurns) \in Nat /\ Cardinality(Orphans) \in Nat
      /\ Cardinality(cancel_flag) \in Nat
  BY <1>1, FS_CardinalityType
<1>3. ASSUME Orphans' \subseteq Orphans, cancel_flag' = cancel_flag
      PROVE  OverlapBound'
  <2>1. Cardinality(Orphans') <= Cardinality(Orphans) /\ Cardinality(Orphans') \in Nat
    BY <1>1, <1>3, FS_Subset, FS_CardinalityType
  <2> QED
    BY <1>2, <1>3, <2>1 DEF OverlapBound
<1>4. ASSUME NEW t \in Turns, HandlerStep(t) PROVE OverlapBound'
  <2>1. CASE CancelTurn(t)
    <3>1. Orphans' = Orphans \cup (ActiveTurns \cap {t})
      BY <2>1, TurnsAssumption DEF CancelTurn, Orphans, ActiveTurns
    <3>2. Orphans' \subseteq Orphans \cup {t}
      BY <3>1
    <3>3. /\ IsFiniteSet(Orphans \cup {t})
          /\ Cardinality(Orphans \cup {t}) \in Nat
          /\ Cardinality(Orphans \cup {t}) <= Cardinality(Orphans) + 1
      <4>1. IsFiniteSet(Orphans \cup {t})
        BY <1>1, FS_AddElement
      <4>2. Cardinality(Orphans \cup {t})
              = IF t \in Orphans THEN Cardinality(Orphans) ELSE Cardinality(Orphans) + 1
        BY <1>1, FS_AddElement, Zenon
      <4> QED
        BY <1>2, <4>1, <4>2
    <3>4. /\ Cardinality(Orphans') \in Nat
          /\ Cardinality(Orphans') <= Cardinality(Orphans \cup {t})
      BY <3>2, <3>3, FS_Subset, FS_CardinalityType
    <3>5. t \notin cancel_flag
      BY <2>1 DEF CancelTurn, SlotNotCancelled
    <3>6. Cardinality(cancel_flag') = Cardinality(cancel_flag) + 1
      BY <1>1, <2>1, <3>5, FS_AddElement DEF CancelTurn
    <3> QED
      BY <1>2, <3>3, <3>4, <3>6 DEF OverlapBound
  <2>2. CASE ~CancelTurn(t)
    <3>1. cancel_flag' = cancel_flag
      BY <1>4, <2>2 DEF HandlerStep, SendMessage_Reject, SendMessage_Claim,
         SendMessage_Snapshot, SendMessage_Spawn, SendMessage_Drop,
         CancelTurn_Publish, CancelTurn_Drop, SlotFree
    <3>2. Orphans' \subseteq Orphans
      BY <1>4, <2>2, TurnsAssumption DEF HandlerStep, SendMessage_Reject,
         SendMessage_Claim, SendMessage_Snapshot, SendMessage_Spawn,
         SendMessage_Drop, CancelTurn_Publish, CancelTurn_Drop, Orphans,
         ActiveTurns, Active, Admission, Tasks, SlotFree
    <3> QED
      BY <1>3, <3>1, <3>2
  <2> QED  BY <2>1, <2>2
<1>5. ASSUME NEW t \in Turns, TaskStep(t) PROVE OverlapBound'
  <2>1. cancel_flag' = cancel_flag
    BY <1>5 DEF TaskStep, Prompter_Insert, Prompter_Publish, Prompter_Return,
       RunTurn_Stash, RunTurn_Fail, RunTurn_Replay, RunTurn_Count,
       RunTurn_Report, RunTurn_Release, Released, NewUsage, Extended, Approved
  <2>2. CASE RunTurn_Release(t)
    <3>1. /\ t \in ActiveTurns
          /\ ActiveTurns' = ActiveTurns \ {t}
          /\ Orphans' = ActiveTurns \ {t}
      BY <2>2, TurnsAssumption DEF RunTurn_Release, Orphans, ActiveTurns,
         Active, Admission, Tasks, Released
    <3>2. CASE current_turn \in ActiveTurns
      <4>1. Cardinality(Orphans') = Cardinality(ActiveTurns) - 1
        BY <1>1, <3>1, FS_RemoveElement
      <4>2. Cardinality(Orphans) = Cardinality(ActiveTurns) - 1
        BY <1>1, <3>2, FS_RemoveElement DEF Orphans
      <4> QED
        BY <2>1, <4>1, <4>2 DEF OverlapBound
    <3>3. CASE current_turn \notin ActiveTurns
      BY <1>3, <2>1, <3>1, <3>3 DEF Orphans
    <3> QED  BY <3>2, <3>3
  <2>3. CASE ~RunTurn_Release(t)
    <3>1. Orphans' \subseteq Orphans
      BY <1>5, <2>3 DEF TaskStep, Prompter_Insert, Prompter_Publish,
         Prompter_Return, RunTurn_Stash, RunTurn_Fail, RunTurn_Replay,
         RunTurn_Count, RunTurn_Report, Orphans, ActiveTurns, Active,
         Admission, Tasks, NewUsage, Extended, Approved
    <3> QED
      BY <1>3, <2>1, <3>1
  <2> QED  BY <2>2, <2>3
<1>6. CASE UNCHANGED <<phase, current_turn, cancel_flag>>
  BY <1>3, <1>6 DEF Orphans, ActiveTurns
<1> QED
  BY <1>4, <1>5, <1>6 DEF Next, vars, DecidePermission, AnswerOnSocket,
     Compact_Read, Compact_Write, OpenSocket, CloseSocket, Resume,
     DeleteSession, Reachable, Remaining, Answered, Decides, Accepted

(* However cancels, task ends and new messages interleave, the turns at    *)
(* work outside the slot never outnumber the cancels accepted.             *)
THEOREM OverlapIsBounded == Spec => []OverlapBound
<1>1. Init => SlotNotCancelled /\ OverlapBound
  <2> SUFFICES ASSUME Init PROVE SlotNotCancelled /\ OverlapBound
    OBVIOUS
  <2>1. Orphans = {} /\ cancel_flag = {}
    BY DEF Init, Orphans, ActiveTurns, Active, Admission, Tasks
  <2> QED
    BY <2>1, FS_EmptySet DEF Init, SlotNotCancelled, OverlapBound
<1> QED
  BY <1>1, SlotStep, OverlapStep, TypeCorrect, PTL DEF Spec

-----------------------------------------------------------------------------
(* The handle in the slot, and the session's usage.                        *)

LEMMA HandleStep == TypeOK /\ HandleOwned /\ [Next]_vars => HandleOwned'
<1> SUFFICES ASSUME TypeOK, HandleOwned, [Next]_vars PROVE HandleOwned'
  OBVIOUS
<1> USE DEF TypeOK, HandleOwned, turnVars, cancelVars, storeVars, outsideVars,
            Goto, Active, Admission, Tasks
<1>1. CASE \E t \in Turns : HandlerStep(t)
  BY <1>1, TurnsAssumption DEF HandlerStep, SendMessage_Reject,
     SendMessage_Claim, SendMessage_Snapshot, SendMessage_Spawn,
     SendMessage_Drop, CancelTurn, CancelTurn_Publish, CancelTurn_Drop, SlotFree
<1>2. CASE \E t \in Turns : TaskStep(t)
  BY <1>2 DEF TaskStep, Prompter_Insert, Prompter_Publish, Prompter_Return,
     RunTurn_Stash, RunTurn_Fail, RunTurn_Replay, RunTurn_Count,
     RunTurn_Report, RunTurn_Release, Released, NewUsage, Extended, Approved
<1>3. CASE UNCHANGED <<phase, current_turn>>
  BY <1>3
<1> QED
  BY <1>1, <1>2, <1>3 DEF Next, vars, DecidePermission, AnswerOnSocket,
     Compact_Read, Compact_Write, OpenSocket, CloseSocket, Resume,
     DeleteSession, Reachable, Remaining, Answered, Decides, Accepted

(* A handle in the slot is that of a turn at work, or of one whose client  *)
(* hung up before its task was spawned: nothing else can block a session.  *)
THEOREM HandlesAreOwned == Spec => []HandleOwned
<1>1. Init => HandleOwned
  BY DEF Init, HandleOwned
<1> QED
  BY <1>1, HandleStep, TypeCorrect, PTL DEF Spec

LEMMA CountedGrows ==
  ASSUME TypeOK, OneVerdict, [Next]_vars
  PROVE  \/ Counted' = Counted /\ usage' = usage
         \/ \E t \in Turns \ Counted :
              RunTurn_Count(t) /\ Counted' = Counted \cup {t}
<1> USE DEF TypeOK, turnVars, cancelVars, storeVars, outsideVars, stateVars,
            Goto, Publish, Counted
<1>1. ASSUME NEW t \in Turns, HandlerStep(t)
      PROVE  Counted' = Counted /\ usage' = usage
  BY <1>1 DEF HandlerStep, SendMessage_Reject, SendMessage_Claim,
     SendMessage_Snapshot, SendMessage_Spawn, SendMessage_Drop, CancelTurn,
     CancelTurn_Publish, CancelTurn_Drop, Admission, SlotFree
<1>2. ASSUME NEW t \in Turns, TaskStep(t)
      PROVE  \/ Counted' = Counted /\ usage' = usage
             \/ t \notin Counted /\ RunTurn_Count(t) /\ Counted' = Counted \cup {t}
  <2>1. CASE RunTurn_Count(t)
    BY <2>1 DEF RunTurn_Count, OneVerdict, NewUsage
  <2>2. CASE RunTurn_Report(t)
    BY <2>2 DEF RunTurn_Report
  <2>3. CASE ~RunTurn_Count(t) /\ ~RunTurn_Report(t)
    BY <1>2, <2>3 DEF TaskStep, Prompter_Insert, Prompter_Publish,
       Prompter_Return, RunTurn_Stash, RunTurn_Fail, RunTurn_Replay,
       RunTurn_Release, Released, Extended, Approved
  <2> QED  BY <2>1, <2>2, <2>3
<1>3. CASE UNCHANGED <<phase, event_history, usage>>
  BY <1>3
<1> QED
  BY <1>1, <1>2, <1>3 DEF Next, vars, DecidePermission, AnswerOnSocket,
     Compact_Read, Compact_Write, OpenSocket, CloseSocket, Resume,
     DeleteSession, Reachable, Remaining, Answered, Decides, Accepted

LEMMA UsageStep ==
  TypeOK /\ OneVerdict /\ UsageCoversTurns /\ [Next]_vars => UsageCoversTurns'
<1> SUFFICES ASSUME TypeOK, OneVerdict, UsageCoversTurns, [Next]_vars
             PROVE  UsageCoversTurns'
  OBVIOUS
<1>1. Counted \subseteq Turns
  BY DEF Counted
<1>2. IsFiniteSet(Counted) /\ Cardinality(Counted) \in Nat /\ usage \in Nat
  BY <1>1, TurnsAssumption, FS_Subset, FS_CardinalityType DEF TypeOK
<1>3. CASE Counted' = Counted /\ usage' = usage
  BY <1>3 DEF UsageCoversTurns
<1>4. ASSUME NEW t \in Turns \ Counted, RunTurn_Count(t),
             Counted' = Counted \cup {t}
      PROVE  UsageCoversTurns'
  <2>1. Cardinality(Counted') = Cardinality(Counted) + 1
    BY <1>2, <1>4, FS_AddElement
  <2>2. usage' = usage + Cardinality(prior[t].kept) + 1
    BY <1>4 DEF RunTurn_Count, NewUsage
  <2>3. Cardinality(prior[t].kept) \in Nat
    BY CopyIsFinite
  <2>4. Cardinality(Counted) <= usage
    BY <1>2 DEF UsageCoversTurns
  <2>5. Cardinality(Counted') <= usage'
    BY <1>2, <2>1, <2>2, <2>3, <2>4
  <2> QED
    BY <1>2, <2>1, <2>2, <2>3, <2>5 DEF UsageCoversTurns
<1> QED
  BY <1>3, <1>4, CountedGrows

(* The usage of a session never falls behind the turns it has completed.   *)
THEOREM UsageCovers == Spec => []UsageCoversTurns
<1>1. Init => UsageCoversTurns /\ OneVerdict
  <2> SUFFICES ASSUME Init PROVE UsageCoversTurns /\ OneVerdict
    OBVIOUS
  <2>1. Counted = {}
    BY DEF Init, Counted
  <2>2. Cardinality(Counted) = 0
    BY <2>1, FS_EmptySet
  <2> QED
    BY <2>2 DEF Init, UsageCoversTurns, OneVerdict
<1> QED
  BY <1>1, UsageStep, VerdictStep, TypeCorrect, PTL DEF Spec

-----------------------------------------------------------------------------
(***************************************************************************)
(* Refinement.  A turn that holds a copy is the one in the slot, and while *)
(* it works nobody else writes: its copy still is the conversation, so     *)
(* writing the copy back adds the turn and loses nothing.                  *)
(***************************************************************************)

SerialInv ==
  /\ cancel_flag = {} /\ ~imported
  /\ \A t \in Turns : phase[t] \in HoldsCopy => prior[t].said = conversation.said

LEMMA SerialStep ==
  ASSUME Cancellable = {}, Compactions = {}, ~Importing,
         TypeOK, ExclusiveUnlessCancelled, TraceInv, OneVerdict, SerialInv,
         [Next]_vars
  PROVE  SerialInv' /\ [Serial!Next]_<<current_turn, conversation.said>>
<1> USE DEF SerialInv, turnVars, cancelVars, storeVars, outsideVars, stateVars,
            compactVars, Goto, TypeOK
<1>0. \A t \in ActiveTurns : current_turn = t
  BY DEF ExclusiveUnlessCancelled
<1>1. CASE UNCHANGED <<current_turn, cancel_flag, phase, prior, conversation,
imported>>
  BY <1>1
<1>2. ASSUME NEW t \in Turns, HandlerStep(t)
      PROVE  SerialInv' /\ [Serial!Next]_<<current_turn, conversation.said>>
  <2> USE DEF HoldsCopy
  <2>1. SerialInv'
    <3>1. cancel_flag' = {} /\ ~imported' /\ conversation' = conversation
      BY <1>2 DEF HandlerStep, SendMessage_Reject, SendMessage_Claim,
         SendMessage_Snapshot, SendMessage_Spawn, SendMessage_Drop, CancelTurn,
         CancelTurn_Publish, CancelTurn_Drop
    <3>2. CASE SendMessage_Snapshot(t)
      BY <3>1, <3>2 DEF SendMessage_Snapshot
    <3>3. CASE ~SendMessage_Snapshot(t)
      <4>1. prior' = prior /\ \A u \in Turns : phase'[u] \in HoldsCopy => phase[u] \in HoldsCopy
        BY <1>2, <3>3 DEF HandlerStep, SendMessage_Reject, SendMessage_Claim,
           SendMessage_Spawn, SendMessage_Drop, CancelTurn, CancelTurn_Publish,
           CancelTurn_Drop
      <4> QED
        BY <3>1, <4>1
    <3> QED  BY <3>2, <3>3
  <2>2. CASE SendMessage_Claim(t)
    BY <2>1, <2>2 DEF SendMessage_Claim, Serial!Next, Serial!Begin, SlotFree
  <2>3. CASE ~SendMessage_Claim(t)
    BY <1>2, <2>1, <2>3 DEF HandlerStep, SendMessage_Reject,
       SendMessage_Snapshot, SendMessage_Spawn, SendMessage_Drop, CancelTurn,
       CancelTurn_Publish, CancelTurn_Drop
  <2> QED  BY <2>2, <2>3
<1>3. ASSUME NEW t \in Turns, RunTurn_Stash(t)
      PROVE  SerialInv' /\ [Serial!Next]_<<current_turn, conversation.said>>
  <2> USE <1>3 DEF RunTurn_Stash, Extended
  <2>1. current_turn = t
    BY <1>0 DEF ActiveTurns, Active, Tasks
  <2>2. \A u \in Turns : phase'[u] \notin HoldsCopy
    BY <1>0, <2>1 DEF ActiveTurns, Active, Tasks, Admission, HoldsCopy
  <2>3. conversation'.said = conversation.said \cup {t}
    BY DEF HoldsCopy
  <2>4. t \notin conversation.said
    <3>1. t \notin Stashed
      BY DEF Stashed, OneVerdict
    <3> QED
      BY <3>1 DEF TraceInv
  <2> QED
    BY <2>1, <2>2, <2>3, <2>4 DEF Serial!Next, Serial!Store
<1>4. ASSUME NEW t \in Turns, RunTurn_Release(t)
      PROVE  SerialInv' /\ [Serial!Next]_<<current_turn, conversation.said>>
  <2>1. current_turn = t
    BY <1>0, <1>4 DEF RunTurn_Release, ActiveTurns, Active, Tasks, Released
  <2> QED
    BY <1>4, <2>1 DEF RunTurn_Release, Serial!Next, Serial!End, HoldsCopy,
                      Released
<1>5. ASSUME NEW t \in Turns, TaskStep(t), ~RunTurn_Stash(t),
~RunTurn_Release(t)
      PROVE  SerialInv' /\ UNCHANGED <<current_turn, conversation>>
  <2>1. UNCHANGED <<current_turn, conversation, cancel_flag, prior, imported>>
    BY <1>5 DEF TaskStep, Prompter_Insert, Prompter_Publish, Prompter_Return,
       RunTurn_Fail, RunTurn_Replay, RunTurn_Count, RunTurn_Report
  <2>2. \A u \in Turns : phase'[u] \in HoldsCopy => phase[u] \in HoldsCopy
    BY <1>5 DEF TaskStep, Prompter_Insert, Prompter_Publish, Prompter_Return,
       RunTurn_Fail, RunTurn_Replay, RunTurn_Count, RunTurn_Report, HoldsCopy
  <2> QED
    BY <2>1, <2>2
<1>6. ~Resume
  BY DEF Resume
<1> QED
  BY <1>1, <1>2, <1>3, <1>4, <1>5, <1>6 DEF Next, vars, DecidePermission,
     AnswerOnSocket, OpenSocket, CloseSocket, DeleteSession, Reachable,
     Remaining, Answered, Decides, Accepted

(* Without cancels, compact calls and imports a session runs its turns one *)
(* at a time and its conversation only grows, for any number of turns and  *)
(* requests, whatever fails and whoever hangs up.                          *)
THEOREM SerialImplemented ==
  ASSUME Cancellable = {}, Compactions = {}, ~Importing
  PROVE  Spec => ImplementsSerial
<1>1. Init => SerialInv /\ TraceInv /\ OneVerdict /\ Serial!Init
  BY DEF Init, SerialInv, TraceInv, OneVerdict, EmptyConversation, HoldsCopy,
     Serial!Init
<1>2. /\ TypeOK /\ ExclusiveUnlessCancelled /\ TraceInv /\ OneVerdict
      /\ SerialInv /\ [Next]_vars
      => SerialInv' /\ [Serial!Next]_<<current_turn, conversation.said>>
  BY SerialStep
<1> QED
  BY <1>1, <1>2, TraceStep, VerdictStep, Exclusion, TypeCorrect, PTL
  DEF Spec, ImplementsSerial, Serial!Spec

=============================================================================
