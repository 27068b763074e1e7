------------------------------ MODULE SwdFiles ------------------------------
(***************************************************************************)
(* Strict Write Discipline (elai-cli/src/swd.rs and its callers in         *)
(* main.rs): files are snapshotted, written, verified, and put back when a *)
(* step fails.                                                             *)
(*                                                                         *)
(* A tool call in partial mode handles one file (execute_with_swd), which  *)
(* is found by the input's `path`: NotebookEdit is one of the write tools  *)
(* and has none, so its notebook is neither snapshotted nor put back.  A   *)
(* batch in full mode handles several (execute_file_actions).  Every step  *)
(* on a file may fail, a write that fails may have truncated the file, a   *)
(* file may exist and not be readable, and another program may write a     *)
(* file between two steps.  A hash is the content it is the hash of.       *)
(***************************************************************************)
EXTENDS Naturals, Sequences

CONSTANTS Paths,         \* the files there may be
          Contents,      \* what the model writes and other programs write
          InitialFiles,  \* [Paths -> Contents \cup {Absent}]
          MaxActions     \* actions of one batch

Absent == "absent"     \* no such file
Torn == "torn"         \* what a failed write leaves behind
None == "none"         \* no hash declared, no content given

Content == Contents \cup {Absent, Torn}
Action ==
  [op : {"write"}, path : Paths, content : Contents \cup {None}, declared : Contents \cup {None}]
    \cup [op : {"delete"}, path : Paths, content : {None}, declared : {None}]
Batches == UNION {[1..n -> Action] : n \in 1..MaxActions}

VARIABLES files,       \* the content of every path
          unreadable,  \* paths whose file exists and cannot be read
          phase,       \* where the handler is
          mode,        \* "tool", "notebook" or "batch"
          batch,       \* the actions; for a tool call, one
          snaps,       \* what the snapshots said, one per action
          step,        \* actions executed and not rolled back
          failed_at,   \* index of the action that failed, or 0
          outcomes,    \* the transactions reported, one per action
          disturbed    \* history: paths another program wrote, or whose rollback failed

vars == <<files, unreadable, phase, mode, batch, snaps, step, failed_at, outcomes, disturbed>>

Init ==
  /\ files = InitialFiles
  /\ unreadable \in {{}} \cup {{p} : p \in {q \in Paths : InitialFiles[q] # Absent}}
  /\ phase = "idle"
  /\ mode = "tool"
  /\ batch = <<>>
  /\ snaps = <<>>
  /\ step = 0
  /\ failed_at = 0
  /\ outcomes = <<>>
  /\ disturbed = {}

-----------------------------------------------------------------------------

\* snapshot: a file that cannot be read looks like one that is not there.
Snapshot(p) == IF p \in unreadable THEN Absent ELSE files[p]

\* An input without a `path` is taken for a file that is not there.
SnapshotFor(m, p) == IF m = "notebook" THEN Absent ELSE Snapshot(p)

\* verify_outcome, of two snapshots of an action that succeeded
VerifyOutcome(was, now) == IF was = now THEN "Noop" ELSE "Verified"

\* Fault: an error of a write or delete is not returned.
Fault_ErrorIgnored(a) ==
  CASE a.op = "delete" -> {[ok |-> TRUE, now |-> Absent]}
    [] a.op = "write" /\ a.content = None -> {[ok |-> FALSE, now |-> files[a.path]]}
    [] OTHER -> {[ok |-> TRUE, now |-> a.content], [ok |-> TRUE, now |-> Torn]}

\* execute_file_action_inner and the write tools: whether an action succeeds
\* and what it leaves.  A delete that fails leaves the file, and a notebook is
\* read before it is written.
NothingToWrite(a) ==
  \/ a.content = None
  \/ mode = "notebook" /\ Snapshot(a.path) \notin Contents

Effects(a) ==
  LET untouched == [ok |-> FALSE, now |-> files[a.path]]
  IN CASE a.op = "delete" -> {[ok |-> TRUE, now |-> Absent]}
                                \cup (IF files[a.path] = Absent THEN {} ELSE {untouched})
       [] a.op = "write" /\ NothingToWrite(a) -> {untouched}
       [] OTHER -> {[ok |-> TRUE, now |-> a.content], [ok |-> FALSE, now |-> Torn], untouched}

Put(p, content) ==
  /\ files' = [files EXCEPT ![p] = content]
  /\ unreadable' = IF content = Absent THEN unreadable \ {p} ELSE unreadable

\* Phase 1 of execute_file_actions, and the beginning of execute_with_swd:
\* snapshot all before.
Start(m, b) ==
  /\ phase = "idle"
  /\ phase' = "executing"
  /\ mode' = m
  /\ batch' = b
  /\ snaps' = [i \in DOMAIN b |-> SnapshotFor(m, b[i].path)]
  /\ UNCHANGED <<files, unreadable, step, failed_at, outcomes, disturbed>>

StartBatch == \E b \in Batches : Start("batch", b)
StartTool ==
  \E a \in Action, m \in {"tool", "notebook"} :
    a.op = "write" /\ a.declared = None /\ Start(m, <<a>>)

\* Fault: a tool call that failed is not itself rolled back.
Fault_FailedActionKept(i) == i - 1

\* Phase 2: one action after the other, up to the first that fails.  A tool
\* call with a path rolls its own action back, one without nothing, and the
\* batch those before the one that failed.
RollbackFrom(i) == IF mode = "tool" THEN i ELSE i - 1

Execute ==
  /\ phase = "executing"
  /\ step < Len(batch)
  /\ \E e \in Effects(batch[step + 1]) :
       /\ Put(batch[step + 1].path, e.now)
       /\ IF e.ok THEN step' = step + 1 /\ UNCHANGED <<phase, failed_at>>
          ELSE /\ failed_at' = step + 1
               /\ step' = RollbackFrom(step + 1)
               /\ phase' = "rolling_back"
  /\ UNCHANGED <<mode, batch, snaps, outcomes, disturbed>>

\* rollback, in reverse: without a before-state the file is deleted.  An error
\* is ignored, and a write that failed may have truncated the file.
RollBack ==
  /\ phase = "rolling_back"
  /\ step > 0
  /\ step' = step - 1
  /\ LET p == batch[step].path
     IN \/ Put(p, snaps[step]) /\ UNCHANGED disturbed
        \/ /\ disturbed' = disturbed \cup {p}
           /\ files' \in {files} \cup {[files EXCEPT ![p] = Torn] : c \in {snaps[step]} \ {Absent}}
           /\ UNCHANGED unreadable
  /\ UNCHANGED <<phase, mode, batch, snaps, failed_at, outcomes>>

ReportFailure ==
  /\ phase = "rolling_back"
  /\ step = 0
  /\ phase' = "done"
  /\ outcomes' = [i \in DOMAIN batch |-> IF i = failed_at THEN "Failed" ELSE "RolledBack"]
  /\ UNCHANGED <<files, unreadable, mode, batch, snaps, step, failed_at, disturbed>>

\* Phase 3: verify all after, against the declared hash where there is one.
OutcomeOf(i) ==
  LET now == SnapshotFor(mode, batch[i].path)
  IN IF batch[i].declared \notin {None, now} THEN "Drift" ELSE VerifyOutcome(snaps[i], now)

Verify ==
  /\ phase = "executing"
  /\ step = Len(batch)
  /\ phase' = "done"
  /\ outcomes' = [i \in DOMAIN batch |-> OutcomeOf(i)]
  /\ UNCHANGED <<files, unreadable, mode, batch, snaps, step, failed_at, disturbed>>

\* Another program writes a file while the handler is at work, once.
WriteElsewhere(p) ==
  /\ phase \in {"executing", "rolling_back"}
  /\ disturbed = {}
  /\ disturbed' = {p}
  /\ \E c \in Contents : files' = [files EXCEPT ![p] = c]
  /\ UNCHANGED <<unreadable, phase, mode, batch, snaps, step, failed_at, outcomes>>

Next ==
  \/ StartTool \/ StartBatch
  \/ Execute \/ RollBack \/ ReportFailure \/ Verify
  \/ \E p \in Paths : WriteElsewhere(p)

Spec == Init /\ [][Next]_vars

-----------------------------------------------------------------------------
(* Properties.                                                             *)

TypeOK ==
  /\ files \in [Paths -> Content]
  /\ unreadable \in SUBSET Paths
  /\ phase \in {"idle", "executing", "rolling_back", "done"}
  /\ mode \in {"tool", "notebook", "batch"}
  /\ \A i \in DOMAIN batch : batch[i] \in Action
  /\ step \in 0..Len(batch)
  /\ failed_at \in 0..Len(batch)
  /\ disturbed \in SUBSET Paths

\* Paths that were looked at and not seen: there was a file, and the snapshot
\* says that there was none.
Unseen ==
  {batch[i].path : i \in {j \in DOMAIN batch : /\ mode # "notebook"
                                              /\ snaps[j] = Absent
                                              /\ InitialFiles[batch[j].path] # Absent}}

\* The file whose write failed half-way when nothing puts it back: a notebook,
\* and in a batch one that no earlier action had written.
LeftTorn(p) ==
  /\ p = batch[failed_at].path
  /\ mode = "batch" => \A i \in 1..(failed_at - 1) : batch[i].path # p
  /\ mode # "tool"

\* A handler that failed leaves every file as it found it, whatever order the
\* actions of several on one file came in, unless another program wrote the
\* file or its rollback failed.  The exceptions are what the code does and
\* nothing else: a file it could not read may be gone, and the file whose
\* write failed half-way stays torn in a batch that had not written it before,
\* and always when it is a notebook, whose input has no `path`.
FailureLeavesNothing ==
  phase = "done" /\ failed_at # 0 =>
    \A p \in Paths \ disturbed :
      \/ files[p] = InitialFiles[p]
      \/ p \in Unseen /\ files[p] = Absent
      \/ LeftTorn(p) /\ files[p] = Torn

\* The file an action is said to have changed holds what the last action on it
\* was to leave: a report of several actions on one file, each compared with
\* the snapshot taken before the first, does not praise a file that is wrong.
VerifiedIsLast ==
  phase = "done" =>
    \A i \in DOMAIN batch :
      LET p == batch[i].path
          same == {j \in DOMAIN batch : batch[j].path = p}
          last == CHOOSE j \in same : \A k \in same : k <= j
      IN outcomes[i] = "Verified" /\ p \notin disturbed \cup Unseen
           => /\ files[p] # InitialFiles[p]
              /\ files[p] = IF batch[last].op = "delete" THEN Absent ELSE batch[last].content
=============================================================================
