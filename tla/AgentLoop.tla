------------------------------ MODULE AgentLoop ------------------------------
(***************************************************************************)
(* One ConversationRuntime over many turns: the loop of run_turn, which    *)
(* repairs the history, sends it, stores the answer and the result of      *)
(* every tool call, and the compaction it falls back on when the provider  *)
(* refuses a request as too long.                                          *)
(*                                                                         *)
(* A message is its role, the tool calls it makes and the tool calls it    *)
(* answers; texts are left out.  The provider and the tools are the        *)
(* environment: a request may be answered, answered with nothing, refused  *)
(* as too long or fail.                                                    *)
(***************************************************************************)
EXTENDS Integers, SequencesExt

CONSTANTS
  Calls,          \* bound: the ids of the tool calls a history can hold
  MaxIterations,  \* max_iterations of a runtime that is given one
  MaxMessages     \* bound: answers and inputs stop when a history is this long

ASSUME LoopAssumption ==
  /\ Calls \subseteq Nat
  /\ MaxIterations \in Nat \ {0}
  /\ MaxMessages \in Nat

VARIABLES
  messages,    \* session.messages
  limited,     \* the runtime was built with with_max_iterations
  failures,    \* consecutive_compact_failures
  phase,       \* idle, at the top of the loop, awaiting an answer, in the tools
  iterations,  \* of the running turn
  ptl_retries, \* refusals of the running turn
  pending,     \* calls of the last answer that have no result yet
  spoken,      \* the turn has an assistant message in its summary
  outcome      \* how the last turn ended

turnVars == <<iterations, ptl_retries, spoken>>
vars == <<messages, limited, failures, phase, turnVars, pending, outcome>>

-----------------------------------------------------------------------------
(* Messages and the summary a compaction leaves at the front.              *)

Message == [role : {"system", "user", "assistant", "tool"},
            uses : SUBSET Calls, results : SUBSET Calls]

Said(role)  == [role |-> role, uses |-> {}, results |-> {}]
Asking(ids) == [Said("assistant") EXCEPT !.uses = ids]
Giving(ids) == [Said("tool") EXCEPT !.results = ids]
Summary     == Said("system")

Uses(s)    == UNION {s[i].uses : i \in DOMAIN s}
Results(s) == UNION {s[i].results : i \in DOMAIN s}

HasSummary(s) == s # <<>> /\ Head(s).role = "system"
Recent(s)     == IF HasSummary(s) THEN Tail(s) ELSE s

-----------------------------------------------------------------------------
(* validate_and_repair: three passes over the history before it is sent.   *)

\* Results whose call is gone are removed, and messages they leave empty.
WithoutOrphans(s) ==
  LET known(i) == s[i].results \cap Uses(s)
  IN  FlattenSeq([i \in DOMAIN s |->
                    IF s[i].role = "tool" /\ known(i) = {} THEN <<>>
                    ELSE <<[s[i] EXCEPT !.results = known(i)]>>])

\* The messages after the i-th, up to the next answer.
Following(s, i) ==
  {j \in (i + 1)..Len(s) : \A k \in (i + 1)..j : s[k].role # "assistant"}

Covered(s, i) == UNION {s[j].results : j \in Following(s, i)}

Missing(s, i) == s[i].uses \ Covered(s, i)

\* A call that has no result gets a synthetic one.
WithMissing(s) ==
  FlattenSeq([i \in DOMAIN s |->
                IF s[i].role = "assistant" /\ Missing(s, i) # {}
                THEN <<s[i], Giving(Missing(s, i))>> ELSE <<s[i]>>])

\* Fault: the front of the history is left as a compaction made it.
Fault_AnyOpener(s) == s

\* Leading results are dropped; a history must then open with the user.
OpenedByUser(s) ==
  LET rest   == Recent(s)
      opens  == {i \in DOMAIN rest : rest[i].role # "tool"}
      kept   == IF opens = {} THEN <<>> ELSE SubSeq(rest, Min(opens), Len(rest))
      opener == IF kept # <<>> /\ Head(kept).role = "assistant"
                THEN <<Said("user")>> ELSE <<>>
  IN  SubSeq(s, 1, Len(s) - Len(rest)) \o opener \o kept

Repaired(s) == OpenedByUser(WithMissing(WithoutOrphans(s)))

-----------------------------------------------------------------------------
(* compact_session: the front of the history becomes part of the summary.  *)

\* The i-th message and the one after it belong to one round.
Paired(s, i) ==
  /\ s[i].role = "assistant" /\ s[i].uses # {}
  /\ i < Len(s)
  /\ s[i + 1].role \in {"tool", "user"} /\ s[i + 1].results # {}

\* The last end of a round no later than `limit`; 0 when there is none.
SafeCut(s, limit) == Max({0} \cup {i \in 1..Len(s) : i <= limit /\ ~Paired(s, i)})

\* Whether the tokens reach the threshold is left out: in a retry it is zero.
ShouldCompact(s, preserve) ==
  \/ Len(Recent(s)) > preserve
  \/ Len(Recent(s)) > 1 /\ SafeCut(Recent(s), Len(Recent(s)) - 1) > 0

CutFor(s, preserve) == SafeCut(Recent(s), Len(Recent(s)) - preserve)

\* How many messages go: the first setting that removes any decides.
Removed(s, preserve) ==
  LET settings == {p \in {preserve, 2, 1, 0} : p <= preserve /\ CutFor(s, p) > 0}
  IN  IF ShouldCompact(s, preserve) /\ settings # {}
      THEN CutFor(s, Max(settings)) ELSE 0

Compacted(s, preserve) ==
  IF Removed(s, preserve) = 0 THEN s
  ELSE <<Summary>> \o SubSeq(Recent(s), Removed(s, preserve) + 1, Len(Recent(s)))

\* CompactionConfig::default().
PreserveRecent == 4

-----------------------------------------------------------------------------
(* The turn.                                                               *)

Init ==
  /\ messages = <<>>
  /\ limited \in BOOLEAN
  /\ failures = 0
  /\ phase = "idle"
  /\ iterations = 0 /\ ptl_retries = 0 /\ spoken = FALSE
  /\ pending = {}
  /\ outcome = "none"

MaxPtlRetries      == 3  \* MAX_PTL_RETRIES
MaxCompactFailures == 3  \* MAX_CONSECUTIVE_COMPACT_FAILURES

\* The locals of run_turn are gone; the history stays as it is.
End(how) ==
  /\ phase' = "idle"
  /\ outcome' = how
  /\ iterations' = 0 /\ ptl_retries' = 0

\* The entry of run_turn.
StartTurn ==
  /\ phase = "idle"
  /\ Len(messages) < MaxMessages
  /\ messages' = Append(messages, Said("user"))
  /\ phase' = "top"
  /\ outcome' = "none" /\ spoken' = FALSE
  /\ UNCHANGED <<limited, failures, iterations, ptl_retries, pending>>

\* Counting stops one past the limit.
NextIteration == IF iterations > MaxIterations THEN iterations ELSE iterations + 1

OutOfIterations == limited /\ iterations >= MaxIterations

GiveUp ==
  /\ phase = "top"
  /\ OutOfIterations
  /\ End("error")
  /\ UNCHANGED <<messages, limited, failures, spoken, pending>>

\* The repaired history is kept, and sent.
Request ==
  /\ phase = "top"
  /\ ~OutOfIterations
  /\ iterations' = NextIteration
  /\ messages' = Repaired(messages)
  /\ phase' = "awaiting"
  /\ UNCHANGED <<limited, failures, ptl_retries, spoken, pending, outcome>>

\* Fault: refusals are not counted.
Fault_Uncounted == ptl_retries

CountRefusal == ptl_retries + 1

\* Fault: the limit on the retries is not looked at.
Fault_NoRetryLimit == TRUE

WithinRetries == CountRefusal <= MaxPtlRetries

\* Fault: a compaction that succeeds does not set the count back.
Fault_KeepsCount == failures

AfterSuccess == 0

\* The settings try_compact_for_ptl_retry goes through that remove something.
Retries == {p \in {PreserveRecent, 2, 1, 0} : Removed(messages, p) > 0}

RefusedOnceMore ==
  /\ phase = "awaiting"
  /\ ~WithinRetries
  /\ End("error")
  /\ UNCHANGED <<messages, limited, failures, spoken, pending>>

\* There is something to cut, and the circuit breaker is closed.
CanRetry == Retries # {} /\ failures < MaxCompactFailures

RefusedAndCompacted ==
  /\ phase = "awaiting"
  /\ WithinRetries
  /\ CanRetry
  /\ messages' = Compacted(messages, Max(Retries))
  /\ failures' = AfterSuccess
  /\ ptl_retries' = CountRefusal
  /\ phase' = "top"
  /\ UNCHANGED <<limited, iterations, spoken, pending, outcome>>

RefusedForGood ==
  /\ phase = "awaiting"
  /\ WithinRetries
  /\ ~CanRetry
  /\ failures' = IF failures < MaxCompactFailures THEN failures + 1 ELSE failures
  /\ End("error")
  /\ UNCHANGED <<messages, limited, spoken, pending>>

Fail ==
  /\ phase = "awaiting"
  /\ End("error")
  /\ UNCHANGED <<messages, limited, failures, spoken, pending>>

EmptyEndsTurn == iterations > 1

\* An answer without content ends the turn well, unless it is the first.
AnswerNothing ==
  /\ phase = "awaiting"
  /\ End(IF EmptyEndsTurn THEN "ok" ELSE "error")
  /\ UNCHANGED <<messages, limited, failures, spoken, pending>>

AnswerText ==
  /\ phase = "awaiting"
  /\ messages' = Append(messages, Said("assistant"))
  /\ spoken' = TRUE
  /\ End("ok")
  /\ UNCHANGED <<limited, failures, pending>>

\* The provider makes ids up; the lowest free ones stand for them.
NewCalls(ids) ==
  LET used == Uses(messages) \cup Results(messages)
  IN  /\ ids # {} /\ ids \cap used = {}
      /\ \A id \in ids : \A lower \in Calls : lower < id => lower \in ids \cup used

AnswerCalls(ids) ==
  /\ phase = "awaiting"
  /\ NewCalls(ids)
  /\ Len(messages) + 1 + Cardinality(ids) < MaxMessages
  /\ messages' = Append(messages, Asking(ids))
  /\ spoken' = TRUE
  /\ pending' = ids
  /\ phase' = "tools"
  /\ UNCHANGED <<limited, failures, iterations, ptl_retries, outcome>>

\* Fault: a call that is not allowed leaves no result.
Fault_NoResult(id) == <<>>

\* Ran, failed, denied or stopped by a hook: each call gets its result.
ResultMessage(id) == <<Giving({id})>>

RunTool ==
  LET id == Min(pending)
  IN  /\ phase = "tools"
      /\ messages' = messages \o ResultMessage(id)
      /\ pending' = pending \ {id}
      /\ phase' = IF pending' = {} THEN "top" ELSE "tools"
      /\ UNCHANGED <<limited, failures, turnVars, outcome>>

\* /compact makes a new runtime of what is left.
CompactIdle ==
  /\ phase = "idle"
  /\ Removed(messages, PreserveRecent) > 0
  /\ messages' = Compacted(messages, PreserveRecent)
  /\ failures' = 0
  /\ UNCHANGED <<limited, phase, turnVars, pending, outcome>>

\* A new runtime takes the history over: when plugins change, and in the TUI
\* for every turn.
Rebuild ==
  /\ phase = "idle"
  /\ failures' = 0
  /\ UNCHANGED <<messages, limited, phase, turnVars, pending, outcome>>

Refused == RefusedOnceMore \/ RefusedAndCompacted \/ RefusedForGood
Answered == AnswerNothing \/ AnswerText \/ \E ids \in SUBSET Calls : AnswerCalls(ids)
RunTurn == GiveUp \/ Request \/ Refused \/ Fail \/ Answered \/ RunTool

Next == StartTurn \/ RunTurn \/ CompactIdle \/ Rebuild

Spec     == Init /\ [][Next]_vars
\* run_turn is a plain loop in one thread, and the provider and the tools
\* return: a turn that runs keeps running.  This is WF_vars(RunTurn), with the
\* condition under which RunTurn is enabled written out.
FairSpec == Spec /\ ([]<>(phase = "idle") \/ []<><<RunTurn>>_vars)

-----------------------------------------------------------------------------
(* Properties.                                                             *)

TypeOK ==
  /\ messages \in Seq(Message)
  /\ limited \in BOOLEAN
  /\ failures \in 0..MaxCompactFailures
  /\ phase \in {"idle", "top", "awaiting", "tools"}
  /\ iterations \in 0..(MaxIterations + 1)
  /\ ptl_retries \in 0..MaxPtlRetries
  /\ pending \in SUBSET Calls
  /\ spoken \in BOOLEAN
  /\ outcome \in {"none", "ok", "error"}

\* What the provider asks of a request: behind the summary the user speaks
\* first, every call of an answer has exactly one result before the next
\* answer, and no result is without its call.  It relates the cuts of
\* compact_session, which split the results of parallel calls, to the passes
\* of validate_and_repair, which are to clean up after them.
RequestValid ==
  phase = "awaiting" =>
    /\ Recent(messages) # <<>> => Head(Recent(messages)).role = "user"
    /\ \A id \in Uses(messages) \cup Results(messages) :
         \E i \in DOMAIN messages :
           /\ id \in messages[i].uses
           /\ {j \in DOMAIN messages : id \in messages[j].results} \subseteq Following(messages, i)
           /\ Cardinality({j \in DOMAIN messages : id \in messages[j].results}) = 1

\* No call is ever left without the result of its own run: whenever run_turn
\* is about to send, whatever was cut before, validate_and_repair finds
\* nothing to invent.  A synthetic result would tell the model that a tool it
\* ran has no known outcome, and make it run the tool again.
NoResultInvented ==
  phase = "top" => \A i \in DOMAIN messages : Missing(messages, i) = {}

\* The circuit breaker of try_compact_for_ptl_retry never opens, however many
\* turns in a row are refused by one runtime: the message every turn adds is
\* one the next compaction removes, which sets the count back.
BreakerStaysClosed == failures <= 1

\* A provider that keeps refusing is not asked for ever: a request is followed
\* by an answer or the end of the turn, even if every compaction of the
\* retries only removes the opener that the repair puts back.
RefusalsEnd == phase = "awaiting" ~> phase \in {"tools", "idle"}

\* Comment in run_turn: an empty answer ends the turn well after a tool_use in
\* the previous iteration, so a turn that ends well has said something.
OkTurnSpoke == outcome = "ok" => spoken

\* Comment in try_compact_for_ptl_retry: compaction is progressively more
\* aggressive, so that there is always something to cut.  The retry of a
\* request that was too long thus never has more messages than it had.
RetryNeverGrows ==
  [][phase = "awaiting" /\ phase' = "top"
       => Len(Repaired(messages')) <= Len(messages)]_vars
=============================================================================
