----------------------------- MODULE Orchestrator -----------------------------
(***************************************************************************)
(* ProviderOrchestrator (api/src/orchestrator/orchestrator.rs, metrics.rs):*)
(* one request after the other, each tried on the providers by their       *)
(* scores until one answers; a provider that fails too often is left alone *)
(* for five minutes.                                                       *)
(*                                                                         *)
(* The runtime that owns the client waits for each answer, so that no two  *)
(* requests overlap; a provider may be asked at any time and the clock     *)
(* moves while it works.  A success rate is kept exactly, in units of      *)
(* 1/Scale.  Latencies are not: they move the order of the candidates only *)
(* as far as three tenths of a score can.  Every registered provider is    *)
(* enabled and the choice is by score, as RequestOptions::default has it.  *)
(***************************************************************************)
EXTENDS Integers, Sequences, FiniteSets, SequencesExt

CONSTANTS Providers,  \* the registered providers
          MaxCalls,   \* calls to one provider
          Cooldown,   \* CIRCUIT_BREAKER_COOLDOWN_MS
          MaxTime     \* the clock goes up to it

Scale == 10 ^ MaxCalls

VARIABLES now,         \* the clock
          slot,        \* status, success_rate, total_calls, degraded_until
          candidates,  \* of the request, those not yet tried
          request      \* "none", "running", or how the last one ended

vars == <<now, slot, candidates, request>>

Init ==
  /\ now = 1
  /\ slot = [p \in Providers |-> [status |-> "Healthy", success_rate |-> Scale,
                                  total_calls |-> 0, degraded_until |-> 0]]
  /\ candidates = <<>>
  /\ request = "none"

-----------------------------------------------------------------------------
\* Fault: a success adds its full weight.
Fault_Unweighted(rate) == (7 * rate) \div 10 + 3 * Scale

\* ModelMetrics: an exponential moving average with a weight of 3/10.
Succeeded(rate) == (7 * rate + 3 * Scale) \div 10
Failed(rate) == (7 * rate) \div 10

Waiting(p) == slot[p].degraded_until > 0 /\ now < slot[p].degraded_until
Eligible == {p \in Providers : ~Waiting(p)}

\* score: seven tenths are the success rate, at most three the latency, so
\* that p comes before q for sure only if its rate is that much better.
SurelyBefore(p, q) == 7 * slot[p].success_rate >= 7 * slot[q].success_rate + 3 * Scale

Orders ==
  {order \in SetToAllKPermutations(Eligible) :
     /\ Len(order) = Cardinality(Eligible)
     /\ \A i, j \in DOMAIN order : i < j => ~SurelyBefore(order[j], order[i])}

\* select_candidates, which forgets a cooldown that is over.
SendMessage ==
  /\ request # "running"
  /\ \A p \in Providers : slot[p].total_calls < MaxCalls
  /\ slot' = [p \in Providers |-> IF p \in Eligible THEN [slot[p] EXCEPT !.degraded_until = 0] ELSE slot[p]]
  /\ candidates' \in Orders
  /\ request' = IF Eligible = {} THEN "unavailable" ELSE "running"
  /\ UNCHANGED now

Tried == Head(candidates)

\* record_success
Answers ==
  /\ request = "running"
  /\ slot' = [slot EXCEPT ![Tried].status = "Healthy",
                          ![Tried].success_rate = Succeeded(@),
                          ![Tried].total_calls = @ + 1]
  /\ candidates' = <<>>
  /\ request' = "ok"
  /\ UNCHANGED now

\* Fault: more calls are asked for.
Fault_TripsLate(s) == s.total_calls > 4 /\ 10 * s.success_rate < 3 * Scale

\* record_failure; the next candidate is tried, if there is one.
Trips(s) == s.total_calls >= 3 /\ 10 * s.success_rate < 3 * Scale

AfterFailure(s) ==
  LET counted == [s EXCEPT !.success_rate = Failed(@), !.total_calls = @ + 1]
  IN IF Trips(counted) THEN [counted EXCEPT !.degraded_until = now + Cooldown, !.status = "Degraded"]
     ELSE counted

Fails ==
  /\ request = "running"
  /\ slot' = [slot EXCEPT ![Tried] = AfterFailure(@)]
  /\ candidates' = Tail(candidates)
  /\ request' = IF Len(candidates) = 1 THEN "failed" ELSE "running"
  /\ UNCHANGED now

Tick ==
  /\ now < MaxTime
  /\ now' = now + 1
  /\ UNCHANGED <<slot, candidates, request>>

Next == SendMessage \/ Answers \/ Fails \/ Tick

Spec == Init /\ [][Next]_vars

-----------------------------------------------------------------------------
(* Properties.                                                             *)

TypeOK ==
  /\ now \in 1..MaxTime
  /\ \A p \in Providers :
       /\ slot[p].status \in {"Healthy", "Degraded"}
       /\ slot[p].success_rate \in 0..Scale
       /\ slot[p].total_calls \in 0..MaxCalls
       /\ slot[p].degraded_until \in 0..(MaxTime + Cooldown)
  /\ request \in {"none", "running", "unavailable", "ok", "failed"}

\* The status, the rate and the cooldown of a provider go together, although
\* the cooldown is forgotten by the next selection, the status only by a
\* success and the rate never: a provider that is left alone is Degraded, and
\* one that is Degraded still has the rate that tripped it, so that after its
\* cooldown a single failure is enough to leave it alone again.  A provider
\* is not asked while it is left alone.
BreakerConsistent ==
  /\ \A p \in Providers :
       /\ Waiting(p) => slot[p].status = "Degraded"
       /\ slot[p].status = "Degraded" <=> 10 * slot[p].success_rate < 3 * Scale
  /\ \A i \in DOMAIN candidates : ~Waiting(candidates[i])
=============================================================================
