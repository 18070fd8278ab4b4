-------------------------------- MODULE Retry --------------------------------
(***************************************************************************)
(* internal/retry: the Pacer, a queue of one in front of a Provider's API, *)
(* and the Executor, which repeats an operation after transient failures.  *)
(* Each caller runs one operation at a time; each attempt of it is one     *)
(* request through the Pacer.  Time is discrete: a timer holds what is     *)
(* left of a Sleep, and a Sleep may end late but not early.                *)
(***************************************************************************)
EXTENDS Integers, Sequences

CONSTANTS
  Caller,            \* worker goroutines calling the Provider
  Free,              \* slot when nobody holds it
  Pace, MaxDelay, DecayThreshold,   \* PacerConfig
  MaxRetries, BaseDelay, MaxBackoff, MaxProviderDelay,   \* Policy
  Hints              \* delay hints (Retry-After) a response may carry

ASSUME RetryConstants ==
  /\ Free \notin Caller
  /\ Pace \in Nat \ {0} /\ MaxDelay \in Nat /\ Pace <= MaxDelay
  /\ DecayThreshold \in Nat \ {0}
  /\ MaxRetries \in Nat /\ BaseDelay \in Nat /\ MaxBackoff \in Nat
  /\ MaxProviderDelay \in Nat
  /\ Hints \subseteq Nat \ {0}

\* How an attempt ends.  "lost": no response at all.
Kind == {"ok", "transient", "quota", "unauthorized", "terminal", "lost"}

\* A response with its delay hint; 0: none.  Only a 429 or 5xx carries one.
Outcome == [kind : Kind \ {"transient"}, hint : {0}] \cup [kind : {"transient"}, hint : Hints \cup {0}]

VARIABLES
  slot,        \* who holds the Pacer's worker slot
  queue,       \* callers waiting for it, in order of arrival
  dispatched,  \* some request was sent before
  delay,       \* effective delay between requests
  streak,      \* clean responses in a row, counted up to DecayThreshold
  phase,       \* where each caller's operation is
  attempt,     \* retries it has used
  timer,       \* what is left of its Sleep
  result,      \* how its last attempt ended
  stopping,    \* the daemon's context is cancelled
  quiet        \* history: what is left of the delay the last response asked for

pacerVars == <<slot, queue, dispatched, delay, streak, quiet>>
opVars == <<phase, attempt, timer, result>>
retryVars == <<pacerVars, opVars, stopping>>

Phase == {"off", "queued", "pacing", "wire", "backoff", "done"}

RetryTypeOK ==
  /\ slot \in Caller \cup {Free}
  /\ queue \in Seq(Caller)
  /\ dispatched \in BOOLEAN
  /\ delay \in 1..MaxDelay
  /\ streak \in 0..DecayThreshold
  /\ phase \in [Caller -> Phase]
  /\ attempt \in [Caller -> 0..MaxRetries]
  /\ timer \in [Caller -> Nat]
  /\ result \in [Caller -> Kind \cup {"cancelled"}]
  /\ stopping \in BOOLEAN
  /\ quiet \in Nat

RetryInit ==
  /\ slot = Free /\ queue = << >> /\ dispatched = FALSE
  /\ delay = Pace /\ streak = 0 /\ quiet = 0
  /\ phase = [c \in Caller |-> "off"]
  /\ attempt = [c \in Caller |-> 0]
  /\ timer = [c \in Caller |-> 0]
  /\ result = [c \in Caller |-> "ok"]
  /\ stopping = FALSE

-----------------------------------------------------------------------------
(* The numbers. *)

Lower(a, b) == IF a < b THEN a ELSE b
Higher(a, b) == IF a > b THEN a ELSE b

Clean(o) == o.kind # "transient"

\* observe, its clean branch: does this response let the delay decay?
Decays == streak + 1 >= DecayThreshold /\ delay > Pace

\* Mutated: the delay is halved without looking at the floor.
DelayBelowPace(o) ==
  IF o.kind = "lost" THEN delay
  ELSE IF o.hint > 0 THEN Lower(o.hint, MaxDelay)
  ELSE IF ~Clean(o) THEN Lower(2 * delay, MaxDelay)
  ELSE IF streak + 1 >= DecayThreshold THEN delay \div 2 ELSE delay

\* Pacer.observe; a request that got no response is not observed.  Every clean
\* response counts, a 4xx included.
DelayAfter(o) ==
  IF o.kind = "lost" THEN delay
  ELSE IF o.hint > 0 THEN Lower(o.hint, MaxDelay)
  ELSE IF ~Clean(o) THEN Lower(2 * delay, MaxDelay)
  ELSE IF Decays THEN Higher(delay \div 2, Pace) ELSE delay

\* Mutated: clean responses are not counted.
StreakForgotten(o) == IF o.kind = "lost" THEN streak ELSE 0

StreakAfter(o) ==
  IF o.kind = "lost" THEN streak
  ELSE IF ~Clean(o) \/ Decays THEN 0
  ELSE Lower(streak + 1, DecayThreshold)

\* BackoffDelay's cap before jitter.
BackoffCap(n) == Lower(BaseDelay * 2^(n - 1), MaxBackoff)

\* delayFor the n-th retry: the hint, else a jittered backoff.
RetryDelays(n, hint) ==
  IF hint > 0 THEN {Lower(hint, MaxProviderDelay)} ELSE 0..BackoffCap(n)

-----------------------------------------------------------------------------
(* The Pacer's slot and its queue (a Go channel: waiters are served in order). *)

\* The operation of c stands at the Pacer.
Arrive(c) ==
  IF slot = Free THEN slot' = c /\ UNCHANGED queue
  ELSE queue' = Append(queue, c) /\ UNCHANGED slot

\* The holder gives the slot to the first in the queue.
Release ==
  IF queue = << >> THEN slot' = Free /\ UNCHANGED queue
  ELSE slot' = Head(queue) /\ queue' = Tail(queue)

\* A caller that gives up frees the slot, or its place in the queue.
Leave(c) ==
  \/ slot = c /\ Release
  \/ phase[c] = "backoff" /\ UNCHANGED <<slot, queue>>
  \/ \E i \in 1..Len(queue) :
       /\ queue[i] = c
       /\ queue' = SubSeq(queue, 1, i - 1) \o SubSeq(queue, i + 1, Len(queue))
       /\ UNCHANGED slot

\* The operation of c begins with its first attempt.
Begin(c) ==
  /\ phase' = [phase EXCEPT ![c] = "queued"]
  /\ attempt' = [attempt EXCEPT ![c] = 0]
  /\ result' = [result EXCEPT ![c] = "ok"]
  /\ Arrive(c)
  /\ UNCHANGED <<timer, dispatched, delay, streak, quiet, stopping>>

\* Mutated: a retry, which has slept out its backoff, is not paced.
AcquireEarly(c) ==
  /\ phase[c] = "queued" /\ slot = c
  /\ phase' = [phase EXCEPT ![c] = "pacing"]
  /\ timer' = [timer EXCEPT ![c] = IF dispatched /\ attempt[c] = 0 THEN delay ELSE 0]
  /\ UNCHANGED <<pacerVars, attempt, result, stopping>>

\* With the slot, sleep out the current delay; nothing to pace the first against.
Acquire(c) ==
  /\ phase[c] = "queued" /\ slot = c
  /\ phase' = [phase EXCEPT ![c] = "pacing"]
  /\ timer' = [timer EXCEPT ![c] = IF dispatched THEN delay ELSE 0]
  /\ UNCHANGED <<pacerVars, attempt, result, stopping>>

Dispatch(c) ==
  /\ phase[c] = "pacing" /\ timer[c] = 0
  /\ phase' = [phase EXCEPT ![c] = "wire"]
  /\ dispatched' = TRUE
  /\ UNCHANGED <<slot, queue, delay, streak, quiet, attempt, timer, result, stopping>>

\* The attempt of c ends with outcome o: the Pacer observes it and frees the
\* slot, the Executor retries or is done.
Respond(c, o) ==
  /\ phase[c] = "wire"
  /\ delay' = DelayAfter(o) /\ streak' = StreakAfter(o) /\ quiet' = delay'
  /\ Release
  /\ IF o.kind = "transient" /\ attempt[c] < MaxRetries
     THEN /\ phase' = [phase EXCEPT ![c] = "backoff"]
          /\ attempt' = [attempt EXCEPT ![c] = @ + 1]
          /\ \E d \in RetryDelays(attempt'[c], o.hint) : timer' = [timer EXCEPT ![c] = d]
          /\ UNCHANGED result
     ELSE /\ phase' = [phase EXCEPT ![c] = "done"]
          /\ result' = [result EXCEPT ![c] = o.kind]
          /\ UNCHANGED <<attempt, timer>>
  /\ UNCHANGED <<dispatched, stopping>>

\* The backoff is over: the next attempt stands at the Pacer.
Again(c) ==
  /\ phase[c] = "backoff" /\ timer[c] = 0
  /\ phase' = [phase EXCEPT ![c] = "queued"]
  /\ Arrive(c)
  /\ UNCHANGED <<attempt, timer, result, dispatched, delay, streak, quiet, stopping>>

\* A cancelled context ends a wait for the slot or a Sleep.
Cancel(c) ==
  /\ stopping
  /\ phase[c] \in {"queued", "pacing", "backoff"}
  /\ phase[c] = "pacing" => dispatched
  /\ phase' = [phase EXCEPT ![c] = "done"]
  /\ result' = [result EXCEPT ![c] = "cancelled"]
  /\ timer' = [timer EXCEPT ![c] = 0]
  /\ Leave(c)
  /\ UNCHANGED <<dispatched, delay, streak, quiet, attempt, stopping>>

\* A unit of time passes.
Elapsed(n) == Higher(n - 1, 0)

RetryTick ==
  /\ timer' = [c \in Caller |-> Elapsed(timer[c])]
  /\ quiet' = Elapsed(quiet)
  /\ UNCHANGED <<slot, queue, dispatched, delay, streak, phase, attempt, result, stopping>>

Shutdown ==
  /\ ~stopping /\ stopping' = TRUE
  /\ UNCHANGED <<pacerVars, opVars>>

\* A step of the operation of c, between its first attempt and its return.
OperationStep(c) ==
  Acquire(c) \/ Dispatch(c) \/ Again(c) \/ Cancel(c) \/ \E o \in Outcome : Respond(c, o)
=============================================================================
