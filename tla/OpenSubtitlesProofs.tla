------------------------- MODULE OpenSubtitlesProofs -------------------------
(***************************************************************************)
(* Theorems about OpenSubtitles for any number of workers, any delays and  *)
(* any retry policy.                                                       *)
(***************************************************************************)
EXTENDS OpenSubtitles, TLAPS

-----------------------------------------------------------------------------
(* The numbers keep their ranges. *)

LEMMA OutcomeParts ==
  ASSUME NEW o \in Outcome
  PROVE  o.kind \in Kind /\ o.hint \in Hints \cup {0}
BY DEF Outcome, Kind

\* Whatever the response, the next delay is between 1 and MaxDelay.
LEMMA DelayInRange ==
  ASSUME delay \in 1..MaxDelay, NEW o \in Outcome
  PROVE  DelayAfter(o) \in 1..MaxDelay
<1>1. delay \in Int /\ 1 <= delay /\ delay <= MaxDelay /\ 1 <= Pace /\ Pace <= MaxDelay
      /\ MaxDelay \in Int /\ Pace \in Int
  BY RetryConstants
<1>2. o.hint \in Nat
  <2>1. o.hint \in Hints \cup {0}  BY OutcomeParts
  <2>2. \A h \in Hints \cup {0} : h \in Nat  BY RetryConstants
  <2>. QED  BY <2>1, <2>2
<1>3. CASE o.kind = "lost"  BY <1>1, <1>3 DEF DelayAfter
<1>4. CASE o.kind # "lost" /\ o.hint > 0  BY <1>1, <1>2, <1>4 DEF DelayAfter, Lower
<1>5. CASE o.kind # "lost" /\ ~(o.hint > 0) /\ ~Clean(o)  BY <1>1, <1>5 DEF DelayAfter, Lower
<1>6. CASE o.kind # "lost" /\ ~(o.hint > 0) /\ Clean(o)
  <2>1. delay \div 2 \in Int /\ delay \div 2 <= delay  BY <1>1
  <2>. QED  BY <1>1, <1>6, <2>1 DEF DelayAfter, Higher
<1>. QED  BY <1>3, <1>4, <1>5, <1>6

LEMMA StreakInRange ==
  ASSUME streak \in 0..DecayThreshold, NEW o \in Outcome
  PROVE  StreakAfter(o) \in 0..DecayThreshold
BY RetryConstants DEF StreakAfter, Outcome, Lower, Clean, Decays, Kind

LEMMA RetryDelayIsTime ==
  ASSUME NEW n \in Nat, NEW hint \in Hints \cup {0}, NEW d \in RetryDelays(n, hint)
  PROVE  d \in Nat
BY RetryConstants DEF RetryDelays, Lower

\* The slot and the queue keep their types however a caller comes or goes.
LEMMA ArriveTyped ==
  ASSUME RetryTypeOK, NEW c \in Caller, Arrive(c)
  PROVE  slot' \in Caller \cup {Free} /\ queue' \in Seq(Caller)
<1>1. slot \in Caller \cup {Free} /\ queue \in Seq(Caller)  BY DEF RetryTypeOK
<1>2. Append(queue, c) \in Seq(Caller)  BY <1>1
<1>. QED  BY <1>1, <1>2 DEF Arrive

LEMMA ReleaseTyped ==
  ASSUME RetryTypeOK, Release
  PROVE  slot' \in Caller \cup {Free} /\ queue' \in Seq(Caller)
<1>1. queue \in Seq(Caller)  BY DEF RetryTypeOK
<1>2. queue # << >> => Head(queue) \in Caller /\ Tail(queue) \in Seq(Caller)  BY <1>1
<1>. QED  BY <1>1, <1>2 DEF Release

LEMMA LeaveTyped ==
  ASSUME RetryTypeOK, NEW c \in Caller, Leave(c)
  PROVE  slot' \in Caller \cup {Free} /\ queue' \in Seq(Caller)
<1>1. CASE slot = c /\ Release  BY <1>1, ReleaseTyped
<1>2. CASE UNCHANGED <<slot, queue>>  BY <1>2 DEF RetryTypeOK
<1>3. ASSUME NEW i \in 1..Len(queue), UNCHANGED slot,
             queue' = SubSeq(queue, 1, i - 1) \o SubSeq(queue, i + 1, Len(queue))
      PROVE  slot' \in Caller \cup {Free} /\ queue' \in Seq(Caller)
  <2>1. queue \in Seq(Caller) /\ Len(queue) \in Nat  BY DEF RetryTypeOK
  <2>2. \A m, n \in Int : (1 <= m /\ n <= Len(queue)) => SubSeq(queue, m, n) \in Seq(Caller)
    BY <2>1
  <2>3. SubSeq(queue, 1, i - 1) \in Seq(Caller) /\ SubSeq(queue, i + 1, Len(queue)) \in Seq(Caller)
    BY <2>1, <2>2
  <2>. QED  BY <1>3, <2>3 DEF RetryTypeOK
<1>. QED  BY <1>1, <1>2, <1>3 DEF Leave

-----------------------------------------------------------------------------
(* The Pacer and the Executor, step by step. *)

LEMMA BeginTyped ==
  ASSUME RetryTypeOK, NEW c \in Caller, Begin(c)
  PROVE  RetryTypeOK'
<1>1. slot' \in Caller \cup {Free} /\ queue' \in Seq(Caller)  BY ArriveTyped DEF Begin
<1>. QED  BY <1>1, RetryConstants DEF RetryTypeOK, Begin, Phase, Kind

LEMMA RespondTyped ==
  ASSUME RetryTypeOK, NEW c \in Caller, NEW o \in Outcome, Respond(c, o)
  PROVE  RetryTypeOK'
<1>1. slot' \in Caller \cup {Free} /\ queue' \in Seq(Caller)  BY ReleaseTyped DEF Respond
<1>2. delay' \in 1..MaxDelay /\ streak' \in 0..DecayThreshold /\ quiet' \in Nat
  BY DelayInRange, StreakInRange DEF Respond, RetryTypeOK
<1>3. o.kind \in Kind /\ o.hint \in Hints \cup {0}  BY OutcomeParts
<1>4. CASE o.kind = "transient" /\ attempt[c] < MaxRetries
  <2>1. attempt'[c] \in 0..MaxRetries /\ attempt' \in [Caller -> 0..MaxRetries]
    BY <1>4, RetryConstants DEF Respond, RetryTypeOK
  <2>2. PICK d \in RetryDelays(attempt'[c], o.hint) : timer' = [timer EXCEPT ![c] = d]
    BY <1>4 DEF Respond
  <2>3. d \in Nat  BY <1>3, <2>1, <2>2, RetryDelayIsTime
  <2>4. timer' \in [Caller -> Nat]  BY <2>2, <2>3 DEF RetryTypeOK
  <2>. QED  BY <1>1, <1>2, <1>4, <2>1, <2>4 DEF Respond, RetryTypeOK, Phase
<1>5. CASE ~(o.kind = "transient" /\ attempt[c] < MaxRetries)
  BY <1>1, <1>2, <1>3, <1>5 DEF Respond, RetryTypeOK, Phase
<1>. QED  BY <1>4, <1>5

LEMMA OperationStepTyped ==
  ASSUME RetryTypeOK, NEW c \in Caller, OperationStep(c)
  PROVE  RetryTypeOK'
<1>1. CASE Acquire(c)  BY <1>1 DEF RetryTypeOK, Acquire, pacerVars, Phase
<1>2. CASE Dispatch(c)  BY <1>2 DEF RetryTypeOK, Dispatch, Phase
<1>3. CASE Again(c)
  <2>1. slot' \in Caller \cup {Free} /\ queue' \in Seq(Caller)  BY <1>3, ArriveTyped DEF Again
  <2>. QED  BY <1>3, <2>1 DEF RetryTypeOK, Again, Phase
<1>4. CASE Cancel(c)
  <2>1. slot' \in Caller \cup {Free} /\ queue' \in Seq(Caller)  BY <1>4, LeaveTyped DEF Cancel
  <2>. QED  BY <1>4, <2>1 DEF RetryTypeOK, Cancel, Phase
<1>5. CASE \E o \in Outcome : Respond(c, o)  BY <1>5, RespondTyped
<1>. QED  BY <1>1, <1>2, <1>3, <1>4, <1>5 DEF OperationStep

LEMMA IdleTyped ==
  ASSUME RetryTypeOK, NEW c \in Caller, NEW op, Idle(c, op)
  PROVE  RetryTypeOK'
BY RetryConstants DEF RetryTypeOK, Idle, pacerVars, Phase, Kind

LEMMA TickTyped ==
  ASSUME RetryTypeOK, RetryTick
  PROVE  RetryTypeOK'
<1>1. \A n \in Nat : Elapsed(n) \in Nat  BY DEF Elapsed, Higher
<1>2. \A c \in Caller : timer[c] \in Nat  BY DEF RetryTypeOK
<1>3. timer' \in [Caller -> Nat] /\ quiet' \in Nat  BY <1>1, <1>2 DEF RetryTypeOK, RetryTick
<1>. QED  BY <1>3 DEF RetryTypeOK, RetryTick

-----------------------------------------------------------------------------
(* Type correctness of the Provider. *)

LEMMA NextTyped ==
  ASSUME TypeOK, [Next]_vars
  PROVE  TypeOK'
<1>. USE DEF TypeOK
<1>1. ASSUME NEW c \in Caller, Search(c)  PROVE TypeOK'
  BY <1>1, BeginTyped DEF Search, Start, GoTo, Operation
<1>2. ASSUME NEW c \in Caller, Download(c)  PROVE TypeOK'
  BY <1>2, IdleTyped DEF Download, Idle, GoTo, Operation
<1>3. ASSUME NEW c \in Caller, Token(c)  PROVE TypeOK'
  BY <1>3, BeginTyped DEF Token, Start, GoTo, Operation
<1>4. ASSUME NEW c \in Caller, Invalidate(c)  PROVE TypeOK'
  BY <1>4, IdleTyped DEF Invalidate, Return, Idle, GoTo, Operation
<1>5. ASSUME NEW c \in Caller, Proceed(c)  PROVE TypeOK'
  <2>1. CASE Carry(c)  BY <2>1, OperationStepTyped DEF Carry
  <2>2. ASSUME QuotaOrWrap(c)  PROVE suspendedFor' \in Nat  BY <2>2, ResumesAreTimes DEF QuotaOrWrap
  <2>3. CASE HashReturns(c)
    <3>1. CASE Return(c)
      BY <2>2, <2>3, <3>1, IdleTyped DEF HashReturns, Return, Idle, GoTo, Operation
    <3>2. CASE Start(c, "fuzzy")
      BY <2>2, <2>3, <3>2, BeginTyped DEF HashReturns, Start, GoTo, Operation
    <3>. QED  BY <2>3, <3>1, <3>2 DEF HashReturns
  <2>4. CASE LastReturns(c)
    BY <2>2, <2>4, IdleTyped DEF LastReturns, Return, Idle, GoTo, Operation
  <2>5. CASE LoginReturns(c)
    <3>1. CASE result[c] = "ok"
      BY <2>5, <3>1, BeginTyped DEF LoginReturns, Start, GoTo, Operation
    <3>2. CASE result[c] # "ok"
      BY <2>5, <3>2, IdleTyped DEF LoginReturns, Return, Idle, GoTo, Operation
    <3>. QED  BY <3>1, <3>2
  <2>6. CASE LinkReturns(c)
    <3>1. CASE result[c] = "ok"
      BY <2>2, <2>6, <3>1, BeginTyped DEF LinkReturns, Start, GoTo, Operation
    <3>2. CASE result[c] = "unauthorized"
      BY <2>2, <2>6, <3>2, IdleTyped DEF LinkReturns, Idle, GoTo, Operation
    <3>3. CASE result[c] # "ok" /\ result[c] # "unauthorized"
      BY <2>2, <2>6, <3>3, IdleTyped DEF LinkReturns, Return, Idle, GoTo, Operation
    <3>. QED  BY <3>1, <3>2, <3>3
  <2>. QED  BY <1>5, <2>1, <2>3, <2>4, <2>5, <2>6 DEF Proceed
<1>6. CASE ExpireToken  BY <1>6 DEF ExpireToken, RetryTypeOK, retryVars, pacerVars, opVars
<1>7. CASE Tick
  <2>1. RetryTypeOK'  BY <1>7, TickTyped DEF Tick
  <2>. QED  BY <1>7, <2>1 DEF Tick, Elapsed, Higher
<1>8. CASE Stop  BY <1>8 DEF Stop, Shutdown, RetryTypeOK, pacerVars, opVars
<1>9. CASE UNCHANGED vars  BY <1>9 DEF vars, RetryTypeOK, retryVars, pacerVars, opVars
<1>. QED  BY <1>1, <1>2, <1>3, <1>4, <1>5, <1>6, <1>7, <1>8, <1>9 DEF Next

LEMMA InitTyped == Init => TypeOK
<1>. SUFFICES ASSUME Init  PROVE TypeOK
  OBVIOUS
<1>1. queue \in Seq(Caller)  BY DEF Init, RetryInit
<1>2. delay \in 1..MaxDelay /\ streak \in 0..DecayThreshold /\ attempt \in [Caller -> 0..MaxRetries]
  BY RetryConstants DEF Init, RetryInit
<1>. QED  BY <1>1, <1>2 DEF Init, RetryInit, TypeOK, RetryTypeOK, Phase, Kind, Operation

\* Every variable keeps its type; in particular the delay between requests
\* stays between 1 and MaxDelay whatever the server answers.
THEOREM DelaysBounded == Spec => []TypeOK
<1>1. Init => TypeOK  BY InitTyped
<1>2. TypeOK /\ [Next]_vars => TypeOK'  BY NextTyped
<1>. QED  BY <1>1, <1>2, PTL DEF Spec

-----------------------------------------------------------------------------
(***************************************************************************)
(* Pacing.  PacedDispatch is not inductive: a caller may be about to send  *)
(* because of a Sleep it began long ago.  What holds throughout is that    *)
(* the slot covers the Sleep and the request, and that the Sleep of its    *)
(* holder lasts at least as long as the quiet time left.                   *)
(***************************************************************************)

Serial == \A c \in Caller : phase[c] \in {"pacing", "wire"} => slot = c
SleepCoversQuiet == \A c \in Caller : phase[c] = "pacing" => quiet <= timer[c]
QuietWithinDelay == quiet <= delay
QuietAfterDispatch ==
  /\ ~dispatched => quiet = 0
  /\ \A c \in Caller : phase[c] = "wire" => dispatched

Pacing == Serial /\ SleepCoversQuiet /\ QuietWithinDelay /\ QuietAfterDispatch

\* A caller that holds neither the slot's Sleep nor its request moves among the
\* other phases, and the numbers stay as they are.
ElsewhereStep(c) ==
  /\ phase[c] \notin {"pacing", "wire"} /\ phase'[c] \notin {"pacing", "wire"}
  /\ \A d \in Caller \ {c} : phase'[d] = phase[d] /\ timer'[d] = timer[d]
  /\ slot' = slot \/ slot = c \/ slot = Free
  /\ UNCHANGED <<quiet, delay, dispatched>>

LEMMA ElsewhereKeepsPacing ==
  ASSUME Pacing, NEW c \in Caller, ElsewhereStep(c)
  PROVE  Pacing'
<1>1. Serial'
  BY RetryConstants DEF Pacing, Serial, ElsewhereStep
<1>2. SleepCoversQuiet'  BY DEF Pacing, SleepCoversQuiet, ElsewhereStep
<1>3. QuietWithinDelay' /\ QuietAfterDispatch'
  BY DEF Pacing, QuietWithinDelay, QuietAfterDispatch, ElsewhereStep
<1>. QED  BY <1>1, <1>2, <1>3 DEF Pacing

LEMMA BeginElsewhere ==
  ASSUME RetryTypeOK, NEW c \in Caller, phase[c] \in {"off", "done"}, Begin(c)
  PROVE  ElsewhereStep(c)
BY DEF RetryTypeOK, ElsewhereStep, Begin, Arrive

LEMMA IdleElsewhere ==
  ASSUME RetryTypeOK, NEW c \in Caller, NEW op, phase[c] \in {"off", "done"}, Idle(c, op)
  PROVE  ElsewhereStep(c)
BY DEF RetryTypeOK, ElsewhereStep, Idle, pacerVars

\* While the slot's holder sleeps or waits for its answer, no other caller does.
LEMMA OnlyHolder ==
  ASSUME Serial, NEW c \in Caller, slot = c, NEW d \in Caller \ {c}
  PROVE  phase[d] \notin {"pacing", "wire"}
BY DEF Serial

LEMMA StepPaced ==
  ASSUME TypeOK, Pacing, NEW c \in Caller, OperationStep(c)
  PROVE  Pacing'
<1>. USE DEF TypeOK
<1>0. Serial  BY DEF Pacing
<1>1. CASE Acquire(c)
  <2>1. Serial'  BY <1>1 DEF Pacing, Serial, Acquire, RetryTypeOK, pacerVars
  <2>2. SleepCoversQuiet'
    BY <1>1 DEF Pacing, SleepCoversQuiet, QuietWithinDelay, QuietAfterDispatch, Acquire,
       RetryTypeOK, pacerVars
  <2>. QED
    BY <1>1, <2>1, <2>2 DEF Pacing, QuietWithinDelay, QuietAfterDispatch, Acquire, RetryTypeOK, pacerVars
<1>2. CASE Dispatch(c)
  <2>1. Serial'  BY <1>2 DEF Pacing, Serial, Dispatch, RetryTypeOK
  <2>2. SleepCoversQuiet'  BY <1>2 DEF Pacing, SleepCoversQuiet, Dispatch, RetryTypeOK
  <2>3. QuietWithinDelay' /\ QuietAfterDispatch'
    BY <1>2 DEF Pacing, QuietWithinDelay, QuietAfterDispatch, Dispatch, RetryTypeOK
  <2>. QED  BY <2>1, <2>2, <2>3 DEF Pacing
<1>3. CASE Again(c)
  <2>1. ElsewhereStep(c)  BY <1>3 DEF Again, Arrive, ElsewhereStep, RetryTypeOK
  <2>. QED  BY <2>1, ElsewhereKeepsPacing
<1>4. CASE Cancel(c)
  <2>1. phase' = [phase EXCEPT ![c] = "done"] /\ timer' = [timer EXCEPT ![c] = 0]
    BY <1>4 DEF Cancel
  <2>2. slot' = slot \/ slot = c  BY <1>4 DEF Cancel, Leave
  <2>3. Serial'  BY <1>0, <2>1, <2>2 DEF Serial, RetryTypeOK
  <2>4. SleepCoversQuiet'
    BY <1>4, <2>1 DEF Pacing, SleepCoversQuiet, Cancel, RetryTypeOK
  <2>5. QuietWithinDelay' /\ QuietAfterDispatch'
    BY <1>4, <2>1 DEF Pacing, QuietWithinDelay, QuietAfterDispatch, Cancel, RetryTypeOK
  <2>. QED  BY <2>3, <2>4, <2>5 DEF Pacing
<1>5. ASSUME NEW o \in Outcome, Respond(c, o)  PROVE Pacing'
  <2>1. phase[c] = "wire" /\ slot = c  BY <1>0, <1>5 DEF Respond, Serial
  <2>2. phase' = [phase EXCEPT ![c] = "backoff"] \/ phase' = [phase EXCEPT ![c] = "done"]
    BY <1>5 DEF Respond
  <2>3. \A d \in Caller : phase'[d] \notin {"pacing", "wire"}
    BY <1>0, <2>1, <2>2, OnlyHolder DEF RetryTypeOK
  <2>4. dispatched /\ dispatched' = dispatched /\ quiet' = delay' /\ delay' \in Int
    BY <1>5, <2>1, DelayInRange DEF Respond, Pacing, QuietAfterDispatch, RetryTypeOK
  <2>. QED
    BY <2>3, <2>4 DEF Pacing, Serial, SleepCoversQuiet, QuietWithinDelay, QuietAfterDispatch
<1>. QED  BY <1>1, <1>2, <1>3, <1>4, <1>5 DEF OperationStep

-----------------------------------------------------------------------------
(* A step of the Provider, as the Pacer sees it: a caller's part of its call *)
(* moves within an operation, or ends one and perhaps begins the next.       *)

OffWhenIdle ==
  \A c \in Caller : call[c] \in {"none", "token", "invalidate"} => phase[c] = "off"

\* Between two operations of a call.
Turn(c) ==
  \/ \E op \in Operation \ {"none", "token", "invalidate"} :
       phase[c] \in {"off", "done"} /\ Start(c, op)
  \/ \E op \in {"none", "token", "invalidate"} :
       phase[c] \in {"off", "done"} /\ Idle(c, op)

LEMMA StepShape ==
  ASSUME TypeOK, OffWhenIdle, Next
  PROVE  \/ \E c \in Caller : Turn(c) \/ Carry(c)
         \/ Tick /\ RetryTick
         \/ retryVars' = retryVars /\ call' = call
         \/ Stop
<1>1. ASSUME NEW c \in Caller, Search(c)  PROVE Turn(c)
  BY <1>1 DEF Search, Turn, OffWhenIdle, Operation
<1>2. ASSUME NEW c \in Caller, Download(c)  PROVE Turn(c)
  BY <1>2 DEF Download, Turn, OffWhenIdle
<1>3. ASSUME NEW c \in Caller, Token(c)  PROVE Turn(c)
  BY <1>3 DEF Token, Turn, OffWhenIdle, Operation
<1>4. ASSUME NEW c \in Caller, Invalidate(c)  PROVE Turn(c)
  BY <1>4 DEF Invalidate, Return, Turn, OffWhenIdle
<1>5. ASSUME NEW c \in Caller, Proceed(c)  PROVE Turn(c) \/ Carry(c)
  <2>1. HashReturns(c) => Turn(c)  BY DEF HashReturns, Finished, Return, Turn, Operation
  <2>2. LastReturns(c) => Turn(c)  BY DEF LastReturns, Finished, Return, Turn
  <2>3. LoginReturns(c) => Turn(c)  BY DEF LoginReturns, Finished, Return, Turn, Operation
  <2>4. LinkReturns(c) => Turn(c)
    <3>. SUFFICES ASSUME LinkReturns(c)  PROVE Turn(c)
      OBVIOUS
    <3>1. CASE result[c] = "ok"  BY <3>1 DEF LinkReturns, Finished, Turn, Operation
    <3>2. CASE result[c] = "unauthorized"  BY <3>2 DEF LinkReturns, Finished, Turn
    <3>3. CASE result[c] # "ok" /\ result[c] # "unauthorized"
      BY <3>3 DEF LinkReturns, Finished, Return, Turn
    <3>. QED  BY <3>1, <3>2, <3>3
  <2>. QED  BY <1>5, <2>1, <2>2, <2>3, <2>4 DEF Proceed
<1>6. ExpireToken => retryVars' = retryVars /\ call' = call  BY DEF ExpireToken
<1>. QED  BY <1>1, <1>2, <1>3, <1>4, <1>5, <1>6 DEF Next, Tick

LEMMA TurnElsewhere ==
  ASSUME RetryTypeOK, NEW c \in Caller, Turn(c)
  PROVE  ElsewhereStep(c)
BY BeginElsewhere, IdleElsewhere DEF Turn, Start

LEMMA OffWhenIdleStep ==
  ASSUME TypeOK, OffWhenIdle, [Next]_vars
  PROVE  OffWhenIdle'
<1>. USE DEF TypeOK, RetryTypeOK
<1>1. ASSUME NEW c \in Caller, Turn(c)  PROVE OffWhenIdle'
  <2>1. ASSUME NEW op \in Operation \ {"none", "token", "invalidate"}, Start(c, op)
        PROVE  OffWhenIdle'
    BY <2>1 DEF OffWhenIdle, Start, GoTo, Begin
  <2>2. ASSUME NEW op, Idle(c, op)  PROVE OffWhenIdle'
    BY <2>2 DEF OffWhenIdle, Idle, GoTo
  <2>. QED  BY <1>1, <2>1, <2>2 DEF Turn
<1>2. ASSUME NEW c \in Caller, Carry(c)  PROVE OffWhenIdle'
  <2>1. phase[c] # "off" /\ call' = call  BY <1>2 DEF Carry, OperationStep, Acquire, Dispatch, Again, Cancel, Respond
  <2>2. \A d \in Caller \ {c} : phase'[d] = phase[d]
    BY <1>2 DEF Carry, OperationStep, Acquire, Dispatch, Again, Cancel, Respond
  <2>. QED  BY <2>1, <2>2 DEF OffWhenIdle
<1>3. CASE UNCHANGED <<phase, call>>  BY <1>3 DEF OffWhenIdle
<1>4. CASE Next
  <2>1. Tick \/ Stop \/ (retryVars' = retryVars /\ call' = call) => UNCHANGED <<phase, call>>
    BY DEF Tick, RetryTick, Stop, Shutdown, opVars, retryVars
  <2>. QED  BY <1>1, <1>2, <1>3, <1>4, <2>1, StepShape
<1>. QED  BY <1>3, <1>4 DEF vars, retryVars, opVars

LEMMA PacingStep ==
  ASSUME TypeOK, OffWhenIdle, Pacing, [Next]_vars
  PROVE  Pacing'
<1>1. ASSUME NEW c \in Caller, Turn(c)  PROVE Pacing'
  BY <1>1, TurnElsewhere, ElsewhereKeepsPacing DEF TypeOK
<1>2. ASSUME NEW c \in Caller, Carry(c)  PROVE Pacing'  BY <1>2, StepPaced DEF Carry
<1>3. CASE RetryTick
  <2>1. \A m, n \in Nat : m <= n => Elapsed(m) <= Elapsed(n)  BY DEF Elapsed, Higher
  <2>2. \A m \in Nat : Elapsed(m) <= m  BY DEF Elapsed, Higher
  <2>3. Elapsed(0) = 0  BY DEF Elapsed, Higher
  <2>4. quiet \in Nat /\ delay \in Nat /\ \A c \in Caller : timer[c] \in Nat
    BY RetryConstants DEF TypeOK, RetryTypeOK
  <2>5. SleepCoversQuiet'
    BY <1>3, <2>1, <2>4 DEF Pacing, SleepCoversQuiet, RetryTick
  <2>6. QuietWithinDelay'
    <3>1. Elapsed(quiet) \in Int /\ Elapsed(quiet) <= quiet /\ quiet <= delay
      BY <2>2, <2>4 DEF Pacing, QuietWithinDelay, Elapsed, Higher
    <3>. QED  BY <1>3, <2>4, <3>1 DEF QuietWithinDelay, RetryTick
  <2>7. Serial' /\ QuietAfterDispatch'
    BY <1>3, <2>3 DEF Pacing, Serial, QuietAfterDispatch, RetryTick
  <2>. QED  BY <2>5, <2>6, <2>7 DEF Pacing
<1>4. CASE UNCHANGED <<pacerVars, opVars>>
  BY <1>4 DEF Pacing, Serial, SleepCoversQuiet, QuietWithinDelay, QuietAfterDispatch, pacerVars, opVars
<1>5. CASE Next
  <2>1. Stop \/ retryVars' = retryVars => UNCHANGED <<pacerVars, opVars>>
    BY DEF Stop, Shutdown, retryVars
  <2>. QED  BY <1>1, <1>2, <1>3, <1>4, <1>5, <2>1, StepShape
<1>. QED  BY <1>4, <1>5 DEF vars, retryVars

LEMMA SendsPaced ==
  ASSUME TypeOK, OffWhenIdle, Pacing, [Next]_vars, NEW c \in Caller, Sent(c)
  PROVE  quiet = 0 /\ \A d \in Caller : phase[d] # "wire"
<1>. USE DEF TypeOK, RetryTypeOK
<1>1. ASSUME Dispatch(c)  PROVE quiet = 0 /\ \A d \in Caller : phase[d] # "wire"
  <2>1. phase[c] = "pacing" /\ timer[c] = 0  BY <1>1 DEF Dispatch
  <2>2. quiet = 0  BY <2>1 DEF Pacing, SleepCoversQuiet
  <2>3. slot = c  BY <2>1 DEF Pacing, Serial
  <2>. QED  BY <2>1, <2>2, <2>3, OnlyHolder DEF Pacing
<1>2. ASSUME NEW d \in Caller, Turn(d)  PROVE FALSE
  BY <1>2, TurnElsewhere DEF ElsewhereStep, Sent
<1>3. ASSUME NEW d \in Caller, Carry(d)  PROVE Dispatch(c)
  <2>1. Dispatch(d) \/ phase'[d] # "wire"
    BY <1>3 DEF Carry, OperationStep, Acquire, Again, Cancel, Respond
  <2>2. \A e \in Caller \ {d} : phase'[e] = phase[e]
    BY <1>3 DEF Carry, OperationStep, Acquire, Dispatch, Again, Cancel, Respond
  <2>. QED  BY <2>1, <2>2 DEF Sent
<1>4. CASE UNCHANGED phase  BY <1>4 DEF Sent
<1>5. CASE Next
  <2>1. Tick \/ Stop \/ retryVars' = retryVars => UNCHANGED phase
    BY DEF Tick, RetryTick, Stop, Shutdown, opVars, retryVars
  <2>. QED  BY <1>1, <1>2, <1>3, <1>4, <1>5, <2>1, StepShape
<1>. QED  BY <1>4, <1>5 DEF vars, retryVars, opVars

\* For any number of workers, any delays and any retry policy, a request goes out
\* only when no other is on its way and the delay left by the last response has
\* passed since it.
THEOREM RequestsPaced == Spec => PacedDispatch
<1>. DEFINE IInv == TypeOK /\ OffWhenIdle /\ Pacing
<1>1. Init => IInv
  <2>1. Init => OffWhenIdle  BY DEF Init, RetryInit, OffWhenIdle
  <2>2. Init => Pacing
    BY RetryConstants DEF Init, RetryInit, Pacing, Serial, SleepCoversQuiet, QuietWithinDelay, QuietAfterDispatch
  <2>. QED  BY <2>1, <2>2, InitTyped
<1>2. IInv /\ [Next]_vars => IInv'  BY NextTyped, OffWhenIdleStep, PacingStep
<1>3. IInv /\ [Next]_vars
        => [\A c \in Caller : Sent(c) => quiet = 0 /\ \A d \in Caller : phase[d] # "wire"]_vars
  BY SendsPaced
<1>. QED  BY <1>1, <1>2, <1>3, PTL DEF Spec, PacedDispatch

-----------------------------------------------------------------------------
(* Logging in. *)

\* Whoever logs in holds the mutex, and no token is cached meanwhile.
LoginLocked == \A c \in Caller : call[c] = "login" => locker = c /\ ~cached

LEMMA LoginLockedStep ==
  ASSUME TypeOK, LoginLocked, [Next]_vars
  PROVE  LoginLocked'
<1>. USE DEF TypeOK, LoginLocked, GoTo
<1>1. ASSUME NEW c \in Caller, Search(c)  PROVE LoginLocked'
  BY <1>1 DEF Search, Start
<1>2. ASSUME NEW c \in Caller, Download(c)  PROVE LoginLocked'
  BY <1>2 DEF Download, Idle
<1>3. ASSUME NEW c \in Caller, Token(c)  PROVE LoginLocked'
  BY <1>3, RetryConstants DEF Token, Start
<1>4. ASSUME NEW c \in Caller, Invalidate(c)  PROVE LoginLocked'
  BY <1>4 DEF Invalidate, Return, Idle
<1>5. ASSUME NEW c \in Caller, Proceed(c)  PROVE LoginLocked'
  <2>1. CASE Carry(c)  BY <2>1 DEF Carry
  <2>2. CASE HashReturns(c)  BY <2>2 DEF HashReturns, Return, Idle, Start
  <2>3. CASE LastReturns(c)  BY <2>3 DEF LastReturns, Return, Idle
  <2>4. CASE LoginReturns(c)
    <3>1. \A d \in Caller \ {c} : call'[d] # "login"
      BY <2>4 DEF LoginReturns, Finished, Return, Idle, Start
    <3>2. call'[c] # "login"  BY <2>4 DEF LoginReturns, Return, Idle, Start
    <3>. QED  BY <3>1, <3>2
  <2>5. CASE LinkReturns(c)
    <3>1. UNCHANGED <<locker, cached>>  BY <2>5 DEF LinkReturns
    <3>2. \E op \in {"get", "invalidate", "none"} : call' = [call EXCEPT ![c] = op]
      BY <2>5 DEF LinkReturns, Return, Idle, Start
    <3>. QED  BY <3>1, <3>2
  <2>. QED  BY <1>5, <2>1, <2>2, <2>3, <2>4, <2>5 DEF Proceed
<1>6. CASE ExpireToken  BY <1>6 DEF ExpireToken
<1>7. CASE Tick \/ Stop \/ UNCHANGED vars  BY <1>7 DEF Tick, Stop, vars
<1>. QED  BY <1>1, <1>2, <1>3, <1>4, <1>5, <1>6, <1>7 DEF Next

\* However many workers find no token, one of them logs in, and nobody logs in
\* while a token is cached.
THEOREM OneLogin == Spec => []SingleLogin
<1>1. Init => LoginLocked  BY DEF Init, LoginLocked
<1>2. TypeOK /\ LoginLocked /\ [Next]_vars => LoginLocked'  BY LoginLockedStep
<1>3. LoginLocked => SingleLogin  BY DEF LoginLocked, SingleLogin
<1>. QED  BY <1>1, <1>2, <1>3, DelaysBounded, PTL DEF Spec
=============================================================================
