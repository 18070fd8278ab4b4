---------------------------- MODULE OpenSubtitles ----------------------------
(***************************************************************************)
(* internal/provider/opensubtitles: calls of Search and Download made by   *)
(* concurrent workers on one Provider, each a series of operations of the  *)
(* Executor over the shared Pacer, with the cached login token behind its  *)
(* mutex and the Suspension a quota response enters.  The server answers   *)
(* what it likes.                                                          *)
(***************************************************************************)
EXTENDS Retry

CONSTANT Resumes   \* how far away a quota response may put the resume time

ASSUME ResumesAreTimes == Resumes \subseteq Nat

VARIABLES
  call,        \* the operation each caller's Search or Download is at
  locker,      \* who holds the authenticator's mutex
  cached,      \* a token is cached and has not expired
  suspendedFor \* what is left of the Suspension

vars == <<retryVars, call, locker, cached, suspendedFor>>

Operation == {"none", "hash", "fuzzy", "token", "login", "link", "get", "invalidate"}

\* Every variable has its type; the effective delay is never 0 nor above MaxDelay.
TypeOK ==
  /\ RetryTypeOK
  /\ call \in [Caller -> Operation]
  /\ locker \in Caller \cup {Free}
  /\ cached \in BOOLEAN
  /\ suspendedFor \in Nat

Init ==
  /\ RetryInit
  /\ call = [c \in Caller |-> "none"]
  /\ locker = Free /\ cached = FALSE /\ suspendedFor = 0

-----------------------------------------------------------------------------
(* Moving from one operation of a call to the next. *)

GoTo(c, op) == call' = [call EXCEPT ![c] = op]

\* The call's next operation stands at the Pacer.
Start(c, op) == GoTo(c, op) /\ Begin(c)

\* The call is back with its caller, or has yet to ask for the mutex.
Idle(c, op) ==
  /\ GoTo(c, op)
  /\ phase' = [phase EXCEPT ![c] = "off"]
  /\ attempt' = [attempt EXCEPT ![c] = 0]
  /\ result' = [result EXCEPT ![c] = "ok"]
  /\ UNCHANGED <<pacerVars, timer, stopping>>

Return(c) == Idle(c, "none")

\* quotaOrWrap: a quota response suspends the Provider, whatever the resume
\* time already was.
QuotaOrWrap(c) ==
  IF result[c] = "quota" THEN suspendedFor' \in Resumes ELSE UNCHANGED suspendedFor

Finished(c, op) == call[c] = op /\ phase[c] = "done"

-----------------------------------------------------------------------------
(* Search. *)

\* By hash first: the Pipeline's queries have a path.  A hash that cannot be
\* computed ends the call here, which is no step.
Search(c) ==
  /\ call[c] = "none" /\ suspendedFor = 0
  /\ Start(c, "hash")
  /\ UNCHANGED <<locker, cached, suspendedFor>>

\* Nothing found by hash: the fuzzy search is sent without another look at the
\* Suspension.
HashReturns(c) ==
  /\ Finished(c, "hash")
  /\ QuotaOrWrap(c)
  /\ \/ Return(c)
     \/ result[c] = "ok" /\ Start(c, "fuzzy")
  /\ UNCHANGED <<locker, cached>>

\* The end of a call's last operation: the fuzzy search, or the signed link.
LastReturns(c) ==
  /\ Finished(c, "fuzzy") \/ Finished(c, "get")
  /\ QuotaOrWrap(c)
  /\ Return(c)
  /\ UNCHANGED <<locker, cached>>

-----------------------------------------------------------------------------
(* Download. *)

Download(c) ==
  /\ call[c] = "none" /\ suspendedFor = 0
  /\ Idle(c, "token")
  /\ UNCHANGED <<locker, cached, suspendedFor>>

\* Mutated: the token is looked up before the mutex is taken.
TokenUnlocked(c) ==
  /\ call[c] = "token"
  /\ IF cached THEN Start(c, "link") /\ UNCHANGED locker
     ELSE Start(c, "login") /\ locker' = IF locker = Free THEN c ELSE locker
  /\ UNCHANGED <<cached, suspendedFor>>

\* Token: with the mutex, take the cached token or log in while holding it.
Token(c) ==
  /\ call[c] = "token" /\ locker = Free
  /\ IF cached THEN Start(c, "link") /\ UNCHANGED locker
     ELSE Start(c, "login") /\ locker' = c
  /\ UNCHANGED <<cached, suspendedFor>>

\* Mutated: a failed login returns with the mutex held.
LoginKeepsLock(c) ==
  /\ Finished(c, "login")
  /\ IF result[c] = "ok" THEN cached' = TRUE /\ locker' = Free /\ Start(c, "link")
     ELSE Return(c) /\ UNCHANGED <<cached, locker>>
  /\ UNCHANGED suspendedFor

\* A failed login ends the call; a quota response to it suspends nothing.
LoginReturns(c) ==
  /\ Finished(c, "login")
  /\ locker' = Free
  /\ IF result[c] = "ok" THEN cached' = TRUE /\ Start(c, "link")
     ELSE Return(c) /\ UNCHANGED cached
  /\ UNCHANGED suspendedFor

LinkReturns(c) ==
  /\ Finished(c, "link")
  /\ QuotaOrWrap(c)
  /\ CASE result[c] = "ok" -> Start(c, "get")
       [] result[c] = "unauthorized" -> Idle(c, "invalidate")
       [] OTHER -> Return(c)
  /\ UNCHANGED <<locker, cached>>

\* invalidate drops whatever token is cached, the rejected one or a newer one.
Invalidate(c) ==
  /\ call[c] = "invalidate" /\ locker = Free
  /\ cached' = FALSE
  /\ Return(c)
  /\ UNCHANGED <<locker, suspendedFor>>

-----------------------------------------------------------------------------
(* Steps of the environment, and of time. *)

Carry(c) == OperationStep(c) /\ UNCHANGED <<call, locker, cached, suspendedFor>>

ExpireToken ==
  /\ cached /\ cached' = FALSE
  /\ UNCHANGED <<retryVars, call, locker, suspendedFor>>

Tick == RetryTick /\ suspendedFor' = Elapsed(suspendedFor) /\ UNCHANGED <<call, locker, cached>>

Stop == Shutdown /\ UNCHANGED <<call, locker, cached, suspendedFor>>

\* A caller's part of a call under way, between its locks.
Proceed(c) == Carry(c) \/ HashReturns(c) \/ LastReturns(c) \/ LoginReturns(c) \/ LinkReturns(c)

Next ==
  \/ \E c \in Caller : Search(c) \/ Download(c) \/ Token(c) \/ Invalidate(c) \/ Proceed(c)
  \/ ExpireToken \/ Tick \/ Stop

Spec == Init /\ [][Next]_vars

\* A worker keeps running, Go's mutex serves every waiter in the end, and the
\* server answers or the connection breaks.
Fairness ==
  /\ WF_vars(Tick)
  /\ \A c \in Caller : WF_vars(Proceed(c)) /\ SF_vars(Token(c) \/ Invalidate(c))

FairSpec == Spec /\ Fairness

-----------------------------------------------------------------------------
(* Properties. *)

Sent(c) == phase[c] # "wire" /\ phase'[c] = "wire"

\* A request goes out only when no other is on its way and the delay the last
\* response left, a Retry-After included, has passed since that response: for
\* retries as for first attempts, whoever got the response (pacer.go, Do).
PacedDispatch ==
  [][\A c \in Caller : Sent(c) => quiet = 0 /\ \A d \in Caller : phase[d] # "wire"]_vars

\* One caller at a time logs in, and only while no token is cached, however
\* many workers find none (auth.go, Token).
SingleLogin ==
  \A c \in Caller : call[c] = "login" =>
    ~cached /\ locker = c /\ \A d \in Caller \ {c} : call[d] # "login"

\* Every Search and Download returns: retries run out, nobody waits for the
\* slot or the mutex for ever (executor.go, pacer.go, auth.go).
CallsReturn == \A c \in Caller : (call[c] # "none") ~> (call[c] = "none")

Troubled == \E c \in Caller, o \in Outcome : ~Clean(o) /\ Respond(c, o)
Observed == \E c \in Caller, o \in Outcome : o.kind # "lost" /\ Respond(c, o)

\* When the server stops answering 429 and 5xx and calls keep coming, the
\* widened delay comes down to the pace (pacer.go, observe).
DelayRecovers ==
  []<><<Observed>>_vars => ([]<>(delay <= Pace) \/ []<><<Troubled>>_vars)
=============================================================================
