----------------------------- MODULE ClientCalls -----------------------------
(***************************************************************************)
(* The circuit breaker and the retry loop of the client libraries          *)
(* (packages/lightning-rust, lightning-go, lightning-client and            *)
(* python/lightning/client).  A client object is shared by concurrent      *)
(* callers; its breaker is asked once per call, before the first attempt,  *)
(* and told how the call went.  What an attempt met is an Outcome, chosen  *)
(* freely.  lang is the library whose code runs: "rust_blocking" is the    *)
(* blocking API of the Rust crate, "ts_login" the TypeScript client after  *)
(* login(), which holds a refresh token.                                   *)
(***************************************************************************)
EXTENDS Naturals, FiniteSets, Functions

CONSTANTS
  Caller,             \* threads or tasks that share the client
  FailureThreshold, SuccessThreshold, HalfOpenMax,   \* CircuitBreakerConfig
  MaxRetries          \* RetryConfig

VARIABLES
  lang,
  b,          \* the breaker: state, failure_count, success_count, half_open_requests and
              \* whether recovery_timeout has passed since last_failure_time
  pc,         \* of each call
  tries,      \* its attempt number
  refreshAttempts,   \* of the TypeScript client
  h,          \* history: what the breaker was told and whom it admitted, and the permits
              \* of this half-open period that nobody will report
  held        \* history: permits of this half-open period each call holds

vars == <<lang, b, pc, tries, refreshAttempts, h, held>>

Lang == {"rust", "rust_blocking", "go", "ts", "ts_login", "python", "python_async"}

\* What one attempt can meet: an answer, an answer whose body cannot be decoded, a status
\* the default retry set holds (429, 502, 503, 504), status 500, 401, another error
\* status, or no answer.
Outcome ==
  {"ok", "malformed", "busy_status", "status_500", "unauthorized", "refused_status",
   "timeout", "connect", "transport"}

TypeOK ==
  /\ lang \in Lang
  /\ b \in [state : {"closed", "open", "half_open"}, failures : 0..FailureThreshold,
            successes : 0..SuccessThreshold, permits : 0..HalfOpenMax, cooled : BOOLEAN]
  /\ pc \in [Caller -> {"idle", "outer", "sending", "refreshing"}]
  /\ tries \in [Caller -> 0..MaxRetries]
  /\ refreshAttempts \in 0..1
  /\ h \in [run : 0..FailureThreshold, good : 0..SuccessThreshold,
            admitted : 0..HalfOpenMax + 1, lost : Nat]
  /\ held \in [Caller -> 0..2]

Init ==
  /\ lang \in Lang
  /\ b = [state |-> "closed", failures |-> 0, successes |-> 0, permits |-> 0,
          cooled |-> FALSE]
  /\ pc = [c \in Caller |-> "idle"] /\ tries = [c \in Caller |-> 0]
  /\ refreshAttempts = 0
  /\ h = [run |-> 0, good |-> 0, admitted |-> 0, lost |-> 0]
  /\ held = [c \in Caller |-> 0]
-----------------------------------------------------------------------------
(* The breakers.  allow_request is CanAllow and, when it holds, Allow. *)

CanAllow ==
  \/ b.state = "closed"
  \/ b.state = "open" /\ b.cooled
  \/ b.state = "half_open" /\ b.permits < HalfOpenMax

ToHalfOpen_KeepsPermits(permits) ==
  [b EXCEPT !.state = "half_open", !.successes = 0]

ToHalfOpen(permits) ==
  [b EXCEPT !.state = "half_open", !.permits = permits, !.successes = 0]

ToClosed ==
  [b EXCEPT !.state = "closed", !.failures = 0, !.successes = 0, !.permits = 0]

RustAllow_KeepsSuccesses ==
  CASE b.state = "closed" -> b
    [] b.state = "open" -> [b EXCEPT !.state = "half_open", !.permits = 1]
    [] b.state = "half_open" -> [b EXCEPT !.permits = @ + 1]

RustAllow ==
  CASE b.state = "closed" -> b
    [] b.state = "open" -> ToHalfOpen(1)
    [] b.state = "half_open" -> [b EXCEPT !.permits = @ + 1]

GoAllow == RustAllow

PyAllow == RustAllow

\* The call that makes the TypeScript breaker half-open takes no permit.
TsAllow ==
  CASE b.state = "closed" -> b
    [] b.state = "open" -> ToHalfOpen(0)
    [] b.state = "half_open" -> [b EXCEPT !.permits = @ + 1]

Allow == IF lang \in {"ts", "ts_login"} THEN TsAllow
         ELSE IF lang = "go" THEN GoAllow
         ELSE IF lang \in {"python", "python_async"} THEN PyAllow ELSE RustAllow

RustOnSuccess ==
  CASE b.state = "closed" -> [b EXCEPT !.failures = 0]
    [] b.state = "open" -> b
    [] b.state = "half_open" ->
         IF b.successes + 1 >= SuccessThreshold THEN ToClosed
         ELSE [b EXCEPT !.successes = @ + 1]

GoOnSuccess == RustOnSuccess

TsOnSuccess == RustOnSuccess

PyOnSuccess == RustOnSuccess

OnSuccess == IF lang = "go" THEN GoOnSuccess
             ELSE IF lang \in {"ts", "ts_login"} THEN TsOnSuccess
             ELSE IF lang \in {"python", "python_async"} THEN PyOnSuccess
             ELSE RustOnSuccess

Failed(opened) ==
  CASE b.state = "closed" ->
         IF b.failures + 1 >= FailureThreshold
         THEN [opened EXCEPT !.failures = @ + 1]
         ELSE [b EXCEPT !.failures = @ + 1, !.cooled = FALSE]
    [] b.state = "half_open" -> opened
    [] b.state = "open" -> [b EXCEPT !.cooled = FALSE]

RustOnFailure == Failed([b EXCEPT !.state = "open", !.cooled = FALSE])

\* transitionToOpen clears the counts of the half-open period as well.
GoOnFailure ==
  Failed([b EXCEPT !.state = "open", !.cooled = FALSE, !.permits = 0, !.successes = 0])

TsOnFailure == GoOnFailure

PyOnFailure == GoOnFailure

OnFailure == IF lang = "go" THEN GoOnFailure
             ELSE IF lang \in {"ts", "ts_login"} THEN TsOnFailure
             ELSE IF lang \in {"python", "python_async"} THEN PyOnFailure
             ELSE RustOnFailure
-----------------------------------------------------------------------------
(* The retry loops: what the loop does with an outcome at attempt n.       *)

Retry(report) == [report |-> report, again |-> TRUE]
Return(report) == [report |-> report, again |-> FALSE]

\* Error::is_retryable does not look at retry_statuses, and counts 500.
RustRetryable(o) == o \in {"busy_status", "status_500", "timeout", "connect"}

RustExecute(o, n) ==
  IF o = "ok" THEN Return("success")
  ELSE IF RustRetryable(o) /\ n < MaxRetries THEN Retry("none")
  ELSE Return("failure")

\* decodeResponse runs after the success was reported.
GoDo(o, n) ==
  IF o \in {"ok", "malformed"} THEN Return("success")
  ELSE IF o \in {"busy_status", "timeout", "connect", "transport"} /\ n < MaxRetries
  THEN Retry("none")
  ELSE Return("failure")

\* A body that is not JSON fails twice, the second time outside the inner catch.
TsRequest(o, n) ==
  IF o = "ok" THEN Return("success")
  ELSE IF o \in {"busy_status", "malformed", "timeout", "connect", "transport"}
          /\ n < MaxRetries
  THEN Retry("none")
  ELSE Return("failure")

\* Every attempt with no answer is reported, the ones that are retried included.
PyRequest(o, n) ==
  IF o \in {"ok", "malformed"} THEN Return("success")
  ELSE IF o = "busy_status" /\ n < MaxRetries THEN Retry("none")
  ELSE IF o \in {"timeout", "connect"} /\ n < MaxRetries THEN Retry("failure")
  ELSE Return("failure")

PyAsyncRequest(o, n) == PyRequest(o, n)

Handle(o, n) ==
  CASE lang \in {"rust", "rust_blocking"} -> RustExecute(o, n)
    [] lang = "go" -> GoDo(o, n)
    [] lang \in {"ts", "ts_login"} -> TsRequest(o, n)
    [] lang = "python" -> PyRequest(o, n)
    [] lang = "python_async" -> PyAsyncRequest(o, n)
-----------------------------------------------------------------------------
(* History *)

Leaves(nb) == b.state = "half_open" /\ nb.state # "half_open"

\* The permits a call still holds when it ends, less the one its report settles.
Unsettled(c, settled) == IF held[c] > settled THEN held[c] - settled ELSE 0

\* A call is admitted: nb is the breaker after Allow.
NoteAdmission(c, nb) ==
  IF nb.state = "half_open"
  THEN /\ h' = IF b.state = "half_open" THEN [h EXCEPT !.admitted = @ + 1]
               ELSE [h EXCEPT !.good = 0, !.admitted = 1, !.lost = 0]
       /\ held' = IF b.state = "half_open" THEN [held EXCEPT ![c] = @ + 1]
                  ELSE [x \in Caller |-> IF x = c THEN 1 ELSE 0]
  ELSE UNCHANGED <<h, held>>

Told(report, nb) ==
  CASE report = "none" -> h
    [] report = "success" /\ b.state = "closed" -> [h EXCEPT !.run = 0]
    [] report = "success" /\ b.state = "half_open" ->
         [h EXCEPT !.good = @ + 1, !.run = IF nb.state = "closed" THEN 0 ELSE @]
    [] report = "failure" /\ b.state = "closed" -> [h EXCEPT !.run = @ + 1]
    [] OTHER -> h

NoteReport(c, report, ends, nb) ==
  /\ h' = [Told(report, nb) EXCEPT !.lost =
            IF nb.state = "half_open" /\ ends
            THEN @ + Unsettled(c, IF report = "none" THEN 0 ELSE 1) ELSE @]
  /\ held' = IF Leaves(nb) THEN [x \in Caller |-> 0]
             ELSE IF ends THEN [held EXCEPT ![c] = 0] ELSE held
-----------------------------------------------------------------------------
(* Calls *)

\* check_circuit_breaker denies the call, which returns at once.
Denied(c) == pc[c] = "idle" /\ ~CanAllow /\ UNCHANGED vars

\* It lets the call in.
Begin(c) ==
  /\ pc[c] = "idle" /\ CanAllow
  /\ b' = Allow
  /\ pc' = [pc EXCEPT ![c] = IF lang = "rust_blocking" THEN "outer" ELSE "sending"]
  /\ NoteAdmission(c, b')
  /\ UNCHANGED <<lang, tries, refreshAttempts>>

\* execute_blocking has asked the breaker and calls execute, which asks it again.
BlockingInner(c) ==
  /\ pc[c] = "outer"
  /\ \/ /\ CanAllow
        /\ b' = Allow
        /\ pc' = [pc EXCEPT ![c] = "sending"]
        /\ NoteAdmission(c, b')
     \/ /\ ~CanAllow
        /\ pc' = [pc EXCEPT ![c] = "idle"]
        /\ NoteReport(c, "none", TRUE, b)
        /\ UNCHANGED b
  /\ UNCHANGED <<lang, tries, refreshAttempts>>

Report(c, r) ==
  /\ b' = CASE r.report = "none" -> b
            [] r.report = "success" -> OnSuccess
            [] r.report = "failure" -> OnFailure
  /\ NoteReport(c, r.report, ~r.again, b')

Reply_NotCounted(c, o) ==
  /\ pc[c] = "sending"
  /\ ~(o = "unauthorized" /\ lang = "ts_login" /\ refreshAttempts < 1)
  /\ LET r == Handle(o, tries[c]) IN
     /\ Report(c, r)
     /\ pc' = [pc EXCEPT ![c] = IF r.again THEN "sending" ELSE "idle"]
     /\ tries' = [tries EXCEPT ![c] = IF r.again THEN @ ELSE 0]
     /\ refreshAttempts' = IF r.report = "success" THEN 0 ELSE refreshAttempts
  /\ UNCHANGED lang

\* An attempt ends.  The TypeScript client resets _refreshAttempts on success.
Reply(c, o) ==
  /\ pc[c] = "sending"
  /\ ~(o = "unauthorized" /\ lang = "ts_login" /\ refreshAttempts < 1)
  /\ LET r == Handle(o, tries[c]) IN
     /\ Report(c, r)
     /\ pc' = [pc EXCEPT ![c] = IF r.again THEN "sending" ELSE "idle"]
     /\ tries' = [tries EXCEPT ![c] = IF r.again THEN @ + 1 ELSE 0]
     /\ refreshAttempts' = IF r.report = "success" THEN 0 ELSE refreshAttempts
  /\ UNCHANGED lang

\* 401 and a refresh token: fetch /v1/auth/refresh first.
StartRefresh(c) ==
  /\ pc[c] = "sending" /\ lang = "ts_login" /\ refreshAttempts < 1
  /\ refreshAttempts' = refreshAttempts + 1
  /\ pc' = [pc EXCEPT ![c] = "refreshing"]
  /\ UNCHANGED <<lang, b, tries, h, held>>

\* A new token: attempt(retryCount) again, with the headers made before the first attempt.
Refreshed(c) ==
  /\ pc[c] = "refreshing"
  /\ refreshAttempts' = 0
  /\ pc' = [pc EXCEPT ![c] = "sending"]
  /\ UNCHANGED <<lang, b, tries, h, held>>

\* 401 is not retried.
RefreshFailed(c) ==
  /\ pc[c] = "refreshing"
  /\ Report(c, Return("failure"))
  /\ pc' = [pc EXCEPT ![c] = "idle"] /\ tries' = [tries EXCEPT ![c] = 0]
  /\ UNCHANGED <<lang, refreshAttempts>>

EndUnreported(c) ==
  /\ NoteReport(c, "none", TRUE, b)
  /\ pc' = [pc EXCEPT ![c] = "idle"] /\ tries' = [tries EXCEPT ![c] = 0]
  /\ UNCHANGED <<lang, b, refreshAttempts>>

\* The body cannot be encoded: do returns after the breaker let it in.
GoEncodeError(c) ==
  pc[c] = "sending" /\ lang = "go" /\ tries[c] = 0 /\ EndUnreported(c)

\* No TLS agent, or close() was called.
TsThrows(c) ==
  pc[c] = "sending" /\ lang \in {"ts", "ts_login"} /\ EndUnreported(c)

\* stream() asks the breaker and never reports to it.
PyStream(c) ==
  /\ pc[c] = "sending" /\ lang \in {"python", "python_async"} /\ tries[c] = 0
  /\ EndUnreported(c)

\* recovery_timeout has passed since last_failure_time.
Cool ==
  /\ ~b.cooled
  /\ b' = [b EXCEPT !.cooled = TRUE]
  /\ UNCHANGED <<lang, pc, tries, refreshAttempts, h, held>>

Step(c) ==
  \/ Denied(c) \/ Begin(c) \/ BlockingInner(c)
  \/ StartRefresh(c) \/ Refreshed(c) \/ RefreshFailed(c)
  \/ GoEncodeError(c) \/ TsThrows(c) \/ PyStream(c)
  \/ \E o \in Outcome : Reply(c, o)

Next == Cool \/ \E c \in Caller : Step(c)

\* Time passes, attempts end (each has a timeout), and the application goes on calling.
Fairness == WF_vars(Cool) /\ \A c \in Caller : WF_vars(Step(c))

Spec == Init /\ [][Next]_vars /\ Fairness
-----------------------------------------------------------------------------
(* Properties *)

Probes == IF lang \in {"ts", "ts_login"} THEN HalfOpenMax + 1 ELSE HalfOpenMax

Abstract == INSTANCE Breaker WITH
  state <- b.state, run <- h.run, good <- h.good, admitted <- h.admitted,
  cool <- b.cooled, probes <- Probes

\* Every library's breaker, driven by its own retry loop from several callers, with late
\* reports of calls admitted in an earlier state, does only what a breaker may: it opens
\* on a run of failures, probes after the timeout, closes on enough successes of this
\* probing period, and admits no more than half_open_max_requests probes in one (one more
\* in TypeScript, whose first probe takes no permit).
ImplementsBreaker == Abstract!Spec

\* A breaker stays half-open for ever only when permits taken by calls that never report
\* (a body that cannot be encoded, a stream, the second admission of a blocking call)
\* leave fewer than success_threshold.  (The logged-in TypeScript client is left out: a
\* probe of its may never end.)
Recovered == b.state # "half_open" \/ Probes - h.lost < SuccessThreshold \/ lang = "ts_login"
Recovers == []<>Recovered

\* A call ends, whatever its attempts meet: the retry loop is bounded.  (Again without the
\* logged-in TypeScript client, which tries again after every refresh that succeeds.)
InCall(c) == pc[c] # "idle" /\ lang # "ts_login"
BoundedCallsEnd == \A c \in Caller : InCall(c) ~> ~InCall(c)
=============================================================================
