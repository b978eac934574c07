-------------------------- MODULE ClientCallsProofs --------------------------
(***************************************************************************)
(* The circuit breaker of every client library, driven by its retry loop   *)
(* from any number of callers, implements Breaker.                         *)
(***************************************************************************)
EXTENDS ClientCalls, TLAPS

\* CircuitBreakerConfig holds unsigned numbers.
Sizes == FailureThreshold \in Nat /\ SuccessThreshold \in Nat /\ HalfOpenMax \in Nat

TypeScript == lang \in {"ts", "ts_login"}

Breakers ==
  [state : {"closed", "open", "half_open"}, failures : Nat, successes : Nat, permits : Nat,
   cooled : BOOLEAN]
Histories == [run : Nat, good : Nat, admitted : Nat, lost : Nat]

\* The library's counts are what the abstract breaker counts, while they matter: the
\* failures when closed, the successes and the permits when half-open.
Counts ==
  /\ b.state = "closed" => b.failures = h.run
  /\ b.state = "half_open" =>
       /\ b.successes = h.good
       /\ h.admitted = IF TypeScript THEN b.permits + 1 ELSE b.permits

CInv == lang \in Lang /\ b \in Breakers /\ h \in Histories /\ held \in [Caller -> Nat] /\ Counts

\* A breaker step together with what history notes of it.
Simulates == CInv' /\ [Abstract!Next]_(Abstract!vars)
-----------------------------------------------------------------------------
LEMMA InitCounts == Init => CInv
BY DEF Init, CInv, Counts, Breakers, Histories, Lang

\* allow_request and the note of it.
LEMMA Admission ==
  ASSUME Sizes, CInv, NEW c \in Caller, CanAllow, b' = Allow, NoteAdmission(c, b'), lang' = lang
  PROVE  Simulates
<1> USE DEF Sizes, CInv, Breakers, Histories
<1>1. CASE b.state = "closed"
  <2>1. b' = b
    BY <1>1 DEF Allow, RustAllow, GoAllow, TsAllow, PyAllow
  <2>2. h' = h /\ held' = held
    BY <1>1, <2>1 DEF NoteAdmission
  <2> QED
    BY <2>1, <2>2 DEF Simulates, Counts, TypeScript, Abstract!vars, Abstract!counts, Probes
<1>2. CASE b.state = "open"
  <2>1. b' = ToHalfOpen(IF TypeScript THEN 0 ELSE 1) /\ b.cooled
    BY <1>2, Zenon DEF Allow, RustAllow, GoAllow, TsAllow, PyAllow, TypeScript, CanAllow
  <2>2. /\ h' = [h EXCEPT !.good = 0, !.admitted = 1, !.lost = 0]
        /\ held' = [x \in Caller |-> IF x = c THEN 1 ELSE 0]
    BY <1>2, <2>1 DEF NoteAdmission, ToHalfOpen
  <2>3. Abstract!StartProbing
    BY <1>2, <2>1, <2>2, Zenon DEF Abstract!StartProbing, ToHalfOpen, Probes
  <2>4. b' \in Breakers
    <3>1. \A n \in Nat : ToHalfOpen(n) \in Breakers
      BY Zenon DEF ToHalfOpen
    <3> QED
      BY <2>1, <3>1
  <2>5. h' \in Histories /\ held' \in [Caller -> Nat]
    BY <2>2, Zenon
  <2>6. Counts' /\ lang' \in Lang
    BY <2>1, <2>2 DEF Counts, ToHalfOpen, TypeScript
  <2> QED
    BY <2>3, <2>4, <2>5, <2>6 DEF Simulates, Abstract!Next
<1>3. CASE b.state = "half_open"
  <2>1. b' = [b EXCEPT !.permits = @ + 1] /\ b.permits < HalfOpenMax
    BY <1>3 DEF Allow, RustAllow, GoAllow, TsAllow, PyAllow, TypeScript, CanAllow
  <2>2. h' = [h EXCEPT !.admitted = @ + 1] /\ held' = [held EXCEPT ![c] = @ + 1]
    BY <1>3, <2>1 DEF NoteAdmission
  <2>3. Abstract!Probe
    BY <1>3, <2>1, <2>2 DEF Abstract!Probe, Probes, Counts, TypeScript
  <2>4. CInv'
    BY <1>3, <2>1, <2>2 DEF Counts, TypeScript
  <2> QED
    BY <2>3, <2>4 DEF Simulates, Abstract!Next
<1> QED
  BY <1>1, <1>2, <1>3

\* The permits history has counted as lost are of no concern to the breaker.
LEMMA Noted ==
  ASSUME CInv, NEW c \in Caller, NEW report, NEW ends \in BOOLEAN, NEW nb \in Breakers,
         NoteReport(c, report, ends, nb), Told(report, nb) \in Histories
  PROVE  /\ h' \in Histories /\ held' \in [Caller -> Nat]
         /\ h'.run = Told(report, nb).run /\ h'.good = Told(report, nb).good
         /\ h'.admitted = Told(report, nb).admitted
<1>1. \A n \in {0, 1} : Unsettled(c, n) \in Nat
  BY DEF Unsettled, CInv
<1>2. held' \in [Caller -> Nat]
  BY DEF NoteReport, CInv
<1> DEFINE T == Told(report, nb)
<1>3. \E n \in Nat : h' = [T EXCEPT !.lost = n]
  BY <1>1, SMTT(30) DEF NoteReport, Histories
<1> HIDE DEF T
<1>4. T \in Histories
  BY DEF T
<1>5. /\ h' \in Histories /\ h'.run = T.run /\ h'.good = T.good /\ h'.admitted = T.admitted
  BY <1>3, <1>4 DEF Histories
<1> QED
  BY <1>2, <1>5 DEF T

\* A call ends, or goes on, without a report.
LEMMA Silent ==
  ASSUME CInv, NEW c \in Caller, NEW ends \in BOOLEAN, NoteReport(c, "none", ends, b), b' = b,
         lang' = lang
  PROVE  Simulates
<1>1. Told("none", b) = h
  BY DEF Told
<1>2. /\ h' \in Histories /\ held' \in [Caller -> Nat]
      /\ h'.run = h.run /\ h'.good = h.good /\ h'.admitted = h.admitted
  BY <1>1, Noted DEF CInv
<1> QED
  BY <1>2 DEF Simulates, CInv, Counts, TypeScript, Abstract!vars, Abstract!counts, Probes

\* on_success.
LEMMA Succeeded ==
  ASSUME Sizes, CInv, NEW c \in Caller, NEW ends \in BOOLEAN, b' = OnSuccess,
         NoteReport(c, "success", ends, b'), lang' = lang
  PROVE  Simulates
<1> USE DEF Sizes, CInv, Breakers, Histories
<1>0. b' = RustOnSuccess
  BY DEF OnSuccess, GoOnSuccess, TsOnSuccess, PyOnSuccess
<1>1. CASE b.state = "closed"
  <2>1. b' = [b EXCEPT !.failures = 0]
    BY <1>0, <1>1 DEF RustOnSuccess
  <2>2. Told("success", b') = [h EXCEPT !.run = 0]
    BY <1>1 DEF Told
  <2>3. /\ h' \in Histories /\ held' \in [Caller -> Nat]
        /\ h'.run = 0 /\ h'.good = h.good /\ h'.admitted = h.admitted
    BY <2>1, <2>2, Noted
  <2>4. Abstract!Success
    BY <1>1, <2>1, <2>3 DEF Abstract!Success, Probes
  <2> QED
    BY <1>1, <2>1, <2>3, <2>4 DEF Simulates, Counts, Abstract!Next
<1>2. CASE b.state = "open"
  <2>1. b' = b
    BY <1>0, <1>2 DEF RustOnSuccess
  <2>2. Told("success", b') = h
    BY <1>2 DEF Told
  <2>3. /\ h' \in Histories /\ held' \in [Caller -> Nat]
        /\ h'.run = h.run /\ h'.good = h.good /\ h'.admitted = h.admitted
    BY <2>1, <2>2, Noted
  <2> QED
    BY <1>2, <2>1, <2>3 DEF Simulates, Counts, Abstract!vars, Abstract!counts, Probes
<1>3. CASE b.state = "half_open"
  <2>1. b' = IF b.successes + 1 >= SuccessThreshold THEN ToClosed
             ELSE [b EXCEPT !.successes = @ + 1]
    BY <1>0, <1>3 DEF RustOnSuccess
  <2>2. b' \in Breakers
    <3>1. ToClosed \in Breakers
      BY Zenon DEF ToClosed
    <3>2. [b EXCEPT !.successes = @ + 1] \in Breakers
      OBVIOUS
    <3> QED
      BY <2>1, <3>1, <3>2
  <2>3. Told("success", b') =
          [h EXCEPT !.good = @ + 1, !.run = IF b'.state = "closed" THEN 0 ELSE @]
    BY <1>3 DEF Told
  <2>4. /\ h' \in Histories /\ held' \in [Caller -> Nat]
        /\ h'.run = (IF b'.state = "closed" THEN 0 ELSE h.run)
        /\ h'.good = h.good + 1 /\ h'.admitted = h.admitted
    <3>1. Told("success", b') \in Histories
      <4>1. \A m, n \in Nat : [h EXCEPT !.good = m, !.run = n] \in Histories
        OBVIOUS
      <4>2. h.good + 1 \in Nat /\ (IF b'.state = "closed" THEN 0 ELSE h.run) \in Nat
        OBVIOUS
      <4> QED
        BY <2>3, <4>1, <4>2, ZenonT(30)
    <3>2. h' \in Histories /\ held' \in [Caller -> Nat]
      BY <2>2, <3>1, Noted
    <3>3. /\ h'.run = Told("success", b').run /\ h'.good = Told("success", b').good
          /\ h'.admitted = Told("success", b').admitted
      BY <2>2, <3>1, Noted
    <3> QED
      BY <2>3, <3>2, <3>3, Zenon
  <2>5. b.successes = h.good
    BY <1>3 DEF Counts
  <2>6. Abstract!ProbeSucceeded
    BY <1>3, <2>1, <2>4, <2>5 DEF Abstract!ProbeSucceeded, Probes, ToClosed
  <2>7. CInv'
    BY <1>3, <2>1, <2>2, <2>4 DEF Counts, TypeScript, ToClosed
  <2> QED
    BY <2>6, <2>7 DEF Simulates, Abstract!Next
<1> QED
  BY <1>1, <1>2, <1>3

\* on_failure.  Only Rust keeps the counts of the half-open period, and they do not matter.
LEMMA FailureReported ==
  ASSUME Sizes, CInv, NEW c \in Caller, NEW ends \in BOOLEAN, b' = OnFailure,
         NoteReport(c, "failure", ends, b'), lang' = lang
  PROVE  Simulates
<1> USE DEF Sizes, CInv, Breakers, Histories
<1>0. PICK opened \in Breakers :
        /\ b' = Failed(opened)
        /\ opened.state = "open" /\ ~opened.cooled /\ opened.failures = b.failures
  <2> DEFINE kept == [b EXCEPT !.state = "open", !.cooled = FALSE]
             cleared == [b EXCEPT !.state = "open", !.cooled = FALSE, !.permits = 0,
                                  !.successes = 0]
  <2>1. /\ kept \in Breakers /\ kept.state = "open" /\ ~kept.cooled
        /\ kept.failures = b.failures
    OBVIOUS
  <2>2. /\ cleared \in Breakers /\ cleared.state = "open" /\ ~cleared.cooled
        /\ cleared.failures = b.failures
    OBVIOUS
  <2>3. b' = Failed(kept) \/ b' = Failed(cleared)
    BY DEF OnFailure, GoOnFailure, TsOnFailure, PyOnFailure, RustOnFailure
  <2> HIDE DEF kept, cleared
  <2> QED
    BY <2>1, <2>2, <2>3
<1>1. CASE b.state = "closed"
  <2>1. b' = IF b.failures + 1 >= FailureThreshold THEN [opened EXCEPT !.failures = @ + 1]
             ELSE [b EXCEPT !.failures = @ + 1, !.cooled = FALSE]
    BY <1>0, <1>1 DEF Failed
  <2>2. b' \in Breakers
    <3>1. [opened EXCEPT !.failures = @ + 1] \in Breakers
      BY <1>0
    <3>2. \A n \in Nat : [b EXCEPT !.failures = n, !.cooled = FALSE] \in Breakers
      OBVIOUS
    <3>3. [b EXCEPT !.failures = @ + 1, !.cooled = FALSE] \in Breakers
      <4>1. b.failures + 1 \in Nat
        OBVIOUS
      <4> QED
        BY <3>2, <4>1, Zenon
    <3> QED
      BY <2>1, <3>1, <3>3, Zenon
  <2>3. Told("failure", b') = [h EXCEPT !.run = @ + 1]
    BY <1>1 DEF Told
  <2>4. /\ h' \in Histories /\ held' \in [Caller -> Nat]
        /\ h'.run = h.run + 1 /\ h'.good = h.good /\ h'.admitted = h.admitted
    BY <2>2, <2>3, Noted
  <2>5. b.failures = h.run
    BY <1>1 DEF Counts
  <2>6. Abstract!Failure
    BY <1>0, <1>1, <2>1, <2>4, <2>5 DEF Abstract!Failure, Probes
  <2>7. CInv'
    BY <1>0, <1>1, <2>1, <2>2, <2>4, <2>5 DEF Counts
  <2> QED
    BY <2>6, <2>7 DEF Simulates, Abstract!Next
<1>2. CASE b.state # "closed"
  <2>1. b' \in Breakers /\ b'.state = "open" /\ ~b'.cooled
    <3>1. CASE b.state = "half_open"
      <4>1. b' = opened
        BY <1>0, <3>1 DEF Failed
      <4> HIDE DEF Sizes, CInv, Breakers, Histories
      <4> QED
        BY <1>0, <4>1, Zenon
    <3>2. CASE b.state = "open"
      <4>1. b' = [b EXCEPT !.cooled = FALSE]
        BY <1>0, <3>2 DEF Failed
      <4>2. /\ [b EXCEPT !.cooled = FALSE] \in Breakers
            /\ [b EXCEPT !.cooled = FALSE].state = "open"
            /\ ~[b EXCEPT !.cooled = FALSE].cooled
        BY <3>2
      <4> HIDE DEF Sizes, CInv, Breakers, Histories
      <4> QED
        BY <4>1, <4>2, Zenon
    <3> QED
      BY <1>2, <3>1, <3>2
  <2>2. Told("failure", b') = h
    BY <1>2 DEF Told
  <2>3. /\ h' \in Histories /\ held' \in [Caller -> Nat]
        /\ h'.run = h.run /\ h'.good = h.good /\ h'.admitted = h.admitted
    BY <2>1, <2>2, Noted
  <2>4. Abstract!LateFailure \/ Abstract!ProbeFailed
    BY <1>2, <2>1, <2>3 DEF Abstract!LateFailure, Abstract!ProbeFailed, Abstract!counts, Probes
  <2> QED
    BY <2>1, <2>3, <2>4 DEF Simulates, Counts, Abstract!Next
<1> QED
  BY <1>1, <1>2

\* What the retry loop does with a result.
LEMMA ReportSimulates ==
  ASSUME Sizes, CInv, NEW c \in Caller, NEW r, r.again \in BOOLEAN,
         r.report \in {"none", "success", "failure"}, Report(c, r), lang' = lang
  PROVE  Simulates
<1>1. CASE r.report = "none"
  BY <1>1, Silent, Zenon DEF Report
<1>2. CASE r.report = "success"
  BY <1>2, Succeeded, Zenon DEF Report
<1>3. CASE r.report = "failure"
  BY <1>3, FailureReported, Zenon DEF Report
<1> QED
  BY <1>1, <1>2, <1>3

LEMMA HandleType ==
  ASSUME lang \in Lang, NEW o, NEW n
  PROVE  /\ Handle(o, n).again \in BOOLEAN
         /\ Handle(o, n).report \in {"none", "success", "failure"}
<1>1. \A x \in {"none", "success", "failure"} :
        /\ Retry(x).again = TRUE /\ Retry(x).report = x
        /\ Return(x).again = FALSE /\ Return(x).report = x
  BY DEF Retry, Return
<1>2. Handle(o, n) \in {Retry("none"), Retry("failure"), Return("success"), Return("failure")}
  BY DEF Handle, RustExecute, GoDo, TsRequest, PyRequest, PyAsyncRequest, Lang
<1> QED
  BY <1>1, <1>2, Zenon

LEMMA StepSimulates ==
  ASSUME Sizes, CInv, [Next]_vars
  PROVE  Simulates
<1> USE DEF vars
<1>s. ASSUME UNCHANGED <<lang, b, h, held>>
      PROVE  Simulates
  BY <1>s DEF Simulates, CInv, Counts, TypeScript, Abstract!vars, Abstract!counts, Probes
<1>1. CASE UNCHANGED vars
  BY <1>1, <1>s
<1>2. CASE Cool
  <2>1. Abstract!Cool
    BY <1>2 DEF Cool, CInv, Breakers, Abstract!Cool, Abstract!counts, Probes
  <2>2. CInv'
    BY <1>2, Zenon DEF Cool, CInv, Breakers, Counts, TypeScript
  <2> QED
    BY <2>1, <2>2 DEF Simulates, Abstract!Next
<1>3. ASSUME NEW c \in Caller, Step(c)
      PROVE  Simulates
  <2>1. CASE Denied(c) \/ StartRefresh(c) \/ Refreshed(c)
    BY <2>1, <1>s DEF Denied, StartRefresh, Refreshed
  <2>2. CASE Begin(c)
    BY <2>2, Admission DEF Begin
  <2>3. CASE BlockingInner(c)
    BY <2>3, Admission, Silent, Zenon DEF BlockingInner
  <2>4. CASE RefreshFailed(c)
    <3>1. /\ Return("failure").again \in BOOLEAN
          /\ Return("failure").report \in {"none", "success", "failure"}
      BY DEF Return
    <3>2. Report(c, Return("failure")) /\ lang' = lang
      BY <2>4 DEF RefreshFailed
    <3> QED
      BY <3>1, <3>2, ReportSimulates
  <2>5. CASE GoEncodeError(c) \/ TsThrows(c) \/ PyStream(c)
    BY <2>5, Silent, Zenon DEF GoEncodeError, TsThrows, PyStream, EndUnreported
  <2>6. CASE \E o \in Outcome : Reply(c, o)
    BY <2>6, HandleType, ReportSimulates DEF Reply, CInv
  <2> QED
    BY <1>3, <2>1, <2>2, <2>3, <2>4, <2>5, <2>6 DEF Step
<1> QED
  BY <1>1, <1>2, <1>3, SMTT(30) DEF Next

\* The breaker of every client library, asked and told by any number of concurrent callers
\* through the library's own retry loop, late reports, unreported calls and refreshes
\* included, does only what Breaker allows, for every configuration.
THEOREM BreakerImplemented ==
  ASSUME Sizes
  PROVE  Spec => ImplementsBreaker
<1>1. Init => CInv
  BY InitCounts
<1>2. CInv /\ [Next]_vars => CInv' /\ [Abstract!Next]_(Abstract!vars)
  BY StepSimulates DEF Simulates
<1>3. Init => Abstract!Init
  BY DEF Init, Abstract!Init, Probes, Sizes
<1> QED
  BY <1>1, <1>2, <1>3, PTL DEF Spec, ImplementsBreaker, Abstract!Spec
=============================================================================
