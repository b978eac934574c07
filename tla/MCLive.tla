------------------------------- MODULE MCLive -------------------------------
(***************************************************************************)
(* The modules with liveness properties, checked together: "part" is       *)
(* chosen once, and the variables s1..s17 are those of the module it names.*)
(***************************************************************************)
EXTENDS Naturals, TLC

CONSTANTS a, b, c       \* threads

VARIABLES part, s1, s2, s3, s4, s5, s6, s7, s8, s9, s10, s11, s12, s13, s14, s15, s16, s17

from8 == <<s8, s9, s10, s11, s12, s13>>
from14 == <<s14, s15, s16, s17>>
vars == <<part, s1, s2, s3, s4, s5, s6, s7, from8, from14>>
-----------------------------------------------------------------------------
(* Two callers share a client. *)
C == INSTANCE ClientCalls WITH
  Caller <- {a, b}, FailureThreshold <- 2, SuccessThreshold <- 2, HalfOpenMax <- 2,
  MaxRetries <- 1,
  lang <- s1, b <- s2, pc <- s3, tries <- s4, refreshAttempts <- s5, h <- s6, held <- s7

(* Two sessions and an administrator: two requests, of one of them or at once. *)
A == INSTANCE AuthStore WITH
  Session <- {a, b}, Admin <- {c}, User <- {"u1", "u2"}, Token <- {"t1", "t2"},
  Key <- {"k1"}, MaxRestarts <- 1, MaxFailures <- 1, MaxPassword <- 2,
  Workload <- {(a :> 1 @@ b :> 1 @@ c :> 0), (a :> 1 @@ b :> 0 @@ c :> 1),
               (a :> 0 @@ b :> 0 @@ c :> 2)},
  dbUsers <- s1, dbTokens <- s2, dbKeys <- s3, users <- s4, tokens <- s5, keys <- s6,
  bloom <- s7, revoked <- s8, expired <- s9, used <- s10, op <- s11, gc <- s12,
  returned <- s13, ended <- s14, restarts <- s15, failures <- s16, left <- s17

(* Two producers and a channel of two, for results of up to three chunks. *)
Q == INSTANCE QueryStream WITH
  num_threads <- 2, Capacity <- 2, MaxChunks <- 3,
  mode <- s1, api <- s2, total <- s3, fails <- s4, sent <- s5, wpc <- s6, pc <- s7,
  ch_tx <- s8, rx <- s9, chan <- s10, results <- s11, outcome <- s12, answer <- s13
-----------------------------------------------------------------------------
Init ==
  \/ /\ part = "client" /\ C!Init
     /\ s8 = 0 /\ s9 = 0 /\ s10 = 0 /\ s11 = 0 /\ s12 = 0 /\ s13 = 0
     /\ s14 = 0 /\ s15 = 0 /\ s16 = 0 /\ s17 = 0
  \/ part = "auth" /\ A!Init
  \/ part = "stream" /\ Q!Init /\ s14 = 0 /\ s15 = 0 /\ s16 = 0 /\ s17 = 0

Client(x) == part = "client" /\ C!Step(x) /\ UNCHANGED <<part, from8, from14>>
Cool == part = "client" /\ C!Cool /\ UNCHANGED <<part, from8, from14>>

Next ==
  \/ Cool \/ \E x \in {a, b} : Client(x)
  \/ part = "auth" /\ A!Next /\ UNCHANGED part
  \/ part = "stream" /\ Q!Next /\ UNCHANGED <<part, from14>>

(* The fairness each module states, of the part that runs. *)
Fairness ==
  /\ WF_vars(Cool) /\ WF_vars(Client(a)) /\ WF_vars(Client(b))
  /\ WF_vars(part = "auth" /\ A!SessionStep(a) /\ UNCHANGED part)
  /\ WF_vars(part = "auth" /\ A!SessionStep(b) /\ UNCHANGED part)
  /\ WF_vars(part = "auth" /\ A!AdminStep(c) /\ UNCHANGED part)
  /\ WF_vars(part = "auth" /\ A!Gc /\ UNCHANGED part)
  /\ WF_vars(part = "stream" /\ Q!Submit /\ UNCHANGED <<part, from14>>)
  /\ WF_vars(part = "stream" /\ Q!Receive /\ UNCHANGED <<part, from14>>)
  /\ WF_vars(part = "stream" /\ Q!Deliver /\ UNCHANGED <<part, from14>>)
  /\ \A w \in 1..2 : WF_vars(part = "stream" /\ Q!Produce(w) /\ UNCHANGED <<part, from14>>)

Spec == Init /\ [][Next]_vars /\ Fairness
-----------------------------------------------------------------------------
(* The properties of the parts; each is stated in its module. *)

(* Every variable of every part has its type. *)
TypeOK ==
  /\ part = "client" => C!TypeOK
  /\ part = "auth" => A!TypeOK
  /\ part = "stream" => Q!TypeOK

(* The libraries' circuit breakers do only what a breaker may (ClientCalls). *)
ImplementsBreaker ==
  /\ part = "client" => C!Abstract!Init
  /\ [][part = "client" => C!Abstract!Next]_<<part, s2, s6>>

(* A breaker stays half-open for ever only when its permits are lost (ClientCalls). *)
Recovers == []<>(part = "client" => C!Recovered)

(* A call ends, whatever its attempts meet (ClientCalls). *)
BoundedCallsEnd ==
  \A x \in {a, b} :
    (part = "client" /\ C!InCall(x)) ~> (part = "client" /\ ~C!InCall(x))

(* A live credential is accepted, or will be once the collector has run (AuthStore). *)
LiveIsUsable ==
  \A x \in {"t1", "t2", "k1"} :
    (part = "auth" /\ A!Known(x)) ~> (part = "auth" /\ A!SettledUse(x))

(* A query reported complete has delivered each chunk once (QueryStream). *)
CompleteOrError == part = "stream" => Q!CompleteOrError

(* Every query whose result fits is answered (QueryStream). *)
Answered == (part = "stream" /\ Q!Fits) ~> (part = "stream" /\ s13 # "none")

(* Every thread of a query lets go of the transaction (QueryStream). *)
Released == (part = "stream" /\ Q!Fits) ~> [](part = "stream" /\ Q!Holders = {})
=============================================================================
