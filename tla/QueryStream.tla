----------------------------- MODULE QueryStream -----------------------------
(***************************************************************************)
(* The result channel of one query: Scheduler::execute_operator starts the *)
(* producers, Processor::execute or a client of execute_stream consumes,   *)
(* and Connection::execute may give up waiting (processor/scheduler.rs,    *)
(* processor/mod.rs, lib.rs, lightning-server/src/streaming.rs).           *)
(*                                                                         *)
(* A chunk is its producer and its number.  The producers run in a pool of *)
(* num_threads threads made for the query, so each has a thread; rayon     *)
(* ends a dropped pool only when its tasks have ended.                     *)
(***************************************************************************)
EXTENDS Naturals, Sequences, FiniteSets, Functions

CONSTANTS
  num_threads,   \* threads of the pool
  Capacity,      \* of the channel: 64 in the code
  MaxChunks      \* bound on the chunks of a producer

Worker == 1..num_threads

VARIABLES
  mode,      \* "merged": one task from try_parallelize, "partitioned": a task for each
             \* thread, "inline": the operator runs on the calling thread.  Today only
             \* Sort has a try_parallelize, which never fails, and it is not parallel
             \* safe: the merged path waits for an operator that is both
  api,       \* "execute", "timed" (query_timeout_ms > 0) or "stream"
  total,     \* chunks each producer will produce,
  fails,     \* and whether get_next then returns an error
  sent,      \* chunks sent so far
  wpc,       \* "unspawned", "running" or "done"
  pc,        \* of the thread that called execute_stream
  ch_tx,     \* it still has its sender
  rx,        \* the receiver exists
  chan,      \* the channel
  results,   \* what the consumer has received
  outcome,   \* of the consumer's loop
  answer     \* what execute returned to its caller

queryVars == <<mode, api, total, fails>>
vars == <<queryVars, sent, wpc, pc, ch_tx, rx, chan, results, outcome, answer>>

Chunk(w, i) == [worker |-> w, n |-> i]
Err(w) == [worker |-> w, n |-> 0]
Item == [worker : Worker, n : 0..MaxChunks]

Producers == IF mode = "partitioned" THEN Worker ELSE {1}
Chunks == {c \in Item : c.worker \in Producers /\ c.n \in 1..total[c.worker]}

TypeOK ==
  /\ mode \in {"merged", "partitioned", "inline"}
  /\ api \in {"execute", "timed", "stream"}
  /\ total \in [Worker -> 0..MaxChunks] /\ fails \in [Worker -> BOOLEAN]
  /\ sent \in [Worker -> 0..MaxChunks] /\ \A w \in Worker : sent[w] <= total[w]
  /\ wpc \in [Worker -> {"unspawned", "running", "done"}]
  /\ pc \in {"submit", "receive", "ended"}
  /\ ch_tx \in BOOLEAN /\ rx \in BOOLEAN
  /\ chan \in Seq(Item) /\ Len(chan) <= Capacity
  /\ results \in Seq(Item)
  /\ outcome \in {"none", "ok", "error", "cancelled"}
  /\ answer \in {"none", "ok", "error", "cancelled", "timed_out"}

\* Only a pool of several threads runs an operator in parallel.
Init ==
  /\ mode \in {"inline"} \cup
               (IF num_threads > 1 THEN {"merged", "partitioned"} ELSE {})
  /\ api \in {"execute", "timed", "stream"}
  /\ total \in [Worker -> 0..MaxChunks] /\ fails \in [Worker -> BOOLEAN]
  /\ \A w \in Worker \ Producers : total[w] = 0 /\ ~fails[w]
  /\ sent = [w \in Worker |-> 0]
  /\ wpc = [w \in Worker |-> "unspawned"]
  /\ pc = "submit" /\ ch_tx = TRUE /\ rx = TRUE
  /\ chan = <<>> /\ results = <<>>
  /\ outcome = "none" /\ answer = "none"
-----------------------------------------------------------------------------
(* execute_operator *)

Spawn(w) == wpc' = [wpc EXCEPT ![w] = "running"]

\* try_parallelize gave a merged operator: one task, which takes the sender.
SpawnMerged ==
  /\ pc = "submit" /\ mode = "merged"
  /\ Spawn(1)
  /\ ch_tx' = FALSE /\ pc' = "receive"
  /\ UNCHANGED <<queryVars, sent, rx, chan, results, outcome, answer>>

\* A task for each partition, with a clone of the sender.
SpawnWorker(w) ==
  /\ pc = "submit" /\ mode = "partitioned"
  /\ wpc[w] = "unspawned" /\ \A v \in 1..w - 1 : wpc[v] # "unspawned"
  /\ Spawn(w)
  /\ UNCHANGED <<queryVars, sent, pc, ch_tx, rx, chan, results, outcome, answer>>

\* Not parallel: the calling thread itself runs the producer's loop.
RunInline ==
  /\ pc = "submit" /\ mode = "inline" /\ wpc[1] = "unspawned"
  /\ Spawn(1)
  /\ UNCHANGED <<queryVars, sent, pc, ch_tx, rx, chan, results, outcome, answer>>

Submitted ==
  /\ pc = "submit" /\ mode \in {"partitioned", "inline"}
  /\ \A w \in Producers : wpc[w] # "unspawned"
  /\ mode = "inline" => wpc[1] = "done"

ReturnReceiver_KeepsSender ==
  /\ Submitted
  /\ pc' = "receive"
  /\ UNCHANGED <<queryVars, sent, wpc, ch_tx, rx, chan, results, outcome, answer>>

\* drop(ch_tx), and the receiver goes to the consumer.
ReturnReceiver ==
  /\ Submitted
  /\ ch_tx' = FALSE /\ pc' = "receive"
  /\ UNCHANGED <<queryVars, sent, wpc, rx, chan, results, outcome, answer>>

Submit ==
  \/ SpawnMerged \/ RunInline \/ ReturnReceiver
  \/ \E w \in Worker : SpawnWorker(w)
-----------------------------------------------------------------------------
(* A producer's loop *)

CanSend_Unbounded == rx

\* send waits for room, and fails once the receiver is gone.
CanSend == rx /\ Len(chan) < Capacity

Stop(w) == wpc' = [wpc EXCEPT ![w] = "done"]

ProduceChunk(w) ==
  /\ wpc[w] = "running" /\ sent[w] < total[w]
  /\ CanSend
  /\ sent' = [sent EXCEPT ![w] = @ + 1]
  /\ chan' = Append(chan, Chunk(w, sent[w] + 1))
  /\ UNCHANGED <<queryVars, wpc, pc, ch_tx, rx, results, outcome, answer>>

ProduceError_NotSent(w) ==
  /\ wpc[w] = "running" /\ sent[w] = total[w] /\ fails[w]
  /\ Stop(w)
  /\ UNCHANGED <<queryVars, sent, chan, pc, ch_tx, rx, results, outcome, answer>>

\* An error of get_next is sent too, and is the producer's last item.
ProduceError(w) ==
  /\ wpc[w] = "running" /\ sent[w] = total[w] /\ fails[w]
  /\ CanSend
  /\ chan' = Append(chan, Err(w))
  /\ Stop(w)
  /\ UNCHANGED <<queryVars, sent, pc, ch_tx, rx, results, outcome, answer>>

\* get_next has no more, or there is nobody to send to.
ProduceEnd(w) ==
  /\ wpc[w] = "running"
  /\ (sent[w] = total[w] /\ ~fails[w]) \/ ~rx
  /\ Stop(w)
  /\ UNCHANGED <<queryVars, sent, pc, ch_tx, rx, chan, results, outcome, answer>>

Produce(w) == ProduceChunk(w) \/ ProduceError(w) \/ ProduceEnd(w)
-----------------------------------------------------------------------------
(* The consumer *)

\* However the query ends, the receiver is dropped with what the channel holds.
Leave(how) ==
  /\ pc' = "ended" /\ outcome' = how
  /\ rx' = FALSE /\ chan' = <<>>

ReceiveChunk ==
  /\ pc = "receive" /\ chan # <<>> /\ Head(chan).n > 0
  /\ results' = Append(results, Head(chan)) /\ chan' = Tail(chan)
  /\ UNCHANGED <<queryVars, sent, wpc, pc, ch_tx, rx, outcome, answer>>

ReceiveError_KeepsReceiver ==
  /\ pc = "receive" /\ chan # <<>> /\ Head(chan).n = 0
  /\ pc' = "ended" /\ outcome' = "error" /\ chan' = Tail(chan)
  /\ UNCHANGED <<queryVars, sent, wpc, ch_tx, rx, results, answer>>

\* let chunk = res?;
ReceiveError ==
  /\ pc = "receive" /\ chan # <<>> /\ Head(chan).n = 0
  /\ Leave("error")
  /\ UNCHANGED <<queryVars, sent, wpc, ch_tx, results, answer>>

\* recv fails when the channel is empty and every sender is gone.
ReceiveEnd ==
  /\ pc = "receive" /\ chan = <<>>
  /\ ~ch_tx /\ \A w \in Worker : wpc[w] # "running"
  /\ Leave("ok")
  /\ UNCHANGED <<queryVars, sent, wpc, ch_tx, results, answer>>

Receive == ReceiveChunk \/ ReceiveError \/ ReceiveEnd

\* query_stream: "Drop the receiver to cancel the query early."
HangUp ==
  /\ api = "stream" /\ pc = "receive"
  /\ Leave("cancelled")
  /\ UNCHANGED <<queryVars, sent, wpc, ch_tx, results, answer>>

\* The result reaches the caller of execute, unless it has stopped waiting.
Deliver ==
  /\ pc = "ended" /\ answer = "none"
  /\ answer' = outcome
  /\ UNCHANGED <<queryVars, sent, wpc, pc, ch_tx, rx, chan, results, outcome>>

\* recv_timeout: the query thread is not told and runs on.
TimeOut ==
  /\ api = "timed" /\ answer = "none"
  /\ answer' = "timed_out"
  /\ UNCHANGED <<queryVars, sent, wpc, pc, ch_tx, rx, chan, results, outcome>>

Next ==
  \/ Submit \/ Receive \/ HangUp \/ Deliver \/ TimeOut
  \/ \E w \in Worker : Produce(w)

\* Threads that can move are scheduled; a timeout or a client hanging up need not
\* happen, and streaming.rs receives until the channel closes.
Fairness ==
  /\ WF_vars(Submit) /\ WF_vars(Receive) /\ WF_vars(Deliver)
  /\ \A w \in Worker : WF_vars(Produce(w))

Spec == Init /\ [][Next]_vars /\ Fairness
-----------------------------------------------------------------------------
(* Properties *)

\* A query that is reported complete has delivered each chunk of each producer once
\* and in the producer's order, none of them failed, and none is still running when
\* execute goes on to commit.  A query that is reported failed has failed.
CompleteOrError ==
  /\ outcome = "ok" =>
       /\ Range(results) = Chunks /\ Len(results) = Cardinality(Chunks)
       /\ \A w \in Producers : ~fails[w] /\ wpc[w] = "done"
       /\ \A i, j \in 1..Len(results) :
            i < j /\ results[i].worker = results[j].worker => results[i].n < results[j].n
  /\ outcome = "error" => \E w \in Producers : fails[w]

\* An operator run on the calling thread gets its whole result into the channel.
Fits == mode = "inline" => total[1] + (IF fails[1] THEN 1 ELSE 0) <= Capacity

\* Every query whose result fits is answered.
Answered == Fits ~> answer # "none"

\* The threads that hold the query's transaction: it is dropped, and its snapshot
\* released for the vacuum, when there is none.
Holders ==
  {w \in Worker : wpc[w] = "running"} \cup
  (IF pc # "ended" \/ answer = "none" THEN {0} ELSE {})

\* Every thread of a query whose result fits lets go of the transaction, also after
\* an error, a client that hung up, or an execute that stopped waiting.
Released == Fits ~> [](Holders = {})
=============================================================================
