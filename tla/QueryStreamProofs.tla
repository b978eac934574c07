-------------------------- MODULE QueryStreamProofs --------------------------
(***************************************************************************)
(* A query that is reported complete has delivered everything: the         *)
(* invariant behind CompleteOrError of QueryStream, and its proof for any  *)
(* number of threads, any capacity of the channel and results of any size. *)
(***************************************************************************)
EXTENDS QueryStream, FiniteSetTheorems, SequenceTheorems, TLAPS

\* A pool has a thread; nothing else is assumed of the sizes.
Sizes == num_threads \in Nat \ {0} /\ Capacity \in Nat /\ MaxChunks \in Nat

\* What has been sent, in the order in which the consumer receives it.
Sent == results \o chan

\* Until the query ends, what was sent is each producer's chunks so far, in order, and last
\* its error, if it has failed; a producer that is done has sent all it had.
Flow ==
  /\ rx /\ outcome = "none"
  /\ \A w \in Worker \ Producers : wpc[w] = "unspawned"
  /\ pc = "submit" /\ mode = "merged" => wpc[1] = "unspawned"
  /\ ~ch_tx => \A w \in Producers : wpc[w] # "unspawned"
  /\ \A i \in 1..Len(results) : results[i].n > 0
  /\ \A i \in 1..Len(Sent) :
       /\ Sent[i].worker \in Producers /\ Sent[i].n <= sent[Sent[i].worker]
       /\ Sent[i].n = 0 => fails[Sent[i].worker] /\ wpc[Sent[i].worker] = "done"
  /\ \A i, j \in 1..Len(Sent) :
       i < j /\ Sent[i].worker = Sent[j].worker
         => Sent[i].n > 0 /\ (Sent[j].n = 0 \/ Sent[i].n < Sent[j].n)
  /\ \A w \in Producers : \A k \in 1..sent[w] : \E i \in 1..Len(Sent) : Sent[i] = Chunk(w, k)
  /\ \A w \in Producers : wpc[w] = "done" =>
       /\ sent[w] = total[w]
       /\ fails[w] => \E i \in 1..Len(Sent) : Sent[i] = Err(w)

StreamInv == TypeOK /\ CompleteOrError /\ (pc # "ended" => Flow)
-----------------------------------------------------------------------------
(* Types *)

LEMMA ProducersAre ==
  ASSUME Sizes
  PROVE  1 \in Worker /\ Producers \subseteq Worker
BY DEF Sizes, Worker, Producers

LEMMA ItemsAre ==
  ASSUME Sizes, TypeOK, NEW w \in Worker
  PROVE  /\ Err(w) \in Item
         /\ \A k \in 1..total[w] : Chunk(w, k) \in Item
BY DEF Sizes, TypeOK, Item, Err, Chunk

LEMMA InitTypes ==
  ASSUME Sizes, Init
  PROVE  TypeOK
<1>1. /\ total \in [Worker -> 0..MaxChunks] /\ \A w \in Worker : total[w] >= 0
      /\ sent \in [Worker -> 0..MaxChunks] /\ \A w \in Worker : sent[w] = 0
  BY DEF Init, Sizes
<1>2. \A w \in Worker : sent[w] <= total[w]
  BY Zenon, <1>1 DEF Sizes
<1>3. chan \in Seq(Item) /\ Len(chan) <= Capacity /\ results \in Seq(Item)
  BY DEF Init, Sizes
<1> QED
  BY Zenon, <1>1, <1>2, <1>3 DEF Init, TypeOK

LEMMA NextTypes ==
  ASSUME Sizes, TypeOK, [Next]_vars
  PROVE  TypeOK'
<1> USE DEF TypeOK
<1>1. CASE Submit
  <2>1. UNCHANGED <<queryVars, sent, rx, chan, results, outcome, answer>>
    BY Zenon, <1>1 DEF Submit, SpawnMerged, SpawnWorker, RunInline, ReturnReceiver
  <2>2. /\ wpc' \in [Worker -> {"unspawned", "running", "done"}]
        /\ pc' \in {"submit", "receive", "ended"} /\ ch_tx' \in BOOLEAN
    BY Zenon, <1>1 DEF Submit, SpawnMerged, SpawnWorker, RunInline, ReturnReceiver, Spawn
  <2> QED
    BY <2>1, <2>2 DEF queryVars
<1>2. CASE Receive \/ HangUp
  <2>1. UNCHANGED <<queryVars, sent, wpc, ch_tx, answer>>
    BY Zenon, <1>2 DEF Receive, ReceiveChunk, ReceiveError, ReceiveEnd, HangUp
  <2>2. /\ pc' \in {"submit", "receive", "ended"} /\ rx' \in BOOLEAN
        /\ outcome' \in {"none", "ok", "error", "cancelled"}
    BY Zenon, <1>2 DEF Receive, ReceiveChunk, ReceiveError, ReceiveEnd, HangUp, Leave
  <2>3. chan' \in Seq(Item) /\ Len(chan') <= Capacity /\ results' \in Seq(Item)
    <3>1. CASE ReceiveChunk
      <4>1. /\ chan # <<>> /\ results' = Append(results, Head(chan)) /\ chan' = Tail(chan)
        BY Zenon, <3>1 DEF ReceiveChunk
      <4> QED
        BY <4>1 DEF Sizes
    <3>2. CASE ~ReceiveChunk
      <4>1. chan' = <<>> /\ results' = results
        BY Zenon, <1>2, <3>2 DEF Receive, ReceiveError, ReceiveEnd, HangUp, Leave
      <4> QED
        BY <4>1 DEF Sizes
    <3> QED
      BY Zenon, <3>1, <3>2
  <2> QED
    BY Zenon, <2>1, <2>2, <2>3 DEF queryVars
<1>3. CASE Deliver \/ TimeOut
  BY <1>3 DEF Deliver, TimeOut, queryVars
<1>4. ASSUME NEW w \in Worker, Produce(w)
      PROVE  TypeOK'
  <2>1. UNCHANGED <<queryVars, pc, ch_tx, rx, results, outcome, answer>>
    BY Zenon, <1>4 DEF Produce, ProduceChunk, ProduceError, ProduceEnd
  <2>2. CASE ProduceChunk(w)
    <3>1. /\ sent[w] < total[w] /\ Len(chan) < Capacity /\ wpc' = wpc
          /\ sent' = [sent EXCEPT ![w] = sent[w] + 1]
          /\ chan' = Append(chan, Chunk(w, sent[w] + 1))
      BY Zenon, <2>2 DEF ProduceChunk, CanSend
    <3>2. sent[w] + 1 \in 1..total[w] /\ total[w] \in 0..MaxChunks
      BY <3>1 DEF Sizes
    <3>3. /\ sent' \in [Worker -> 0..MaxChunks] /\ \A v \in Worker : sent'[v] <= total[v]
      BY <3>1, <3>2 DEF Sizes
    <3>4. chan' \in Seq(Item) /\ Len(chan') <= Capacity
      BY <3>1, <3>2, ItemsAre DEF Sizes
    <3> QED
      BY <2>1, <3>1, <3>3, <3>4 DEF queryVars
  <2>3. CASE ProduceError(w)
    <3>1. chan' = Append(chan, Err(w)) /\ Len(chan) < Capacity /\ sent' = sent
      BY Zenon, <2>3 DEF ProduceError, CanSend
    <3>2. chan' \in Seq(Item) /\ Len(chan') <= Capacity
      BY <3>1, ItemsAre DEF Sizes
    <3>3. wpc' \in [Worker -> {"unspawned", "running", "done"}]
      BY Zenon, <2>3 DEF ProduceError, Stop
    <3> QED
      BY <2>1, <3>1, <3>2, <3>3 DEF queryVars
  <2>4. CASE ProduceEnd(w)
    BY <2>1, <2>4 DEF ProduceEnd, Stop, queryVars
  <2> QED
    BY Zenon, <1>4, <2>2, <2>3, <2>4 DEF Produce
<1>5. CASE UNCHANGED vars
  BY <1>5 DEF vars, queryVars
<1> QED
  BY Zenon, <1>1, <1>2, <1>3, <1>4, <1>5 DEF Next
-----------------------------------------------------------------------------
(* The flow of chunks *)

LEMMA SentType ==
  ASSUME TypeOK
  PROVE  Sent \in Seq(Item) /\ Len(Sent) = Len(results) + Len(chan)
BY DEF TypeOK, Sent

LEMMA SentItems ==
  ASSUME Sizes, TypeOK
  PROVE  \A i \in 1..Len(Sent) :
           Sent[i] \in Item /\ Sent[i].n \in Nat /\ Sent[i].worker \in Worker
<1>1. \A x \in Item : x.n \in Nat /\ x.worker \in Worker
  BY DEF Item, Sizes
<1>2. \A i \in 1..Len(Sent) : Sent[i] \in Item
  BY SentType
<1> QED
  BY Zenon, <1>1, <1>2

\* Sending puts an item last; receiving leaves what was sent as it is.
LEMMA Sending ==
  ASSUME TypeOK, NEW x \in Item, chan' = Append(chan, x), UNCHANGED results
  PROVE  /\ Len(Sent') = Len(Sent) + 1 /\ Sent'[Len(Sent) + 1] = x
         /\ \A i \in 1..Len(Sent) : Sent'[i] = Sent[i]
BY DEF TypeOK, Sent

LEMMA Receiving ==
  ASSUME TypeOK, chan # <<>>, results' = Append(results, Head(chan)), chan' = Tail(chan)
  PROVE  Sent' = Sent
<1>1. results \in Seq(Item) /\ chan \in Seq(Item) /\ Len(chan) > 0
  BY DEF TypeOK
<1>2. Sent \in Seq(Item) /\ Sent' \in Seq(Item) /\ Len(Sent') = Len(Sent)
  BY <1>1 DEF Sent
<1>3. \A i \in 1..Len(Sent) : Sent'[i] = Sent[i]
  BY <1>1 DEF Sent
<1> QED
  BY Zenon, <1>2, <1>3, SeqEqual

\* The producers' loop is entered once.
LEMMA FlowSpawn ==
  ASSUME Sizes, TypeOK, Flow, pc # "ended", Submit
  PROVE  Flow' /\ pc' # "ended"
<1>0. UNCHANGED <<mode, total, fails, sent, rx, chan, results, outcome, Sent, Producers>>
  BY Zenon DEF Submit, SpawnMerged, SpawnWorker, RunInline, ReturnReceiver, queryVars, Sent,
     Producers
<1>1. /\ pc' \in {"submit", "receive"}
      /\ \A w \in Worker : wpc'[w] = wpc[w] \/
           (w \in Producers /\ wpc[w] = "unspawned" /\ wpc'[w] = "running")
      /\ pc' = "submit" /\ mode = "merged" => wpc'[1] = "unspawned"
      /\ ~ch_tx' => \A w \in Producers : wpc'[w] # "unspawned"
  <2> USE ProducersAre DEF TypeOK, Flow
  <2>1. CASE SpawnMerged
    BY Zenon, <2>1 DEF SpawnMerged, Spawn, Producers
  <2>2. CASE RunInline
    BY Zenon, <2>2 DEF RunInline, Spawn, Producers
  <2>3. CASE ReturnReceiver
    BY Zenon, <2>3 DEF ReturnReceiver, Submitted
  <2>4. CASE \E v \in Worker : SpawnWorker(v)
    BY <2>4 DEF SpawnWorker, Spawn, Producers
  <2> QED
    BY Zenon, <2>1, <2>2, <2>3, <2>4 DEF Submit
<1>2. \A w \in Worker : (wpc'[w] = "done") = (wpc[w] = "done")
  BY Zenon, <1>1
<1>3. \A w \in Worker \ Producers : wpc'[w] = "unspawned"
  BY Zenon, <1>1 DEF Flow
<1>4. \A i \in 1..Len(Sent) : Sent[i].worker \in Worker
  BY Zenon, ProducersAre DEF Flow
<1> QED
  BY <1>0, <1>1, <1>2, <1>3, <1>4, ProducersAre DEF Flow

LEMMA AppendPositive ==
  ASSUME NEW q \in Seq(Item), \A i \in 1..Len(q) : q[i].n > 0, NEW e, e.n > 0
  PROVE  \A i \in 1..Len(Append(q, e)) : Append(q, e)[i].n > 0
OBVIOUS

LEMMA FlowReceive ==
  ASSUME Sizes, TypeOK, Flow, ReceiveChunk
  PROVE  Flow' /\ pc' # "ended"
<1>1. /\ chan # <<>> /\ Head(chan).n > 0 /\ pc' = "receive"
      /\ results' = Append(results, Head(chan)) /\ chan' = Tail(chan)
      /\ UNCHANGED <<mode, total, fails, sent, wpc, pc, ch_tx, rx, outcome, Producers>>
  BY Zenon DEF ReceiveChunk, queryVars, Producers
<1>2. Sent' = Sent
  BY Zenon, <1>1, Receiving
<1>3. \A i \in 1..Len(results') : results'[i].n > 0
  <2>1. results \in Seq(Item) /\ \A i \in 1..Len(results) : results[i].n > 0
    BY Zenon DEF Flow, TypeOK
  <2> QED
    BY Zenon, <1>1, <2>1, AppendPositive
<1>4. /\ rx' /\ outcome' = "none"
      /\ \A w \in Worker \ Producers' : wpc'[w] = "unspawned"
      /\ pc' = "submit" /\ mode' = "merged" => wpc'[1] = "unspawned"
      /\ ~ch_tx' => \A w \in Producers' : wpc'[w] # "unspawned"
  BY Zenon, <1>1 DEF Flow
<1>5. \A i \in 1..Len(Sent') :
        /\ Sent'[i].worker \in Producers' /\ Sent'[i].n <= sent'[Sent'[i].worker]
        /\ Sent'[i].n = 0 => fails'[Sent'[i].worker] /\ wpc'[Sent'[i].worker] = "done"
  BY Zenon, <1>1, <1>2 DEF Flow
<1>6. \A i, j \in 1..Len(Sent') :
        i < j /\ Sent'[i].worker = Sent'[j].worker
          => Sent'[i].n > 0 /\ (Sent'[j].n = 0 \/ Sent'[i].n < Sent'[j].n)
  BY Zenon, <1>2 DEF Flow
<1>7. \A w \in Producers' : \A k \in 1..sent'[w] :
        \E i \in 1..Len(Sent') : Sent'[i] = Chunk(w, k)
  <2>1. \A w \in Producers : \A k \in 1..sent[w] :
          \E i \in 1..Len(Sent) : Sent[i] = Chunk(w, k)
    BY Zenon DEF Flow
  <2> QED
    BY Zenon, <1>1, <1>2, <2>1
<1>8. \A w \in Producers' : wpc'[w] = "done" =>
        /\ sent'[w] = total'[w]
        /\ fails'[w] => \E i \in 1..Len(Sent') : Sent'[i] = Err(w)
  BY Zenon, <1>1, <1>2 DEF Flow
<1> QED
  BY Zenon, <1>1, <1>3, <1>4, <1>5, <1>6, <1>7, <1>8 DEF Flow

LEMMA FlowChunk ==
  ASSUME Sizes, TypeOK, Flow, pc # "ended", NEW w \in Worker, ProduceChunk(w)
  PROVE  Flow' /\ pc' # "ended"
<1> DEFINE x == Chunk(w, sent[w] + 1)
           m == Len(Sent) + 1
<1>1. /\ wpc[w] = "running" /\ sent[w] < total[w] /\ chan' = Append(chan, x)
      /\ sent' = [sent EXCEPT ![w] = sent[w] + 1]
      /\ UNCHANGED <<mode, total, fails, wpc, pc, ch_tx, rx, results, outcome, Producers>>
  BY Zenon DEF ProduceChunk, queryVars, Producers
<1>2. w \in Producers
  BY Zenon, <1>1 DEF Flow
<1>3. /\ sent[w] \in Nat /\ x \in Item /\ x.worker = w /\ x.n = sent[w] + 1
  <2>1. sent[w] \in Nat /\ total[w] \in Nat /\ sent[w] + 1 \in 1..total[w]
    BY <1>1 DEF TypeOK, Sizes
  <2> QED
    BY Zenon, <2>1, ItemsAre DEF Chunk
<1>4. /\ Len(Sent') = m /\ Sent'[m] = x /\ m \in Nat /\ Len(Sent) \in Nat
      /\ \A i \in 1..Len(Sent) : Sent'[i] = Sent[i]
  BY <1>1, <1>3, Sending, SentType
<1>5. \A i \in 1..m : i \in 1..Len(Sent) \/ i = m
  BY <1>4
<1>6. \A v \in Worker : v # w => sent'[v] = sent[v]
  BY Zenon, <1>1 DEF TypeOK
<1>7. sent'[w] = sent[w] + 1
  BY Zenon, <1>1 DEF TypeOK
<1>8. \A i \in 1..Len(Sent) : Sent[i] \in Item /\ Sent[i].n \in Nat /\ Sent[i].worker \in Worker
  BY Zenon, SentItems
<1>a. \A i \in 1..Len(Sent') :
        /\ Sent'[i].worker \in Producers /\ Sent'[i].n <= sent'[Sent'[i].worker]
        /\ Sent'[i].n = 0 => fails[Sent'[i].worker] /\ wpc[Sent'[i].worker] = "done"
  <2>1. ASSUME NEW i \in 1..Len(Sent)
        PROVE  /\ Sent[i].worker \in Producers /\ Sent[i].n <= sent'[Sent[i].worker]
               /\ Sent[i].n = 0 => fails[Sent[i].worker] /\ wpc[Sent[i].worker] = "done"
    BY <1>3, <1>6, <1>7, <1>8 DEF Flow
  <2>2. /\ Sent'[m].worker \in Producers /\ Sent'[m].n <= sent'[Sent'[m].worker]
        /\ Sent'[m].n # 0
    BY <1>2, <1>3, <1>4, <1>7
  <2> QED
    BY Zenon, <2>1, <2>2, <1>4, <1>5
<1>b. \A i, j \in 1..Len(Sent') :
        i < j /\ Sent'[i].worker = Sent'[j].worker
          => Sent'[i].n > 0 /\ (Sent'[j].n = 0 \/ Sent'[i].n < Sent'[j].n)
  <2>1. ASSUME NEW i \in 1..Len(Sent), Sent[i].worker = w
        PROVE  Sent[i].n > 0 /\ Sent[i].n < x.n
    BY SMTT(30), <2>1, <1>1, <1>3, <1>8 DEF Flow
  <2>2. ASSUME NEW i \in 1..m, NEW j \in 1..m, i < j
        PROVE  i \in 1..Len(Sent)
    BY <2>2, <1>4
  <2> QED
    BY <2>1, <2>2, <1>3, <1>4, <1>5 DEF Flow
<1>c. \A v \in Producers : \A k \in 1..sent'[v] : \E i \in 1..Len(Sent') : Sent'[i] = Chunk(v, k)
  <2>1. ASSUME NEW v \in Producers, NEW k \in 1..sent'[v]
        PROVE  \E i \in 1..m : Sent'[i] = Chunk(v, k)
    <3>1. CASE v = w /\ k = sent[w] + 1
      BY <3>1, <1>4
    <3>2. CASE ~(v = w /\ k = sent[w] + 1)
      <4>1. k \in 1..sent[v]
        BY <3>2, <1>3, <1>6, <1>7, ProducersAre
      <4>2. PICK i \in 1..Len(Sent) : Sent[i] = Chunk(v, k)
        BY <4>1 DEF Flow
      <4> QED
        BY <4>2, <1>4
    <3> QED
      BY Zenon, <3>1, <3>2
  <2> QED
    BY Zenon, <2>1, <1>4
<1>d. \A v \in Producers : wpc[v] = "done" =>
        /\ sent'[v] = total[v]
        /\ fails[v] => \E i \in 1..Len(Sent') : Sent'[i] = Err(v)
  <2>1. ASSUME NEW v \in Producers, wpc[v] = "done"
        PROVE  /\ sent'[v] = total[v]
               /\ fails[v] => \E i \in 1..Len(Sent') : Sent'[i] = Err(v)
    BY <2>1, <1>1, <1>4, <1>5, <1>6, ProducersAre DEF Flow
  <2> QED
    BY Zenon, <2>1
<1> QED
  BY <1>1, <1>a, <1>b, <1>c, <1>d DEF Flow

\* A producer stops: it has sent everything, and its error if there is one.
LEMMA FlowStop ==
  ASSUME Sizes, TypeOK, Flow, pc # "ended", NEW w \in Worker, ProduceError(w) \/ ProduceEnd(w)
  PROVE  Flow' /\ pc' # "ended"
<1>1. /\ wpc[w] = "running" /\ sent[w] = total[w] /\ wpc' = [wpc EXCEPT ![w] = "done"]
      /\ UNCHANGED <<mode, total, fails, sent, pc, ch_tx, rx, results, outcome, Producers>>
      /\ (fails[w] /\ chan' = Append(chan, Err(w))) \/ (~fails[w] /\ chan' = chan)
  BY Zenon DEF ProduceError, ProduceEnd, Stop, queryVars, Producers, Flow
<1>2. w \in Producers
  BY Zenon, <1>1 DEF Flow
<1>3. \A v \in Worker : wpc'[v] = IF v = w THEN "done" ELSE wpc[v]
  BY Zenon, <1>1 DEF TypeOK
<1>4. \A i \in 1..Len(Sent) : Sent[i] \in Item /\ Sent[i].n \in Nat /\ Sent[i].worker \in Worker
  BY Zenon, SentItems
<1>5. /\ Len(Sent) \in Nat
      /\ \A i \in 1..Len(Sent) : Sent'[i] = Sent[i]
      /\ \/ fails[w] /\ Len(Sent') = Len(Sent) + 1 /\ Sent'[Len(Sent) + 1] = Err(w)
         \/ ~fails[w] /\ Len(Sent') = Len(Sent)
  <2>1. CASE ~fails[w]
    BY SMTT(30), <2>1, <1>1, SentType DEF Sent
  <2>2. CASE fails[w]
    BY <2>2, <1>1, Sending, SentType, ItemsAre
  <2> QED
    BY Zenon, <2>1, <2>2
<1>6. Err(w).worker = w /\ Err(w).n = 0
  BY Zenon DEF Err
<1>7. \A i \in 1..Len(Sent') :
        i \in 1..Len(Sent) \/ (fails[w] /\ i = Len(Sent) + 1 /\ Sent'[i] = Err(w))
  BY <1>5
<1>a. \A i \in 1..Len(Sent') :
        /\ Sent'[i].worker \in Producers /\ Sent'[i].n <= sent[Sent'[i].worker]
        /\ Sent'[i].n = 0 => fails[Sent'[i].worker] /\ wpc'[Sent'[i].worker] = "done"
  <2>1. sent[w] \in Nat
    BY DEF TypeOK, Sizes
  <2>2. ASSUME NEW i \in 1..Len(Sent)
        PROVE  /\ Sent[i].worker \in Producers /\ Sent[i].n <= sent[Sent[i].worker]
               /\ Sent[i].n = 0 => fails[Sent[i].worker] /\ wpc'[Sent[i].worker] = "done"
    BY Zenon, <1>3, <1>4 DEF Flow
  <2> QED
    BY <2>1, <2>2, <1>2, <1>3, <1>5, <1>6, <1>7
<1>b. \A i, j \in 1..Len(Sent') :
        i < j /\ Sent'[i].worker = Sent'[j].worker
          => Sent'[i].n > 0 /\ (Sent'[j].n = 0 \/ Sent'[i].n < Sent'[j].n)
  <2>1. ASSUME NEW i \in 1..Len(Sent), Sent[i].worker = w
        PROVE  Sent[i].n > 0
    BY <2>1, <1>1, <1>4 DEF Flow
  <2>2. ASSUME NEW i \in 1..Len(Sent'), NEW j \in 1..Len(Sent'), i < j
        PROVE  i \in 1..Len(Sent)
    BY <2>2, <1>5
  <2> QED
    BY <2>1, <2>2, <1>5, <1>6, <1>7 DEF Flow
<1>c. \A v \in Producers : \A k \in 1..sent[v] : \E i \in 1..Len(Sent') : Sent'[i] = Chunk(v, k)
  BY <1>5 DEF Flow
<1>d. \A v \in Producers : wpc'[v] = "done" =>
        /\ sent[v] = total[v]
        /\ fails[v] => \E i \in 1..Len(Sent') : Sent'[i] = Err(v)
  BY <1>1, <1>3, <1>5, ProducersAre DEF Flow
<1>e. /\ \A v \in Worker \ Producers : wpc'[v] = "unspawned"
      /\ pc = "submit" /\ mode = "merged" => wpc'[1] = "unspawned"
      /\ ~ch_tx => \A v \in Producers : wpc'[v] # "unspawned"
  BY <1>1, <1>2, <1>3, ProducersAre DEF Flow, Producers
<1> QED
  BY Zenon, <1>1, <1>a, <1>b, <1>c, <1>d, <1>e DEF Flow
-----------------------------------------------------------------------------
(* The end of a query *)

\* A sequence without repetitions is as long as its set of elements is large.
LEMMA OnceEach ==
  ASSUME NEW S, NEW q \in Seq(S), \A i, j \in 1..Len(q) : q[i] = q[j] => i = j
  PROVE  Len(q) = Cardinality(Range(q))
<1>1. Len(q) \in Nat /\ DOMAIN q = 1..Len(q)
  OBVIOUS
<1>2. q \in Bijection(1..Len(q), Range(q))
  <2>1. q \in [1..Len(q) -> Range(q)]
    BY <1>1 DEF Range
  <2>2. \A y \in Range(q) : \E i \in 1..Len(q) : q[i] = y
    BY Zenon, <1>1 DEF Range
  <2> QED
    BY Zenon, <2>1, <2>2 DEF Bijection, Injection, Surjection, IsInjective
<1>3. ExistsBijection(1..Len(q), Range(q))
  BY Zenon, <1>2 DEF ExistsBijection
<1>4. IsFiniteSet(1..Len(q)) /\ Cardinality(1..Len(q)) = Len(q)
  <2>1. IsFiniteSet(1..Len(q)) /\ Cardinality(1..Len(q)) = IF 1 > Len(q) THEN 0 ELSE Len(q) - 1 + 1
    BY SMTT(30), <1>1, FS_Interval
  <2> QED
    BY <1>1, <2>1
<1> QED
  BY Zenon, <1>3, <1>4, FS_Bijection

LEMMA EndsComplete ==
  ASSUME Sizes, TypeOK, Flow, ReceiveEnd
  PROVE  CompleteOrError'
<1>1. /\ chan = <<>> /\ ~ch_tx /\ outcome' = "ok"
      /\ \A w \in Worker : wpc[w] # "running"
      /\ UNCHANGED <<mode, total, fails, sent, wpc, results, Producers, Chunks>>
  BY Zenon DEF ReceiveEnd, Leave, queryVars, Producers, Chunks
<1>2. Sent = results /\ results \in Seq(Item) /\ Len(results) \in Nat
      /\ DOMAIN results = 1..Len(results)
  BY <1>1 DEF Sent, TypeOK
<1>3. \A w \in Producers : wpc[w] = "done"
  BY <1>1, ProducersAre DEF Flow, TypeOK
<1>4. \A w \in Producers : ~fails[w] /\ sent[w] = total[w]
  <2>1. \A w \in Producers : \A i \in 1..Len(results) : results[i] # Err(w)
    <3>1. \A w : Err(w).n = 0
      BY Zenon DEF Err
    <3>2. \A i \in 1..Len(results) : results[i].n # 0
      BY <1>2 DEF Flow
    <3> QED
      BY Zenon, <3>1, <3>2
  <2> QED
    BY <1>2, <1>3, <2>1 DEF Flow
<1>5. \A i \in 1..Len(results) :
        /\ results[i] \in Item /\ results[i].n \in Nat /\ results[i].n > 0
        /\ results[i].worker \in Producers /\ results[i].n <= total[results[i].worker]
  BY Zenon, <1>2, <1>4, SentItems DEF Flow
<1>6. \A i, j \in 1..Len(results) :
        i < j /\ results[i].worker = results[j].worker => results[i].n < results[j].n
  BY <1>2, <1>5 DEF Flow
<1>7. Range(results) = Chunks
  <2>1. \A c \in Range(results) : c \in Chunks
    <3>1. \A w \in Producers : total[w] \in Nat
      BY ProducersAre DEF TypeOK, Sizes
    <3> QED
      BY <1>2, <1>5, <3>1 DEF Range, Chunks
  <2>2. ASSUME NEW c \in Chunks
        PROVE  c \in Range(results)
    <3>1. c \in Item /\ c.worker \in Producers /\ c.n \in 1..total[c.worker]
      BY Zenon, <2>2 DEF Chunks
    <3>2. c = Chunk(c.worker, c.n)
      BY Zenon, <3>1 DEF Chunk, Item
    <3>3. \E i \in 1..Len(results) : results[i] = Chunk(c.worker, c.n)
      BY <1>2, <1>4, <3>1 DEF Flow
    <3> QED
      BY Zenon, <1>2, <3>2, <3>3 DEF Range
  <2> QED
    BY Zenon, <2>1, <2>2
<1>8. \A i, j \in 1..Len(results) : results[i] = results[j] => i = j
  BY <1>2, <1>5, <1>6
<1>9. Len(results) = Cardinality(Chunks)
  BY Zenon, <1>2, <1>7, <1>8, OnceEach
<1> QED
  BY Zenon, <1>1, <1>3, <1>4, <1>6, <1>7, <1>9 DEF CompleteOrError

LEMMA EndsFailed ==
  ASSUME Sizes, TypeOK, Flow, ReceiveError
  PROVE  CompleteOrError'
<1>1. /\ chan # <<>> /\ Head(chan).n = 0 /\ outcome' = "error"
      /\ UNCHANGED <<fails, Producers>>
  BY Zenon DEF ReceiveError, Leave, queryVars, Producers
<1>2. Len(results) + 1 \in 1..Len(Sent) /\ Sent[Len(results) + 1] = Head(chan)
  BY <1>1 DEF Sent, TypeOK
<1>3. \E w \in Producers : fails[w]
  BY Zenon, <1>1, <1>2 DEF Flow
<1> QED
  BY Zenon, <1>1, <1>3 DEF CompleteOrError

LEMMA NextStream ==
  ASSUME Sizes, StreamInv, [Next]_vars
  PROVE  StreamInv'
<1>0. TypeOK /\ CompleteOrError /\ TypeOK'
  BY Zenon, NextTypes DEF StreamInv
<1>1. CASE pc = "ended"
  <2>1. /\ pc' = "ended" /\ UNCHANGED <<mode, total, fails, results, outcome, Producers, Chunks>>
        /\ \A w \in Worker : wpc[w] = "done" => wpc'[w] = "done"
    <3>1. CASE \E w \in Worker : Produce(w)
      BY Zenon, <1>0, <1>1, <3>1 DEF Produce, ProduceChunk, ProduceError, ProduceEnd, Stop,
         queryVars,
                              Producers, Chunks, TypeOK
    <3>2. CASE Submit \/ Receive \/ HangUp
      BY Zenon, <1>1, <3>2 DEF Submit, SpawnMerged, SpawnWorker, RunInline, ReturnReceiver,
         Submitted,
                        Receive, ReceiveChunk, ReceiveError, ReceiveEnd, HangUp
    <3>3. CASE Deliver \/ TimeOut \/ UNCHANGED vars
      BY Zenon, <1>1, <3>3 DEF Deliver, TimeOut, vars, queryVars, Producers, Chunks
    <3> QED
      BY Zenon, <3>1, <3>2, <3>3 DEF Next
  <2> QED
    BY Zenon, <1>0, <2>1, ProducersAre DEF CompleteOrError, StreamInv
<1>2. CASE pc # "ended"
  <2>0. Flow
    BY Zenon, <1>2 DEF StreamInv
  <2>1. CASE Flow' /\ pc' # "ended"
    <3>1. CompleteOrError'
      BY Zenon, <2>1 DEF Flow, CompleteOrError
    <3> QED
      BY Zenon, <1>0, <2>1, <3>1 DEF StreamInv
  <2>2. CASE CompleteOrError' /\ pc' = "ended"
    BY Zenon, <1>0, <2>2 DEF StreamInv
  <2>3. CASE Submit
    BY Zenon, <1>0, <1>2, <2>0, <2>1, <2>3, FlowSpawn
  <2>4. CASE Receive \/ HangUp
    <3>1. CASE ReceiveChunk
      BY Zenon, <1>0, <2>0, <2>1, <3>1, FlowReceive
    <3>2. CASE ReceiveError
      BY Zenon, <1>0, <2>0, <2>2, <3>2, EndsFailed DEF ReceiveError, Leave
    <3>3. CASE ReceiveEnd
      BY Zenon, <1>0, <2>0, <2>2, <3>3, EndsComplete DEF ReceiveEnd, Leave
    <3>4. CASE HangUp
      BY Zenon, <2>2, <3>4 DEF HangUp, Leave, CompleteOrError
    <3> QED
      BY Zenon, <2>4, <3>1, <3>2, <3>3, <3>4 DEF Receive
  <2>5. ASSUME NEW w \in Worker, Produce(w)
        PROVE  StreamInv'
    BY Zenon, <1>0, <1>2, <2>0, <2>1, <2>5, FlowChunk, FlowStop DEF Produce
  <2>6. CASE Deliver \/ TimeOut \/ UNCHANGED vars
    <3>1. UNCHANGED <<mode, total, fails, sent, wpc, pc, ch_tx, rx, chan, results, outcome>>
      BY Zenon, <2>6 DEF Deliver, TimeOut, vars, queryVars
    <3>2. UNCHANGED <<Producers, Sent>>
      BY Zenon, <3>1 DEF Producers, Sent
    <3> QED
      BY <1>2, <2>0, <2>1, <3>1, <3>2 DEF Flow
  <2> QED
    BY Zenon, <2>3, <2>4, <2>5, <2>6 DEF Next
<1> QED
  BY Zenon, <1>1, <1>2

LEMMA InitStream ==
  ASSUME Sizes, Init
  PROVE  StreamInv
<1>1. TypeOK
  BY Zenon, InitTypes
<1>2. Sent = <<>> /\ Len(Sent) = 0 /\ Len(results) = 0
  BY DEF Init, Sent
<1>3. \A w \in Worker : wpc[w] = "unspawned" /\ sent[w] = 0
  BY Zenon DEF Init
<1>4. rx = TRUE /\ outcome = "none" /\ ch_tx = TRUE
  BY Zenon DEF Init
<1>5. Flow
  BY <1>2, <1>3, <1>4, ProducersAre DEF Flow
<1> QED
  BY Zenon, <1>1, <1>5 DEF StreamInv, CompleteOrError, Flow

\* Every variable of the result channel has its type, and the channel never holds more than its
\* capacity.
THEOREM StreamTypes ==
  ASSUME Sizes
  PROVE  Spec => []TypeOK
<1>1. Init => TypeOK
  BY Zenon, InitTypes
<1>2. TypeOK /\ [Next]_vars => TypeOK'
  BY Zenon, NextTypes
<1> QED
  BY <1>1, <1>2, PTL DEF Spec

\* A query that is reported complete has delivered every chunk of every producer once and in
\* order, with no producer failed or running; one that is reported failed has failed.  However
\* many producers there are, however they interleave, and whoever hangs up or stops waiting.
THEOREM Complete ==
  ASSUME Sizes
  PROVE  Spec => []CompleteOrError
<1>1. Init => StreamInv
  BY Zenon, InitStream
<1>2. StreamInv /\ [Next]_vars => StreamInv'
  BY Zenon, NextStream
<1>3. StreamInv => CompleteOrError
  BY Zenon DEF StreamInv
<1> QED
  BY <1>1, <1>2, <1>3, PTL DEF Spec
=============================================================================
