----------------------- MODULE TransactionManagerInv ------------------------
(***************************************************************************)
(* The inductive invariant behind first committer wins, and the notions it *)
(* is stated with.                                                         *)
(***************************************************************************)
EXTENDS TransactionManager

\* Rows t has published: its commit_row has run and its commit still stands.
Published(t) ==
  {r \in Writes(t) : \/ pc[t] \in {"logged", "committed"}
                     \/ pc[t] = "stamped" /\ r \notin togo[t]}

\* Rows whose mark t must still hold.
Held(t) ==
  {r \in Row : \/ pc[t] \in {"running", "locked", "failed", "dropped"}
                  /\ r \in marking[t] \cup Writes(t)
               \/ pc[t] \in {"stamped", "rolling"} /\ r \in togo[t]}

\* t's snapshot still decides what t may write.
Live(t) ==
  /\ ~is_read_only[t]
  /\ pc[t] \notin {"unborn", "has_id", "committed", "aborted", "dropped"}

\* The insert of r by c was published.
Kept(c, r) == r \in bulk_rows[c] /\ r \in Published(c)

\* Per-transaction bookkeeping.
Fields ==
  \A t \in Tx :
    /\ pc[t] = "unborn" <=> next_tx_id <= t
    /\ pc[t] \in {"unborn", "has_id", "has_ts", "is_active"}
         => modified_rows[t] = {} /\ bulk_rows[t] = {}
    /\ is_read_only[t] => modified_rows[t] = {} /\ bulk_rows[t] = {} /\ marking[t] = {}
    /\ pc[t] # "running" => marking[t] = {}
    /\ pc[t] \notin {"unborn", "has_id"} => read_ts[t] \in Ts
    /\ pc[t] = "stamped" => commit_ts[t] \in Ts
    /\ Live(t) => read_ts[t] <= current_ts
    /\ commit_ts[t] <= current_ts
    /\ togo[t] \subseteq Writes(t)

\* A transaction holds the mark of every row it still has to release.
Marks == \A t \in Tx : \A r \in Held(t) : versions[r] = t

\* t may still publish what it holds.
MayPublish(t) == pc[t] \in {"running", "locked", "failed", "stamped"}

\* ... and nobody committed such a row after its snapshot.
MarksFresh ==
  \A t \in Tx : MayPublish(t) => \A r \in Held(t) : committed[r].last_ts <= read_ts[t]

\* Rows that are written or have a history were in the data files or were
\* inserted by a transaction whose insert stands.
Allocation ==
  /\ \A t \in Tx : \A r \in Held(t) \cup Published(t) :
       r \in InitRow \/ r \in bulk_rows[t] \/ \E c \in Tx : Kept(c, r)
  /\ \A r \in Row : committed[r] # NoEntry => r \in InitRow \/ \E c \in Tx : Kept(c, r)

\* A published commit is either still in the row's history, or older than
\* every snapshot a live writer uses.
History ==
  \A a \in Tx : \A r \in Published(a) :
    \/ commit_ts[a] <= committed[r].last_ts
    \/ \A t \in Tx : Live(t) /\ t \notin raced => commit_ts[a] <= read_ts[t]

\* A running vacuum knows of every live writer's snapshot.
VacuumKnows ==
  vacuum_todo # {} =>
    \A t \in Tx : Live(t) /\ t \notin raced => vacuum_min <= read_ts[t]

\* FirstCommitterWins, row by row as rows are published.
Serialized ==
  \A a, b \in Tx :
    /\ a # b /\ a \notin raced /\ b \notin raced
    /\ Published(a) \cap Published(b) # {}
    => commit_ts[a] <= read_ts[b] \/ commit_ts[b] <= read_ts[a]

\* The part of the invariant about marks and histories.
RowsInv == Marks /\ MarksFresh /\ Allocation /\ History /\ VacuumKnows /\ Serialized

\* The inductive invariant.
IInv == TypeOK /\ Fields /\ ReadTsBalanced /\ RowsInv
-----------------------------------------------------------------------------
(* What is added to it for NoFutureRows and RecordedMarks. *)

\* t reads at the clock's value of its begin, and no vacuum overtook it.
Reader(t) ==
  /\ pc[t] \notin {"unborn", "has_id", "committed", "aborted", "dropped"}
  /\ t \notin past /\ t \notin raced

\* The first commit of a history is not after its last.
EntriesOrdered == \A r \in Row : committed[r].first_ts <= committed[r].last_ts

\* t has its commit timestamp and no error has undone it.
Stamped(t) == pc[t] \in {"stamped", "logged", "committed"} /\ ~is_read_only[t]

\* A commit is after the snapshot it was computed from.
StampsFresh == \A t \in Tx : Stamped(t) => read_ts[t] < commit_ts[t]

\* An inserted row has no history until its insert is published.
InsertsNew == \A a \in Tx : \A r \in Held(a) : r \in bulk_rows[a] => committed[r] = NoEntry

\* A running vacuum knows of every reader's snapshot, too.
VacuumKnowsReaders ==
  vacuum_todo # {} => \A t \in Tx : Reader(t) => vacuum_min <= read_ts[t]

\* An insert published after a reader's snapshot keeps the history that hides
\* it, and the reader cannot have marked it.
InsertsHidden ==
  \A a, t \in Tx : \A r \in Row :
    Kept(a, r) /\ Reader(t) /\ a # t /\ read_ts[t] < commit_ts[a]
      => /\ committed[r] # NoEntry /\ read_ts[t] < committed[r].first_ts
         /\ versions[r] # t

\* t's commit or rollback loop has passed r.
Passed(t, r) ==
  \/ pc[t] \in {"logged", "committed", "rolled", "aborted"}
  \/ pc[t] \in {"stamped", "rolling"} /\ r \notin togo[t]

\* What the loop has passed carries no mark of t.
Released == \A t \in Tx : \A r \in Writes(t) : Passed(t, r) => versions[r] # t

\* The additional part of the inductive invariant.
SnapInv ==
  /\ EntriesOrdered /\ StampsFresh /\ InsertsNew /\ VacuumKnowsReaders
  /\ InsertsHidden /\ Released
=============================================================================
