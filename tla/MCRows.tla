------------------------------- MODULE MCRows --------------------------------
(***************************************************************************)
(* Row ids and recovery, checked together: "part" is chosen                *)
(* once, and the variables s1..s23 are those of the module it names.       *)
(***************************************************************************)
EXTENDS Naturals, TLC

CONSTANTS p1, p2    \* pages

VARIABLES part, s1, s2, s3, s4, s5, s6, s7, s8, s9, s10, s11, s12, s13, s14, s15, s16, s17,
          s18, s19, s20, s21, s22, s23

Symmetric == Permutations({p1, p2})

from20 == <<s20, s21, s22, s23>>

vars == <<part, s1, s2, s3, s4, s5, s6, s7, s8, s9, s10, s11, s12, s13, s14, s15, s16, s17,
          s18, s19, from20>>
-----------------------------------------------------------------------------
(* Writers of one page, checkpoints, and crashes of the process that may tear the log. *)
D == INSTANCE Durability WITH
  Page <- {"p1"}, MaxTx <- 2, MaxCrash <- 2, MaxCheckpoint <- 1, MaxLog <- 4,
  Concurrent <- FALSE, PowerLoss <- FALSE, TornTail <- TRUE,
  mode <- s1, crashes <- s2, checkpoints <- s3, next_tx_id <- s4, current_ts <- s5,
  active_tx_ids <- s6, pc <- s7, commit_lock <- s8, own <- s9, frame <- s10,
  col_dirty <- s11, os <- s12, maybe <- s13, pending_buf <- s14, taken <- s15, wal <- s16,
  synced <- s17, torn <- s18, header <- s19, ckpt <- s20, fids <- s21, acked <- s22,
  discarded <- s23

(* Writers of two pages, and power losses, which take what was not fsynced. *)
P == INSTANCE Durability WITH
  Page <- {p1, p2}, MaxTx <- 2, MaxCrash <- 2, MaxCheckpoint <- 0, MaxLog <- 3,
  Concurrent <- FALSE, PowerLoss <- TRUE, TornTail <- FALSE,
  mode <- s1, crashes <- s2, checkpoints <- s3, next_tx_id <- s4, current_ts <- s5,
  active_tx_ids <- s6, pc <- s7, commit_lock <- s8, own <- s9, frame <- s10,
  col_dirty <- s11, os <- s12, maybe <- s13, pending_buf <- s14, taken <- s15, wal <- s16,
  synced <- s17, torn <- s18, header <- s19, ckpt <- s20, fids <- s21, acked <- s22,
  discarded <- s23

(* Transactions one after the other, through crashes. *)
S == INSTANCE RowIds WITH
  MaxTx <- 4, MaxId <- 3, MaxStmts <- 1, MaxRestarts <- 2,
  Enabled <- {"create", "fail", "rollback", "crash"},
  next_row_id <- s1, catalog <- s2, catalog_file <- s3, versions <- s4, cells <- s5,
  durable <- s6, active_tx_ids <- s7, pc <- s8, stmt <- s9, stmts <- s10, ids <- s11,
  bases <- s12, allocated <- s13, reserved <- s14, written <- s15, deleted <- s16,
  restarts <- s17, acked <- s18, retaken <- s19

(* Two transactions at once, every kind of statement, checkpoints and a shutdown. *)
R == INSTANCE RowIds WITH
  MaxTx <- 2, MaxId <- 2, MaxStmts <- 2, MaxRestarts <- 1,
  Enabled <- {"create", "merge", "batch", "fast_insert", "delete", "fail", "rollback", "drop",
              "explicit", "concurrent", "checkpoint", "close"},
  next_row_id <- s1, catalog <- s2, catalog_file <- s3, versions <- s4, cells <- s5,
  durable <- s6, active_tx_ids <- s7, pc <- s8, stmt <- s9, stmts <- s10, ids <- s11,
  bases <- s12, allocated <- s13, reserved <- s14, written <- s15, deleted <- s16,
  restarts <- s17, acked <- s18, retaken <- s19
-----------------------------------------------------------------------------
Unused == s20 = 0 /\ s21 = 0 /\ s22 = 0 /\ s23 = 0

Init ==
  \/ part = "crash" /\ D!Init
  \/ part = "power" /\ P!Init
  \/ part = "sequential" /\ S!Init /\ Unused
  \/ part = "concurrent" /\ R!Init /\ Unused

Next ==
  \/ part = "crash" /\ D!Next /\ UNCHANGED part
  \/ part = "power" /\ P!Next /\ UNCHANGED part
  \/ part = "sequential" /\ S!Next /\ UNCHANGED <<part, from20>>
  \/ part = "concurrent" /\ R!Next /\ UNCHANGED <<part, from20>>

Spec == Init /\ [][Next]_vars
-----------------------------------------------------------------------------
(* The properties of the parts; each is stated in its module. *)

(* Every variable of every part has its type. *)
TypeOK ==
  /\ part = "crash" => D!TypeOK
  /\ part = "sequential" => S!TypeOK
  /\ part = "concurrent" => R!TypeOK

(* An acknowledged commit is found after recovery (Durability). *)
Durable ==
  /\ part = "crash" => D!Durable
  /\ part = "power" => P!Durable

(* Nothing of a transaction that never started to commit is recovered, nor will be: no
   transaction id is given out again that the log knows (Durability). *)
UncommittedDiscarded == part = "crash" => D!UncommittedDiscarded /\ D!NoIdReuse

(* A row whose commit returned is kept, and is nobody else's (RowIds). *)
CommittedRowsKept ==
  /\ part = "sequential" => S!CommittedRowsKept
  /\ part = "concurrent" => R!CommittedRowsKept

(* At rest the row counters agree, and no scan finds a slot that was handed out and never
   written (RowIds). *)
RowCountsRight == part = "sequential" => S!CountAgrees /\ S!NoPhantomRows

(* An ended transaction has no row marked (RowIds). *)
MarksReleased == part = "concurrent" => R!MarksReleased
=============================================================================
