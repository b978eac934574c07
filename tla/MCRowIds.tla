------------------------------ MODULE MCRowIds ------------------------------
(* The steps in play in each run of RowIds, and what a comment says of it. *)
EXTENDS RowIds

Sequential == {"create", "fail", "rollback", "crash"}
Concurrent == Kinds \ {"crash"}
ConcurrentRollback == {"create", "rollback", "concurrent"}

\* transaction_manager.rs, rollback: the counters are not restored "when another
\* write transaction is active, to avoid clobbering its concurrently allocated ids":
\* a row whose commit returned is still there after the rollback of another.  (The
\* note "KNOWN BUG: concurrent writers on disjoint key ranges produce a final set that
\* differs from the expected union", tests/production_invariants_test.rs:434-437, is of
\* executions in which writers that conflict roll back and try again beside others.)
RollbackKeepsOthersRows ==
  \A a \in acked : a[1] < ScanBound /\ cells[a[1]] = a[2]
=============================================================================
