------------------------ MODULE MCTransactionManager ------------------------
(***************************************************************************)
(* TransactionManager for TLC, and what a comment promises about it that   *)
(* the code does not keep.                                                 *)
(***************************************************************************)
EXTENDS TransactionManager

\* lib.rs, execute(): the autocommit transaction is rolled back "so
\* partially-applied writes and row-version marks don't leak into future
\* transactions (e.g. after a write-write conflict)".
RollbackLeavesNoMark ==
  \A r \in Row : \A t \in Tx : versions[r] = t => pc[t] # "aborted"
=============================================================================
