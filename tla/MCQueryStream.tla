--------------------------- MODULE MCQueryStream ---------------------------
(***************************************************************************)
(* QueryStream for TLC, and what a comment promises about it that the code *)
(* does not keep.                                                          *)
(***************************************************************************)
EXTENDS QueryStream

\* execute_stream: chunks are yielded "as they are produced. This enables streaming
\* processing of large result sets without buffering everything in memory": a query
\* with more chunks than the channel holds ends too.
LargeResultsEnd == <>(answer # "none")
=============================================================================
