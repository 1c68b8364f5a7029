--------------------------- MODULE MCEventIndexer ---------------------------
(***************************************************************************)
(* The two processes the backend starts: the API server's, which has no    *)
(* notification queue, and the indexer's own.                              *)
(***************************************************************************)
EXTENDS EventIndexer

CONSTANTS api, worker
=============================================================================
