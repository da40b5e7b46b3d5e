--------------------------- MODULE MCIngestionQueue ---------------------------
(* A server process and an edge function, a catalog job and one of NHTSA. *)
EXTENDS IngestionQueue, TLC

CONSTANTS n1, e1, nhtsa, catalog

MCWorkers == {n1, e1}
MCEdgeWorkers == {e1}
MCJobs == {nhtsa, catalog}
MCCatalogJobs == {catalog}

=============================================================================
