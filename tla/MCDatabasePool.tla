--------------------------- MODULE MCDatabasePool ---------------------------
(* Four handler threads compete for two connections, twice each. *)
EXTENDS DatabasePool

=============================================================================
