--------------------------- MODULE MCHTTPSServer ---------------------------
(* Two workers and three connections: a connection can be queued while both
   workers are busy, and a worker can sleep while the other serves. *)
EXTENDS HTTPSServer
=============================================================================
