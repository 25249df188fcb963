----------------------------- MODULE MCNatsService -----------------------------
(* Two concurrent calls of one process. *)
EXTENDS NatsService

CONSTANTS n1, n2

=============================================================================
