----------------------------- MODULE MCDropCauses -----------------------------
(* Instances of DropCauses for TLC: those of MessageConsumer. *)
EXTENDS DropCauses, MCMessageConsumer

=============================================================================
