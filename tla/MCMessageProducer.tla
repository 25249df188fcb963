--------------------------- MODULE MCMessageProducer ---------------------------
(***************************************************************************)
(* Two publishers of "orders" whose batches share an event with a key; one *)
(* of "orders:dlq", whose subject is also the dead letter subject of       *)
(* "orders"; and one of "orders_dlq", whose stream name is the third's.    *)
(***************************************************************************)
EXTENDS MessageProducer

CONSTANTS p1, p2, p3, p4, placed, paid, dead, other, key

Batches == [p \in Publishers |->
              CASE p = p1 -> <<placed, paid>> [] p = p2 -> <<placed>>
                [] p = p3 -> <<dead>> [] p = p4 -> <<other>>]

Keying == [e \in {placed, paid, dead, other} |-> IF e = placed THEN key ELSE NoKey]

Names == [p \in Publishers |-> IF p \in {p1, p2} THEN "ORDERS" ELSE "ORDERS_DLQ"]

SubjectOf == [p \in Publishers |->
                CASE p \in {p1, p2} -> "orders" [] p = p3 -> "orders.dlq"
                  [] p = p4 -> "orders_dlq"]

DeadLetterOf == [p \in Publishers |->
                   CASE p \in {p1, p2} -> "orders.dlq" [] p = p3 -> "orders.dlq.dlq"
                     [] p = p4 -> "orders_dlq.dlq"]

FaultsOf == [p \in Publishers |-> IF p \in {p1, p2} THEN {"api", "wire"} ELSE {"api"}]

Twice == [p \in Publishers |-> IF p = p1 THEN 2 ELSE 1]

=============================================================================
