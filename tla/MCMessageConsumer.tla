--------------------------- MODULE MCMessageConsumer ---------------------------
(* Instances of MessageConsumer for TLC: who runs what, and how often it retries. *)
EXTENDS MessageConsumer, TLC

CONSTANTS w1, w2, g1, g2, p1, p2, c1, id1

\* Two instances of one service, a worker each.
TwoInstances == (w1 :> p1) @@ (w2 :> p2)

\* One instance that subscribed twice, under one name.
OneInstance == (w1 :> p1) @@ (w2 :> p1)

SameName == (w1 :> c1) @@ (w2 :> c1)
SameGroup == (w1 :> g1) @@ (w2 :> g1)
OtherGroup == (w1 :> g1) @@ (w2 :> g2)
RetryOnce == (w1 :> 2) @@ (w2 :> 2)
NoRetry == (w1 :> 1) @@ (w2 :> 1)

\* One worker.
Alone == (w1 :> p1)
AloneName == (w1 :> c1)
AloneGroup == (w1 :> g1)
AloneRetries == (w1 :> 2)

=============================================================================
