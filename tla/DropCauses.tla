------------------------------ MODULE DropCauses ------------------------------
(***************************************************************************)
(* Why the server may give a message up that no handler saw through and    *)
(* that is no dead letter: what can befall the last delivery of a message  *)
(* in MessageConsumer before a worker decides about it.                    *)
(***************************************************************************)
EXTENDS MessageConsumer

\* The server delivers m no more.
Spent(g, m) ==
    \/ status[g][m] = "exceeded"
    \/ status[g][m] # "new" /\ deliveries[g][m] >= maxDeliver[g]

\* Worker w has the latest delivery of m, which is the last one, and is to decide.
HasLast(w, g, m) ==
    /\ Group[w] = g
    /\ pc[w] \in Busy
    /\ ~job[w].replied
    /\ job[w].msg = m
    /\ job[w].attempt >= deliveries[g][m]
    /\ Spent(g, m)

\* A handler of the group saw m through, its key says that one did, or m is a dead letter.
SeenThrough(g, m) ==
    \/ handled[g][m] # {}
    \/ g \in Idempotent /\ KeyWasHandled(getIdempotencyKey(m))
    \/ dead[g][m] > 0

\* Nobody is going to decide about m: if no late handler does, the server drops it.
Undecided(g, m) ==
    /\ Spent(g, m)
    /\ ~SeenThrough(g, m)
    /\ \A w \in Workers : ~HasLast(w, g, m)

\* What a step of w, or of its process, does to the last delivery of m.
Befalls(w, g, m) ==
    \* It never reaches a worker.
    \/ deliveries[g][m] + 1 >= maxDeliver[g] /\ DeliveryLost(w, m)
    \* The process of its worker ends.
    \/ HasLast(w, g, m) /\ Exit(Process[w])
    \* Its dead letter cannot be built or published.
    \/ HasLast(w, g, m) /\ DeadLetterFails(w)
    \* Its worker expects another delivery.
    \/ /\ HasLast(w, g, m) /\ job[w].attempt < MaxRetries[w]
       /\ Reject(w) \/ CheckFails(w) \/ HandlerThrows(w)
    \* A subscription makes it the last one when it is over.
    \/ deliveries[g][m] >= MaxRetries[w] /\ Subscribe(w)

\* "Messages that fail after all retries go to a dead letter queue" (ARCHITECTURE.md),
\* under every fault: nobody is left to decide about a message that can go out no more
\* only because its last delivery is lost, goes with its process, cannot be buried, is
\* handed back or becomes the last one afterwards.  Slow handlers, lost replies, failing
\* Redis calls and crashes during earlier deliveries drop no message.
DroppedForCause ==
    [][\A g \in Groups, m \in 1 .. Len(log) :
          ~Undecided(g, m) /\ Undecided(g, m)' =>
              \E w \in Workers : Group[w] = g /\ Befalls(w, g, m)]_vars

=============================================================================
