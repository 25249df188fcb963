--------------------------- MODULE DropCausesProofs ---------------------------
(***************************************************************************)
(* The theorem about DropCauses: under every fault and with any            *)
(* maxRetries, nobody is left to decide about a message for no cause.      *)
(***************************************************************************)
EXTENDS DropCauses, DeadLetterProofs

LEMMA AccountedIsSeen ==
    ASSUME NEW g, NEW m \in 1 .. Len(log)
    PROVE  Accounted(g, m) <=> SeenThrough(g, m)
<1>. QED
  BY DEF Accounted, Witnessed, SeenThrough

LEMMA AccountedStaysSeen ==
    ASSUME NEW g, NEW m, Accounted(g, m)'
    PROVE  SeenThrough(g, m)'
<1>. QED
  BY DEF Accounted, Witnessed, SeenThrough

\* The delivery that uses a message up reaches a worker or is lost.
LEMMA LastGoesOut ==
    ASSUME TypeInv, NEW g \in Groups, NEW m \in Messages, Undecided(g, m)',
           NEW w \in Workers, Group[w] = g, Deliver(w, m) \/ DeliveryLost(w, m)
    PROVE  Befalls(w, g, m)
<1>1. HandOut(g, m)
  BY DEF Deliver, DeliveryLost
<1>2. deliveries[g][m] \in Nat /\ deliveries'[g][m] = deliveries[g][m] + 1
  BY <1>1 DEF HandOut, TypeInv, StreamTypeOK
<1>3. ~Deliver(w, m)
  <2>. SUFFICES ASSUME Deliver(w, m) PROVE HasLast(w, g, m)'
    BY DEF Undecided
  <2>1. /\ pc'[w] = "received" /\ job'[w].msg = m /\ ~job'[w].replied
        /\ job'[w].attempt = deliveries[g][m] + 1
    BY DEF Deliver, TypeInv, WorkerTypeOK
  <2>2. Spent(g, m)'
    BY DEF Undecided
  <2>. QED
    BY <1>2, <2>1, <2>2 DEF HasLast, Busy
<1>4. status'[g][m] = "pending" /\ maxDeliver' = maxDeliver
  BY <1>1 DEF HandOut, TypeInv, StreamTypeOK
<1>5. deliveries[g][m] + 1 >= maxDeliver[g]
  BY <1>2, <1>4 DEF Undecided, Spent
<1>. QED
  BY <1>3, <1>5 DEF Befalls

\* A message can be used up without going out: a subscription lowers max_deliver.
LEMMA Lowered ==
    ASSUME TypeInv, [Next]_vars, NEW g \in Groups, NEW m \in Messages,
           status[g][m] # "new", ~Spent(g, m), Spent(g, m)', deliveries'[g][m] = deliveries[g][m]
    PROVE  \E w \in Workers : Group[w] = g /\ Befalls(w, g, m)
<1>1. status'[g][m] # "exceeded"
  BY GivenUp DEF Spent, Exceed
<1>2. /\ deliveries[g][m] \in Nat /\ maxDeliver[g] \in Nat
      /\ deliveries[g][m] >= maxDeliver'[g] /\ maxDeliver'[g] # maxDeliver[g]
  BY <1>1 DEF Spent, TypeInv, StreamTypeOK
<1>3. PICK w \in Workers : Subscribe(w)
  BY <1>2, MaxDeliverEffect
<1>4. Group[w] = g /\ maxDeliver'[g] = MaxRetries[w]
  BY <1>2, <1>3 DEF Subscribe, TypeInv, StreamTypeOK
<1>. QED
  BY <1>2, <1>3, <1>4 DEF Befalls

\* The worker with the last delivery keeps it, sees it through, or lets it go for a cause.
LEMMA LastHolderMoves ==
    ASSUME TypeInv, AckInv, [Next]_vars, NEW g \in Groups, NEW m \in Messages,
           NEW w \in Workers, HasLast(w, g, m), Undecided(g, m)',
           deliveries'[g][m] = deliveries[g][m]
    PROVE  Befalls(w, g, m)
<1>1. Holds(w) /\ g = Group[w] /\ m = job[w].msg
  BY DEF HasLast, Holds
<1>2. ASSUME Holds(w)', job'[w].msg = m, job'[w].attempt = job[w].attempt PROVE FALSE
  <2>1. HasLast(w, g, m)'
    BY <1>2 DEF HasLast, Holds, Undecided
  <2>. QED
    BY <2>1 DEF Undecided
<1>3. ~Accounted(g, m)'
  BY AccountedStaysSeen DEF Undecided
<1>4. \/ /\ job[w].attempt < MaxRetries[w]
         /\ Reject(w) \/ CheckFails(w) \/ HandlerThrows(w)
      \/ DeadLetterFails(w)
      \/ Exit(Process[w])
  BY <1>1, <1>2, <1>3, HolderMoves
<1>. QED
  BY <1>4 DEF Befalls

LEMMA CauseOfStep ==
    ASSUME TypeInv, AckInv, [Next]_vars, NEW g \in Groups, NEW m \in 1 .. Len(log),
           ~Undecided(g, m), Undecided(g, m)'
    PROVE  \E w \in Workers : Group[w] = g /\ Befalls(w, g, m)
<1>1. m \in Messages
  BY LogInMessages
<1>2. CASE \E w \in Workers : Group[w] = g /\ (Deliver(w, m) \/ DeliveryLost(w, m))
  BY <1>1, <1>2, LastGoesOut
<1>3. CASE deliveries'[g][m] = deliveries[g][m] /\ (status[g][m] = "new" => status'[g][m] = "new")
  <2>1. status[g][m] # "new" /\ Spent(g, m)'
    BY <1>3 DEF Undecided, Spent
  <2>2. CASE ~Spent(g, m)
    BY <1>1, <1>3, <2>1, <2>2, Lowered
  <2>3. ~SeenThrough(g, m)
    BY <1>1, AccountedIsSeen, AccountedGrows, AccountedStaysSeen DEF Undecided
  <2>4. ASSUME NEW w \in Workers, HasLast(w, g, m) PROVE Group[w] = g /\ Befalls(w, g, m)
    BY <1>1, <1>3, <2>4, LastHolderMoves DEF HasLast
  <2>. QED
    BY <2>2, <2>3, <2>4 DEF Undecided
<1>. QED
  BY <1>1, <1>2, <1>3, GoesOut

\* Under every fault and with any maxRetries, nobody is left to decide about a message
\* that goes out no more only because its last delivery was lost, went with its process,
\* could not be buried, was handed back or became the last one afterwards.
THEOREM DropsHaveCauses == Spec => DroppedForCause
<1>1. TypeInv /\ AckInv /\ [Next]_vars
        => [\A g \in Groups, m \in 1 .. Len(log) :
              ~Undecided(g, m) /\ Undecided(g, m)' =>
                  \E w \in Workers : Group[w] = g /\ Befalls(w, g, m)]_vars
  BY CauseOfStep
<1>2. Spec => []AckInv
  BY TypesInvariant, AckInit, AckNext, PTL DEF Spec
<1>. QED
  BY <1>1, <1>2, TypesInvariant, PTL DEF Spec, DroppedForCause

=============================================================================
