---------------------------- MODULE DeadLetterProofs ----------------------------
(***************************************************************************)
(* Theorems about MessageConsumer that hold where some fault is absent:    *)
(* what the dead letters are complete for, and what an idempotency key     *)
(* prevents.  Each names the faults it excludes; MessageConsumerProofs has *)
(* what holds under all of them.                                           *)
(***************************************************************************)
EXTENDS MessageConsumerProofs, FiniteSetTheorems

\* Dead letters are not lost.
DeadLettersArrive == "dlq" \notin Faults /\ "malformed" \notin Bodies

LEMMA WellFormed ==
    ASSUME TypeInv, "malformed" \notin Bodies, NEW k \in 1 .. Len(log)
    PROVE  log[k].body # "malformed" /\ log[k].id \in Ids \union {NoId}
<1>1. log[k] \in Envelopes
  BY DEF TypeInv, StreamTypeOK
<1>. QED
  BY <1>1 DEF Envelopes

LEMMA DeadGrows ==
    ASSUME TypeInv, [Next]_vars, NEW g \in Groups, NEW m \in Messages
    PROVE  dead[g][m] \in Nat /\ dead'[g][m] >= dead[g][m]
<1>1. ASSUME NEW w \in Workers, moveToDeadLetterQueue(w)
      PROVE  dead'[g][m] \in {dead[g][m], dead[g][m] + 1}
  <2>1. Group[w] \in Groups /\ job[w].msg \in Messages
    BY <1>1, BusyMessage DEF moveToDeadLetterQueue, Busy
  <2>. QED
    BY <1>1, <2>1 DEF moveToDeadLetterQueue, TypeInv, HistoryTypeOK
<1>. QED
  BY <1>1, DeadEffect DEF TypeInv, HistoryTypeOK

-----------------------------------------------------------------------------
(* Terminated messages *)

\* A terminated message, and one whose termination is on its way, has a dead letter.
TermInv ==
    /\ \A g \in Groups, m \in Messages : status[g][m] = "termed" => dead[g][m] > 0
    /\ \A r \in replies : r.kind = "term" => dead[r.group][r.msg] > 0

\* Only moveToDeadLetterQueue terminates a message.
LEMMA TermReplies ==
    ASSUME DeadLettersArrive, TypeInv, [Next]_vars, NEW r \in replies', r \notin replies,
           r.kind = "term"
    PROVE  \E w \in Workers :
             moveToDeadLetterQueue(w) /\ r.group = Group[w] /\ r.msg = job[w].msg
<1>1. ASSUME NEW w \in Workers, Respond(w, "ack") \/ Respond(w, "nak")
      PROVE  FALSE
  BY <1>1 DEF Respond
<1>2. ASSUME NEW w \in Workers, DeadLetterFails(w)
      PROVE  FALSE
  BY <1>2, BusyMessage, WellFormed DEF DeadLetterFails, DeadLettersArrive, Busy
<1>3. ASSUME NEW w \in Workers, WorkerStep(w)
      PROVE  moveToDeadLetterQueue(w) /\ r.group = Group[w] /\ r.msg = job[w].msg
  <2>1. CASE moveToDeadLetterQueue(w)
    BY <2>1 DEF moveToDeadLetterQueue, Respond
  <2>2. CASE ~moveToDeadLetterQueue(w)
    BY <1>1, <1>2, <1>3, <2>2
    DEF WorkerStep, streamVars, StartLoop, Deliver, HandOut, NextExpires, ResumeLoop, Accept,
        Reject, Fail, CheckDuplicate, CheckFails, HandlerSucceeds, HandlerThrows, Acknowledge,
        MarkProcessed, MarkFails
  <2>. QED
    BY <2>1, <2>2
<1>4. CASE \E s \in replies : ReplyArrives(s) \/ ReplyLost(s)
  BY <1>4 DEF ReplyArrives, ApplyReply, ReplyLost, LoseReply
<1>. QED
  BY <1>3, <1>4
  DEF Next, vars, streamVars, Publish, Store, Subscribe, StartLoopFails, DeliveryLost, HandOut,
      NextThrows, AckWaitExpires, Expire, GiveUp, Exceed, MessageIdExpires, WindowExpires,
      KeyExpires, unsubscribe, onModuleDestroy, Exit

LEMMA TermStatus ==
    ASSUME TypeInv, [Next]_vars, NEW g \in Groups, NEW m \in Messages, status'[g][m] = "termed"
    PROVE  \/ status[g][m] = "termed"
           \/ \E r \in replies : r.kind = "term" /\ r.group = g /\ r.msg = m
<1>. USE ConsumerAssumption DEF TypeInv, StreamTypeOK
<1>1. ASSUME NEW h \in Groups, NEW k \in Messages, HandOut(h, k)
      PROVE  status[g][m] = "termed"
  BY <1>1 DEF HandOut
<1>2. ASSUME NEW r \in replies, ApplyReply(r), status[g][m] # "termed"
      PROVE  r.kind = "term" /\ r.group = g /\ r.msg = m
  BY <1>2 DEF ApplyReply, AfterReply, Replies
<1>3. ASSUME NEW h \in Groups, NEW k \in Messages, AckWaitExpires(h, k) \/ Exceed(h, k)
      PROVE  status[g][m] = "termed"
  <2>1. Expire(h, k) \/ Exceed(h, k)
    BY <1>3 DEF AckWaitExpires
  <2>2. CASE Expire(h, k)
    BY <2>2 DEF Expire
  <2>3. CASE Exceed(h, k)
    BY <2>3 DEF Exceed
  <2>. QED
    BY <2>1, <2>2, <2>3
<1>. QED
  BY <1>1, <1>2, <1>3, StatusEffect

LEMMA TermNext ==
    ASSUME DeadLettersArrive, TypeInv, TermInv, [Next]_vars
    PROVE  TermInv'
<1>1. ASSUME NEW g \in Groups, NEW m \in Messages, dead[g][m] > 0
      PROVE  dead'[g][m] > 0
  <2>1. dead[g][m] \in Nat /\ dead'[g][m] >= dead[g][m] /\ dead'[g][m] \in Nat
    BY DeadGrows, TypeNext DEF TypeInv, HistoryTypeOK
  <2>. QED
    BY <1>1, <2>1
<1>2. ASSUME NEW r \in replies PROVE r.group \in Groups /\ r.msg \in Messages
  BY DEF TypeInv, StreamTypeOK, Replies
<1>3. ASSUME NEW g \in Groups, NEW m \in Messages, status'[g][m] = "termed"
      PROVE  dead'[g][m] > 0
  <2>1. dead[g][m] > 0
    BY <1>3, TermStatus DEF TermInv
  <2>. QED
    BY <1>1, <2>1
<1>4. ASSUME NEW r \in replies', r.kind = "term" PROVE dead'[r.group][r.msg] > 0
  <2>1. CASE r \in replies
    BY <1>1, <1>2, <1>4, <2>1 DEF TermInv
  <2>2. CASE r \notin replies
    <3>1. PICK w \in Workers : moveToDeadLetterQueue(w) /\ r.group = Group[w] /\ r.msg = job[w].msg
      BY <1>4, <2>2, TermReplies
    <3>2. Group[w] \in Groups /\ job[w].msg \in Messages
      BY <3>1, BusyMessage DEF moveToDeadLetterQueue, Busy
    <3>3. dead[r.group][r.msg] \in Nat /\ dead'[r.group][r.msg] = dead[r.group][r.msg] + 1
      BY <3>1, <3>2 DEF moveToDeadLetterQueue, TypeInv, HistoryTypeOK
    <3>. QED
      BY <3>3
  <2>. QED
    BY <2>1, <2>2
<1>. QED
  BY <1>3, <1>4 DEF TermInv

\* Where dead letters arrive, no worker terminates a message without one, through
\* crashes, lost deliveries and replies, and Redis calls that fail.
THEOREM TerminationsAreDeadLettered ==
    ASSUME DeadLettersArrive
    PROVE  Spec => []TermedAreDeadLettered
<1>1. Init => TermInv
  BY DEF Init, StreamInit, TermInv
<1>2. TypeInv /\ TermInv /\ [Next]_vars => TermInv'
  BY TermNext
<1>3. TermInv => TermedAreDeadLettered
  BY DEF TermInv, TermedAreDeadLettered
<1>. QED
  BY <1>1, <1>2, <1>3, TypesInvariant, PTL DEF Spec

-----------------------------------------------------------------------------
(* Messages the server gives up *)

\* Every delivery reaches a worker that decides about it before its ack wait ends;
\* replies, handlers and Redis calls fail as they like.
WorkersDecide ==
    /\ Faults \intersect {"crash", "shutdown", "network", "slow"} = {}
    /\ DeadLettersArrive
    /\ UniformRetries

\* Idempotency keys stand for one message of one group.
OwnKeys == \A g, h \in Idempotent : g = h /\ Ids = {}

\* The handler saw m, by what the group can know, or m is a dead letter.
Accounted(g, m) ==
    \/ m \in 1 .. Len(log) /\ Witnessed(g, m)
    \/ dead[g][m] > 0

\* A worker has the latest delivery of m and will decide about it.
LastHeld(g, m) ==
    \E w \in Workers :
        Group[w] = g /\ Holds(w) /\ job[w].msg = m /\ job[w].attempt >= deliveries[g][m]

DropInv ==
    /\ isShuttingDown = {}
    /\ \A g \in Groups, m \in Messages :
         /\ status[g][m] # "new" /\ deliveries[g][m] >= maxDeliver[g] =>
              Accounted(g, m) \/ LastHeld(g, m)
         /\ status[g][m] = "exceeded" => Accounted(g, m)

DecidedInv == TypeInv /\ AckInv /\ DeadInv /\ PromptInv /\ DropInv

LEMMA AccountedGrows ==
    ASSUME TypeInv, [Next]_vars, NEW g \in Groups, NEW m \in Messages, Accounted(g, m)
    PROVE  Accounted(g, m)'
<1>1. CASE m \in 1 .. Len(log) /\ Witnessed(g, m)
  BY <1>1, WitnessedGrows DEF Accounted
<1>2. CASE dead[g][m] > 0
  <2>1. dead[g][m] \in Nat /\ dead'[g][m] \in Nat /\ dead'[g][m] >= dead[g][m]
    BY DeadGrows, TypeNext DEF TypeInv, HistoryTypeOK
  <2>. QED
    BY <1>2, <2>1 DEF Accounted
<1>. QED
  BY <1>1, <1>2 DEF Accounted

LEMMA NoExits ==
    ASSUME WorkersDecide, DropInv, NEW p \in Processes
    PROVE  ~Exit(p) /\ ~onModuleDestroy(p)
<1>. QED
  BY DEF WorkersDecide, DropInv, Exit, onModuleDestroy

\* A worker that holds a message keeps it, accounts for it, hands it back for another
\* delivery, or lets it go undecided.
LEMMA HolderMoves ==
    ASSUME TypeInv, AckInv, [Next]_vars, NEW w \in Workers, Holds(w),
           NEW g, g = Group[w], NEW m, m = job[w].msg
    PROVE  \/ Holds(w)' /\ job'[w].msg = m /\ job'[w].attempt = job[w].attempt
           \/ Accounted(g, m)'
           \/ /\ job[w].attempt < MaxRetries[w]
              /\ Reject(w) \/ CheckFails(w) \/ HandlerThrows(w)
           \/ DeadLetterFails(w)
           \/ Exit(Process[w])
<1>1. /\ pc[w] \in Busy /\ g \in Groups /\ m \in Messages /\ m \in 1 .. Len(log)
      /\ pc \in [Workers -> Points] /\ job \in [Workers -> Jobs] /\ ~job[w].replied
      /\ job[w].attempt \in Nat /\ MaxRetries[w] \in Nat
  BY BusyMessage, ConsumerAssumption DEF Holds, TypeInv, WorkerTypeOK
<1>. DEFINE Kept == Holds(w)' /\ job'[w].msg = m /\ job'[w].attempt = job[w].attempt
<1>2. ASSUME NEW point \in Busy, GoTo(w, point) PROVE Kept
  BY <1>1, <1>2 DEF GoTo, Holds
<1>3. ASSUME Fail(w) PROVE Kept \/ job[w].attempt < MaxRetries[w]
  BY <1>1, <1>2, <1>3 DEF Fail, Busy
<1>4. ASSUME Accounted(g, m) PROVE Accounted(g, m)'
  BY <1>1, <1>4, AccountedGrows
<1>. DEFINE Returned == /\ job[w].attempt < MaxRetries[w]
                        /\ Reject(w) \/ CheckFails(w) \/ HandlerThrows(w)
<1>5. ASSUME Reject(w) \/ CheckFails(w) \/ HandlerThrows(w)
      PROVE  Kept \/ Returned
  <2>1. Fail(w)
    BY <1>5 DEF Reject, CheckFails, HandlerThrows
  <2>. QED
    BY <1>3, <1>5, <2>1
<1>6. ASSUME Accept(w) \/ HandlerSucceeds(w) PROVE Kept
  BY <1>2, <1>6 DEF Accept, HandlerSucceeds, Busy
<1>7. ASSUME CheckDuplicate(w) PROVE Kept \/ Accounted(g, m)'
  <2>1. CASE getIdempotencyKey(m) \in keys
    <3>1. Group[w] \in Idempotent /\ KeyWasHandled(getIdempotencyKey(m))
      BY <1>7, <2>1 DEF CheckDuplicate, AckInv
    <3>. QED
      BY <1>1, <1>4, <3>1 DEF Accounted, Witnessed
  <2>2. CASE getIdempotencyKey(m) \notin keys
    BY <1>2, <1>7, <2>2 DEF CheckDuplicate, Busy
  <2>. QED
    BY <2>1, <2>2
<1>8. ASSUME pc[w] \in {"ack", "mark"} PROVE Accounted(g, m)'
  <2>1. Accounted(g, m)
    BY <1>1, <1>8 DEF AckInv, Accounted, Witnessed
  <2>. QED
    BY <1>4, <2>1
<1>9. ASSUME moveToDeadLetterQueue(w) PROVE Accounted(g, m)'
  <2>1. dead[g][m] \in Nat /\ dead'[g][m] = dead[g][m] + 1
    BY <1>1, <1>9 DEF moveToDeadLetterQueue, TypeInv, HistoryTypeOK
  <2>. QED
    BY <2>1 DEF Accounted
<1>10. ASSUME WorkerStep(w) \/ StartLoopFails(w) \/ NextThrows(w) \/ Subscribe(w)
       PROVE  Kept \/ Accounted(g, m)' \/ Returned \/ DeadLetterFails(w)
  <2>1. ~(\/ StartLoopFails(w) \/ NextThrows(w) \/ Subscribe(w) \/ StartLoop(w)
          \/ NextExpires(w) \/ ResumeLoop(w) \/ \E k \in Messages : Deliver(w, k))
    BY <1>1 DEF StartLoopFails, NextThrows, Subscribe, StartLoop, Deliver, NextExpires,
                ResumeLoop, Busy
  <2>2. CASE Acknowledge(w) \/ MarkProcessed(w) \/ MarkFails(w)
    <3>1. pc[w] \in {"ack", "mark"}
      BY <2>2 DEF Acknowledge, MarkProcessed, MarkFails
    <3>. QED
      BY <1>8, <3>1
  <2>3. \/ Accept(w) \/ HandlerSucceeds(w) \/ CheckDuplicate(w) \/ moveToDeadLetterQueue(w)
        \/ Reject(w) \/ CheckFails(w) \/ HandlerThrows(w)
        \/ Acknowledge(w) \/ MarkProcessed(w) \/ MarkFails(w) \/ DeadLetterFails(w)
    BY <1>10, <2>1 DEF WorkerStep
  <2>. HIDE DEF Kept, Returned
  <2>. QED
    BY <1>5, <1>6, <1>7, <1>9, <2>2, <2>3
<1>11. ASSUME NEW v \in Workers, v # w,
              WorkerStep(v) \/ StartLoopFails(v) \/ NextThrows(v) \/ Subscribe(v)
       PROVE  Kept
  BY <1>1, <1>11, OthersUnmoved DEF Holds
<1>12. ASSUME NEW p \in Processes, Exit(p), p # Process[w]
       PROVE  Kept
  BY <1>1, <1>12 DEF Exit, Holds
<1>13. CASE UNCHANGED <<pc, job>>
  BY <1>1, <1>13 DEF Holds
<1>. QED
  BY <1>10, <1>11, <1>12, <1>13
  DEF Next, vars, workerVars, Publish, DeliveryLost, ReplyArrives, ReplyLost,
      AckWaitExpires, GiveUp, MessageIdExpires, KeyExpires, unsubscribe, onModuleDestroy

\* It decides, if nothing ends its process and dead letters arrive.
LEMMA HolderDecides ==
    ASSUME WorkersDecide, DecidedInv, [Next]_vars, NEW w \in Workers, Holds(w),
           NEW g, g = Group[w], NEW m, m = job[w].msg
    PROVE  \/ Holds(w)' /\ job'[w].msg = m /\ job'[w].attempt = job[w].attempt
           \/ Accounted(g, m)'
           \/ job[w].attempt < MaxRetries[w]
<1>1. ~Exit(Process[w])
  BY NoExits DEF DecidedInv, Processes
<1>2. ~DeadLetterFails(w)
  BY BusyMessage, WellFormed
  DEF Holds, DeadLetterFails, WorkersDecide, DeadLettersArrive, DecidedInv
<1>. QED
  BY <1>1, <1>2, HolderMoves DEF DecidedInv

\* A message goes out for the first time, or again, to a worker or on the way to one.
LEMMA GoesOut ==
    ASSUME TypeInv, [Next]_vars, NEW g \in Groups, NEW m \in Messages
    PROVE  \/ \E w \in Workers : Group[w] = g /\ (Deliver(w, m) \/ DeliveryLost(w, m))
           \/ /\ deliveries'[g][m] = deliveries[g][m]
              /\ status[g][m] = "new" => status'[g][m] = "new"
<1>. USE ConsumerAssumption DEF TypeInv, StreamTypeOK
<1>1. ASSUME NEW w \in Workers, NEW k \in Messages, HandOut(Group[w], k),
             ~(Group[w] = g /\ k = m)
      PROVE  deliveries'[g][m] = deliveries[g][m] /\ status'[g][m] = status[g][m]
  BY <1>1 DEF HandOut
<1>2. ASSUME NEW w \in Workers, NEW k \in Messages, DeliveryLost(w, k)
      PROVE  \/ Group[w] = g /\ DeliveryLost(w, m)
             \/ deliveries'[g][m] = deliveries[g][m] /\ status'[g][m] = status[g][m]
  BY <1>1, <1>2 DEF DeliveryLost
<1>3. ASSUME NEW r \in replies, ReplyArrives(r)
      PROVE  /\ deliveries'[g][m] = deliveries[g][m]
             /\ status[g][m] = "new" => status'[g][m] = "new"
  <2>1. r.group \in Groups /\ r.msg \in Messages
    BY DEF Replies
  <2>2. status'[g][m] \in {status[g][m], AfterReply(r.kind, status[g][m])}
    BY <1>3, <2>1 DEF ReplyArrives, ApplyReply
  <2>. QED
    BY <1>3, <2>2 DEF ReplyArrives, ApplyReply, AfterReply, Outstanding
<1>4. ASSUME NEW h \in Groups, NEW k \in Messages, AckWaitExpires(h, k) \/ GiveUp(h, k)
      PROVE  /\ deliveries'[g][m] = deliveries[g][m]
             /\ status[g][m] = "new" => status'[g][m] = "new"
  <2>1. Expire(h, k) \/ Exceed(h, k)
    BY <1>4 DEF AckWaitExpires, GiveUp
  <2>2. CASE Expire(h, k)
    BY <2>2 DEF Expire
  <2>3. CASE Exceed(h, k)
    BY <2>3 DEF Exceed
  <2>. QED
    BY <2>1, <2>2, <2>3
<1>5. ASSUME NEW w \in Workers, WorkerStep(w), \A k \in Messages : ~Deliver(w, k)
      PROVE  UNCHANGED <<deliveries, status>>
  BY <1>5
  DEF WorkerStep, streamVars, StartLoop, NextExpires, ResumeLoop, Accept, Reject, Fail, Respond,
      CheckDuplicate, CheckFails, HandlerSucceeds, HandlerThrows, Acknowledge, MarkProcessed,
      MarkFails, moveToDeadLetterQueue, DeadLetterFails
<1>6. ASSUME NEW w \in Workers, WorkerStep(w)
      PROVE  \/ Group[w] = g /\ Deliver(w, m)
             \/ /\ deliveries'[g][m] = deliveries[g][m]
                /\ status[g][m] = "new" => status'[g][m] = "new"
  <2>1. CASE \A k \in Messages : ~Deliver(w, k)
    BY <1>5, <1>6, <2>1
  <2>2. ASSUME NEW k \in Messages, Deliver(w, k), ~(Group[w] = g /\ k = m)
        PROVE  deliveries'[g][m] = deliveries[g][m] /\ status'[g][m] = status[g][m]
    BY <1>1, <2>2 DEF Deliver
  <2>. QED
    BY <2>1, <2>2
<1>7. CASE \E r \in replies : ReplyArrives(r) \/ ReplyLost(r)
  BY <1>3, <1>7 DEF ReplyLost, LoseReply
<1>8. CASE \/ \E e \in Envelopes : Publish(e)
           \/ \E w \in Workers : Subscribe(w) \/ StartLoopFails(w) \/ NextThrows(w) \/ unsubscribe(w)
           \/ \E id \in Ids : MessageIdExpires(id)
           \/ \E k \in keys : KeyExpires(k)
           \/ \E p \in Processes : onModuleDestroy(p) \/ Exit(p)
           \/ UNCHANGED vars
  BY <1>8
  DEF vars, streamVars, Publish, Store, Subscribe, StartLoopFails, NextThrows, unsubscribe,
      MessageIdExpires, WindowExpires, KeyExpires, onModuleDestroy, Exit
<1>. QED
  BY <1>2, <1>4, <1>6, <1>7, <1>8 DEF Next

\* The server gives a message up in one way only.
LEMMA GivenUp ==
    ASSUME TypeInv, [Next]_vars, NEW g \in Groups, NEW m \in Messages,
           status'[g][m] = "exceeded"
    PROVE  status[g][m] = "exceeded" \/ Exceed(g, m)
<1>. USE ConsumerAssumption DEF TypeInv, StreamTypeOK
<1>1. ASSUME NEW h \in Groups, NEW k \in Messages, HandOut(h, k)
      PROVE  status[g][m] = "exceeded"
  BY <1>1 DEF HandOut
<1>2. ASSUME NEW r \in replies, ApplyReply(r)
      PROVE  status[g][m] = "exceeded"
  BY <1>2 DEF ApplyReply, AfterReply, Replies
<1>3. ASSUME NEW h \in Groups, NEW k \in Messages, AckWaitExpires(h, k) \/ Exceed(h, k)
      PROVE  status[g][m] = "exceeded" \/ Exceed(g, m)
  <2>1. Expire(h, k) \/ Exceed(h, k)
    BY <1>3 DEF AckWaitExpires
  <2>2. CASE Expire(h, k)
    BY <2>2 DEF Expire
  <2>3. CASE Exceed(h, k)
    BY <2>3 DEF Exceed
  <2>. QED
    BY <2>1, <2>2, <2>3
<1>. QED
  BY <1>1, <1>2, <1>3, StatusEffect

LEMMA LastDelivery ==
    ASSUME WorkersDecide, DecidedInv, [Next]_vars, NEW g \in Groups, NEW m \in Messages,
           status'[g][m] # "new", deliveries'[g][m] >= maxDeliver'[g]
    PROVE  Accounted(g, m)' \/ LastHeld(g, m)'
<1>1. CASE \E w \in Workers : Group[w] = g /\ Deliver(w, m)
  <2>1. PICK w \in Workers : Group[w] = g /\ Deliver(w, m)
    BY <1>1
  <2>2. /\ pc'[w] = "received" /\ job'[w].msg = m /\ ~job'[w].replied
        /\ job'[w].attempt = deliveries[g][m] + 1
    BY <2>1 DEF Deliver, DecidedInv, TypeInv, WorkerTypeOK
  <2>3. deliveries[g][m] \in Nat /\ deliveries'[g][m] = deliveries[g][m] + 1
    BY <2>1, HandOutDelivers DEF Deliver, DecidedInv, TypeInv, StreamTypeOK
  <2>4. Holds(w)' /\ job'[w].attempt >= deliveries'[g][m]
    BY <2>2, <2>3 DEF Holds, Busy
  <2>. QED
    BY <2>1, <2>2, <2>4 DEF LastHeld
<1>2. CASE deliveries'[g][m] = deliveries[g][m] /\ status[g][m] # "new"
  <2>1. /\ maxDeliver[g] \in Nat /\ maxDeliver'[g] \in Nat /\ maxDeliver'[g] >= maxDeliver[g]
        /\ deliveries[g][m] \in Nat /\ deliveries[g][m] <= maxDeliver[g]
    BY DeadMaxDeliver, TypeNext DEF WorkersDecide, DecidedInv, DeadInv, TypeInv, StreamTypeOK
  <2>2. Accounted(g, m) \/ LastHeld(g, m)
    BY <1>2, <2>1 DEF DecidedInv, DropInv
  <2>3. CASE Accounted(g, m)
    BY <2>3, AccountedGrows DEF DecidedInv
  <2>4. ASSUME NEW w \in Workers, Group[w] = g, Holds(w), job[w].msg = m,
               job[w].attempt >= deliveries[g][m]
        PROVE  Accounted(g, m)' \/ LastHeld(g, m)'
    <3>1. job[w].attempt \in Nat /\ job[w].attempt >= 1 /\ job[w].attempt <= deliveries[g][m]
      BY <2>4, BusyMessage DEF Holds, DecidedInv, DeadInv
    <3>2. maxDeliver[g] \in {0, MaxRetries[w]} /\ MaxRetries[w] \in Nat
      BY <2>4, ConsumerAssumption DEF DecidedInv, DeadInv
    <3>3. ~(job[w].attempt < MaxRetries[w])
      BY <1>2, <2>1, <2>4, <3>1, <3>2
    <3>4. CASE Holds(w)' /\ job'[w].msg = m /\ job'[w].attempt = job[w].attempt
      BY <1>2, <2>4, <3>4 DEF LastHeld
    <3>5. \/ Holds(w)' /\ job'[w].msg = m /\ job'[w].attempt = job[w].attempt
          \/ Accounted(g, m)'
      BY <2>4, <3>3, HolderDecides
    <3>. QED
      BY <3>4, <3>5
  <2>. QED
    BY <2>2, <2>3, <2>4 DEF LastHeld
<1>. QED
  BY <1>1, <1>2, GoesOut DEF DecidedInv, DeliveryLost, WorkersDecide

LEMMA DropNext ==
    ASSUME WorkersDecide, DecidedInv, [Next]_vars
    PROVE  DropInv'
<1>1. isShuttingDown' = {}
  <2>1. isShuttingDown' = isShuttingDown \/ \E p \in Processes : onModuleDestroy(p) \/ Exit(p)
    BY DEF Next, WorkerStep, vars, workerVars, Publish, Subscribe, StartLoop, StartLoopFails,
       Deliver, DeliveryLost, NextExpires, NextThrows, ResumeLoop, Accept, Reject, Fail, GoTo,
       LoopTop, CheckDuplicate, CheckFails, HandlerSucceeds, HandlerThrows, Acknowledge,
       MarkProcessed, MarkFails, moveToDeadLetterQueue, DeadLetterFails, ReplyArrives, ReplyLost,
       AckWaitExpires, GiveUp, MessageIdExpires, KeyExpires, unsubscribe
  <2>. QED
    BY <2>1, NoExits DEF DecidedInv, DropInv
<1>2. ASSUME NEW g \in Groups, NEW m \in Messages, status'[g][m] = "exceeded"
      PROVE  Accounted(g, m)
  <2>1. CASE status[g][m] = "exceeded"
    BY <2>1 DEF DecidedInv, DropInv
  <2>2. CASE Exceed(g, m)
    <3>1. status[g][m] = "waiting" /\ deliveries[g][m] >= maxDeliver[g]
      BY <2>2 DEF Exceed
    <3>2. ~LastHeld(g, m)
      BY <3>1 DEF LastHeld, DecidedInv, PromptInv
    <3>. QED
      BY <3>1, <3>2 DEF DecidedInv, DropInv
  <2>. QED
    BY <1>2, <2>1, <2>2, GivenUp DEF DecidedInv
<1>3. ASSUME NEW g \in Groups, NEW m \in Messages, status'[g][m] = "exceeded"
      PROVE  Accounted(g, m)'
  BY <1>2, <1>3, AccountedGrows DEF DecidedInv
<1>. QED
  BY <1>1, <1>3, LastDelivery DEF DropInv

\* Where every delivery reaches a worker that decides in time and keys stand for one
\* message, the server gives up no message that nobody handled or buried: lost
\* replies, failing handlers and failing Redis calls lose none.
THEOREM NothingDroppedSilently ==
    ASSUME WorkersDecide, OwnKeys
    PROVE  Spec => []NoSilentDrop
<1>1. Init => TypeInv /\ AckInv /\ DeadInv /\ PromptInv /\ DropInv
  BY TypeInit, AckInit, DeadInit, PromptInit DEF Init, StreamInit, DropInv
<1>2. DecidedInv /\ [Next]_vars => DecidedInv'
  BY TypeNext, AckNext, DeadNext, PromptNext, DropNext DEF DecidedInv, WorkersDecide
<1>3. DecidedInv => NoSilentDrop
  <2>. SUFFICES ASSUME DecidedInv, NEW g \in Groups, NEW m \in Messages,
                       status[g][m] = "exceeded"
                PROVE  handled[g][m] # {} \/ dead[g][m] > 0
    BY DEF NoSilentDrop
  <2>1. Accounted(g, m)
    BY DEF DecidedInv, DropInv
  <2>2. ASSUME g \in Idempotent, m \in 1 .. Len(log), KeyWasHandled(getIdempotencyKey(m))
        PROVE  handled[g][m] # {}
    <3>1. PICK h \in Idempotent, k \in 1 .. Len(log) :
            getIdempotencyKey(k) = getIdempotencyKey(m) /\ handled[h][k] # {}
      BY <2>2 DEF KeyWasHandled
    <3>2. h = g /\ Ids = {}
      BY <2>2 DEF OwnKeys
    <3>3. log[k].id = NoId /\ log[m].id = NoId
      BY <2>2, <3>2, WellFormed DEF DecidedInv, WorkersDecide, DeadLettersArrive
    <3>. QED
      BY <3>1, <3>2, <3>3 DEF getIdempotencyKey
  <2>. QED
    BY <2>1, <2>2 DEF Accounted, Witnessed
<1>. QED
  BY <1>1, <1>2, <1>3, PTL DEF Spec, DecidedInv

-----------------------------------------------------------------------------
(* Idempotency keys *)

\* One worker, which uses idempotency keys, is not interrupted and has a Redis
\* that answers and forgets nothing.
OneWorker ==
    /\ \A v, w \in Workers : v = w
    /\ \A w \in Workers : Idempotent = {Group[w]}
    /\ Faults \intersect {"crash", "shutdown", "redis", "keyttl"} = {}

\* What a message that was handled once has to show for it: its key is in Redis,
\* or the worker is on the way there; and nothing of it is a dead letter.
HandledInv ==
    /\ \A g \in Groups, m \in Messages : handled[g][m] # {} =>
         /\ m \in 1 .. Len(log)
         /\ log[m].body = "event"
         /\ g \in Idempotent
         /\ \/ getIdempotencyKey(m) \in keys
            \/ \E w \in Workers : /\ pc[w] \in {"ack", "mark"}
                                  /\ getIdempotencyKey(job[w].msg) = getIdempotencyKey(m)
         /\ \A a, b \in handled[g][m] : a = b
         /\ dead[g][m] = 0
    /\ \A g \in Groups, j, k \in Messages :
         j # k /\ handled[g][j] # {} /\ handled[g][k] # {}
           => getIdempotencyKey(j) # getIdempotencyKey(k)

\* What the worker knows of the message it has: its last delivery, and that it
\* was not handled before.
FreshInv ==
    /\ isShuttingDown = {}
    /\ \A w \in Workers :
         /\ pc[w] \in Busy => job[w].attempt = deliveries[Group[w]][job[w].msg]
         /\ pc[w] \in {"check", "handle", "ack", "mark"} => log[job[w].msg].body = "event"
         /\ pc[w] = "handle" => getIdempotencyKey(job[w].msg) \notin keys
         /\ pc[w] = "dlq" => handled[Group[w]][job[w].msg] = {}

OnceInv == TypeInv /\ DeadInv /\ HandledInv /\ FreshInv

LEMMA OneNotInterrupted ==
    ASSUME OneWorker, FreshInv, NEW p \in Processes
    PROVE  ~Exit(p) /\ ~onModuleDestroy(p)
<1>. QED
  BY DEF OneWorker, FreshInv, Exit, onModuleDestroy

LEMMA OneKeys ==
    ASSUME OneWorker, OnceInv, [Next]_vars, NEW w \in Workers
    PROVE  /\ keys \subseteq keys'
           /\ pc[w] # "mark" => keys' = keys
           /\ pc[w] = "mark" => \/ pc'[w] = "mark" /\ job'[w] = job[w]
                                \/ getIdempotencyKey(job[w].msg) \in keys'
<1>. USE DEF OnceInv, TypeInv, WorkerTypeOK
<1>1. ASSUME NEW v \in Workers, WorkerStep(v)
      PROVE  /\ v = w
             /\ keys' = keys \/ MarkProcessed(w)
             /\ pc[w] = "mark" => MarkProcessed(w)
  BY <1>1
  DEF WorkerStep, OneWorker, StartLoop, Deliver, NextExpires, ResumeLoop, Accept, Reject,
      CheckDuplicate, CheckFails, HandlerSucceeds, HandlerThrows, Acknowledge, MarkFails,
      moveToDeadLetterQueue, DeadLetterFails
<1>2. CASE MarkProcessed(w)
  BY <1>2 DEF MarkProcessed
<1>3. CASE \E v \in Workers : Subscribe(v) \/ StartLoopFails(v) \/ NextThrows(v)
  BY <1>3 DEF OneWorker, Subscribe, StartLoopFails, NextThrows
<1>4. CASE UNCHANGED <<pc, job, keys>>
  BY <1>4
<1>. QED
  BY <1>1, <1>2, <1>3, <1>4, OneNotInterrupted
  DEF Next, vars, workerVars, OneWorker, Publish, DeliveryLost, ReplyArrives, ReplyLost,
      AckWaitExpires, GiveUp, MessageIdExpires, KeyExpires, unsubscribe

\* How the worker moves, with what it has found out.
LEMMA OneMove ==
    ASSUME OneWorker, OnceInv, [Next]_vars, NEW w \in Workers
    PROVE  \/ pc'[w] = pc[w] /\ job'[w] = job[w]
           \/ pc'[w] \notin Busy /\ pc[w] # "ack"
           \/ \E m \in Messages : Deliver(w, m)
           \/ HandlerSucceeds(w)
           \/ pc[w] = "ack" /\ pc'[w] = "mark" /\ job'[w] = Replied(job[w])
           \/ /\ pc[w] \in Busy
              /\ job'[w] = job[w]
              /\ \/ pc[w] = "received" /\ pc'[w] = "check" /\ log[job[w].msg].body = "event"
                 \/ /\ pc[w] = "check" /\ pc'[w] = "handle"
                    /\ getIdempotencyKey(job[w].msg) \notin keys
                 \/ /\ pc[w] = "received" /\ pc'[w] = "dlq" /\ log[job[w].msg].body # "event"
                 \/ pc[w] = "handle" /\ pc'[w] = "dlq"
<1>. USE DEF OnceInv, TypeInv, WorkerTypeOK, LoopTop, GoTo, Busy, Active
<1>1. ASSUME Fail(w)
      PROVE  pc'[w] \notin Busy \/ (pc'[w] = "dlq" /\ job'[w] = job[w])
  BY <1>1 DEF Fail
<1>2. CASE Reject(w) \/ HandlerThrows(w)
  <2>1. Fail(w) /\ pc[w] \in {"received", "handle"}
    BY <1>2 DEF Reject, HandlerThrows
  <2>2. pc[w] = "received" => log[job[w].msg].body # "event"
    BY <1>2 DEF Reject, HandlerThrows
  <2>. QED
    BY <1>1, <2>1, <2>2
<1>3. CASE Acknowledge(w)
  BY <1>3 DEF Acknowledge, OneWorker
<1>4. CASE Accept(w) \/ CheckDuplicate(w)
  BY <1>4 DEF Accept, CheckDuplicate, OneWorker
<1>5. CASE StartLoop(w) \/ NextExpires(w) \/ ResumeLoop(w) \/ MarkProcessed(w)
           \/ moveToDeadLetterQueue(w) \/ DeadLetterFails(w) \/ Subscribe(w)
           \/ StartLoopFails(w) \/ NextThrows(w)
  BY <1>5
  DEF StartLoop, NextExpires, ResumeLoop, MarkProcessed, moveToDeadLetterQueue, DeadLetterFails,
      Subscribe, StartLoopFails, NextThrows
<1>6. ASSUME NEW v \in Workers PROVE v = w /\ ~CheckFails(v) /\ ~MarkFails(v)
  BY DEF OneWorker, CheckFails, MarkFails
<1>7. CASE UNCHANGED <<pc, job>>
  BY <1>7
<1>. QED
  BY <1>2, <1>3, <1>4, <1>5, <1>6, <1>7, OneNotInterrupted
  DEF Next, WorkerStep, vars, workerVars, Publish, DeliveryLost, ReplyArrives, ReplyLost,
      AckWaitExpires, GiveUp, MessageIdExpires, KeyExpires, unsubscribe

LEMMA OneKeepsJob ==
    ASSUME OneWorker, OnceInv, [Next]_vars, NEW w \in Workers, pc'[w] \in Busy,
           \A m \in Messages : ~Deliver(w, m)
    PROVE  /\ pc[w] \in Busy
           /\ job'[w].msg = job[w].msg
           /\ job'[w].attempt = job[w].attempt
<1>1. CASE HandlerSucceeds(w)
  BY <1>1 DEF HandlerSucceeds, GoTo, Busy
<1>2. CASE pc[w] = "ack" /\ job'[w] = Replied(job[w])
  BY <1>2 DEF Replied, Jobs, OnceInv, TypeInv, WorkerTypeOK, Busy
<1>. QED
  BY <1>1, <1>2, OneMove

\* The handler is called only for a message nothing was done about.
LEMMA HandlesFresh ==
    ASSUME OneWorker, OnceInv, NEW w \in Workers, pc[w] = "handle"
    PROVE  /\ dead[Group[w]][job[w].msg] = 0
           /\ \A g \in Groups, k \in Messages :
                handled[g][k] # {} => getIdempotencyKey(k) # getIdempotencyKey(job[w].msg)
<1>1. /\ Group[w] \in Groups /\ job[w].msg \in Messages /\ job[w].attempt \in Nat
      /\ job[w].attempt = deliveries[Group[w]][job[w].msg]
  BY BusyMessage DEF OnceInv, FreshInv, Busy
<1>2. dead[Group[w]][job[w].msg] # 0 => FALSE
  BY <1>1 DEF OnceInv, DeadInv, Busy
<1>3. ASSUME NEW g \in Groups, NEW k \in Messages, handled[g][k] # {},
             getIdempotencyKey(k) = getIdempotencyKey(job[w].msg)
      PROVE  FALSE
  <2>1. getIdempotencyKey(k) \notin keys
    BY <1>3 DEF OnceInv, FreshInv
  <2>2. PICK v \in Workers : pc[v] \in {"ack", "mark"}
    BY <1>3, <2>1 DEF OnceInv, HandledInv
  <2>. QED
    BY <2>2 DEF OneWorker
<1>. QED
  BY <1>2, <1>3

\* A worker that gives a message up for good has not handled it.
LEMMA BuriesUnhandled ==
    ASSUME OneWorker, OnceInv, [Next]_vars, NEW w \in Workers, pc'[w] = "dlq"
    PROVE  handled'[Group[w]][job'[w].msg] = {}
<1>. USE DEF Busy
<1>1. handled' = handled
  <2>1. ASSUME NEW v \in Workers, HandlerSucceeds(v)
        PROVE  FALSE
    BY <2>1 DEF HandlerSucceeds, GoTo, OneWorker, OnceInv, TypeInv, WorkerTypeOK
  <2>. QED
    BY <2>1, HandledEffect
<1>2. CASE pc[w] = "dlq" /\ job'[w] = job[w]
  BY <1>1, <1>2 DEF OnceInv, FreshInv
<1>3. CASE pc[w] = "received" /\ job'[w] = job[w] /\ log[job[w].msg].body # "event"
  BY <1>1, <1>3, BusyMessage DEF OnceInv, HandledInv
<1>4. CASE pc[w] = "handle" /\ job'[w] = job[w]
  BY <1>1, <1>4, HandlesFresh, BusyMessage DEF OnceInv
<1>. QED
  BY <1>2, <1>3, <1>4, OneMove
  DEF Deliver, HandlerSucceeds, GoTo, OnceInv, TypeInv, WorkerTypeOK

LEMMA OneDelivers ==
    ASSUME [Next]_vars
    PROVE  \/ deliveries' = deliveries
           \/ \E w \in Workers, m \in Messages : Deliver(w, m) \/ DeliveryLost(w, m)
<1>1. ASSUME NEW w \in Workers, WorkerStep(w), deliveries' # deliveries
      PROVE  \E m \in Messages : Deliver(w, m)
  BY <1>1
  DEF WorkerStep, streamVars, StartLoop, NextExpires, ResumeLoop, Accept, Reject, Fail, Respond,
      CheckDuplicate, CheckFails, HandlerSucceeds, HandlerThrows, Acknowledge, MarkProcessed,
      MarkFails, moveToDeadLetterQueue, DeadLetterFails
<1>. QED
  BY <1>1
  DEF Next, vars, streamVars, Publish, Store, Subscribe, StartLoopFails, NextThrows, ReplyArrives,
      ApplyReply, ReplyLost, LoseReply, AckWaitExpires, Expire, GiveUp, Exceed, MessageIdExpires,
      WindowExpires, KeyExpires, unsubscribe, onModuleDestroy, Exit

LEMMA FreshNext ==
    ASSUME OneWorker, OnceInv, [Next]_vars
    PROVE  FreshInv'
<1>. USE DEF Busy
<1>1. isShuttingDown' = {}
  <2>1. isShuttingDown' = isShuttingDown \/ \E p \in Processes : onModuleDestroy(p) \/ Exit(p)
    BY DEF Next, WorkerStep, vars, workerVars, Publish, Subscribe, StartLoop, StartLoopFails,
       Deliver, DeliveryLost, NextExpires, NextThrows, ResumeLoop, Accept, Reject, Fail, GoTo,
       LoopTop, CheckDuplicate, CheckFails, HandlerSucceeds, HandlerThrows, Acknowledge,
       MarkProcessed, MarkFails, moveToDeadLetterQueue, DeadLetterFails, ReplyArrives, ReplyLost,
       AckWaitExpires, GiveUp, MessageIdExpires, KeyExpires, unsubscribe
  <2>. QED
    BY <2>1, OneNotInterrupted DEF OnceInv, FreshInv
<1>2. ASSUME NEW w \in Workers, pc'[w] \in Busy
      PROVE  job'[w].attempt = deliveries'[Group[w]][job'[w].msg]
  <2>1. CASE \E m \in Messages : Deliver(w, m)
    <3>1. PICK m \in Messages : Deliver(w, m)
      BY <2>1
    <3>2. job'[w].msg = m /\ job'[w].attempt = deliveries[Group[w]][m] + 1
      BY <3>1 DEF Deliver, OnceInv, TypeInv, WorkerTypeOK
    <3>3. deliveries'[Group[w]][m] = deliveries[Group[w]][m] + 1
      BY <3>1, HandOutDelivers, ConsumerAssumption DEF Deliver, OnceInv
    <3>. QED
      BY <3>2, <3>3
  <2>2. CASE pc[w] \in Busy /\ job'[w].msg = job[w].msg /\ job'[w].attempt = job[w].attempt
    <3>1. deliveries' = deliveries
      BY <2>2, OneDelivers DEF OneWorker, Deliver, DeliveryLost
    <3>. QED
      BY <2>2, <3>1 DEF OnceInv, FreshInv
  <2>. QED
    BY <1>2, <2>1, <2>2, OneKeepsJob
<1>3. ASSUME NEW w \in Workers, pc'[w] \in {"check", "handle", "ack", "mark"}
      PROVE  log'[job'[w].msg].body = "event"
  <2>1. \A m \in Messages : ~Deliver(w, m)
    BY <1>3 DEF Deliver, OnceInv, TypeInv, WorkerTypeOK
  <2>2. pc[w] \in Busy /\ job'[w].msg = job[w].msg
    BY <1>3, <2>1, OneKeepsJob
  <2>3. log[job[w].msg].body = "event"
    BY <1>3, <2>1, OneMove DEF HandlerSucceeds, OnceInv, FreshInv
  <2>. QED
    BY <2>2, <2>3, BusyMessage, LogGrows DEF OnceInv
<1>4. ASSUME NEW w \in Workers, pc'[w] = "handle"
      PROVE  getIdempotencyKey(job[w].msg)' \notin keys'
  <2>1. /\ pc[w] \in {"check", "handle"} /\ job'[w] = job[w]
        /\ getIdempotencyKey(job[w].msg) \notin keys
    BY <1>4, OneMove
    DEF Deliver, HandlerSucceeds, GoTo, OnceInv, FreshInv, TypeInv, WorkerTypeOK
  <2>2. job[w].msg \in 1 .. Len(log)
    BY <2>1, BusyMessage DEF OnceInv
  <2>3. log'[job[w].msg] = log[job[w].msg]
    BY <2>2, LogGrows DEF OnceInv
  <2>. QED
    BY <2>1, <2>3, OneKeys DEF getIdempotencyKey
<1>. QED
  BY <1>1, <1>2, <1>3, <1>4, BuriesUnhandled DEF FreshInv

\* The worker is between its handler and the key of the message it handled.
Marking(key) ==
    \E w \in Workers : pc[w] \in {"ack", "mark"} /\ getIdempotencyKey(job[w].msg) = key

LEMMA KeysStay ==
    ASSUME OneWorker, [Next]_vars
    PROVE  keys \subseteq keys'
<1>. QED
  BY DEF OneWorker, Next, WorkerStep, vars, Publish, Subscribe, StartLoop, StartLoopFails, Deliver,
     DeliveryLost, NextExpires, NextThrows, ResumeLoop, Accept, Reject, CheckDuplicate, CheckFails,
     HandlerSucceeds, HandlerThrows, Acknowledge, MarkProcessed, MarkFails, moveToDeadLetterQueue,
     DeadLetterFails, ReplyArrives, ReplyLost, AckWaitExpires, GiveUp, MessageIdExpires, KeyExpires,
     unsubscribe, onModuleDestroy, Exit

LEMMA KeyOrMarking ==
    ASSUME OneWorker, OnceInv, [Next]_vars, NEW m \in 1 .. Len(log),
           getIdempotencyKey(m) \in keys \/ Marking(getIdempotencyKey(m))
    PROVE  (getIdempotencyKey(m) \in keys \/ Marking(getIdempotencyKey(m)))'
<1>1. getIdempotencyKey(m)' = getIdempotencyKey(m)
  BY LogGrows DEF OnceInv
<1>2. CASE getIdempotencyKey(m) \in keys
  BY <1>1, <1>2, KeysStay
<1>3. ASSUME NEW w \in Workers, pc[w] \in {"ack", "mark"},
             getIdempotencyKey(job[w].msg) = getIdempotencyKey(m)
      PROVE  getIdempotencyKey(m) \in keys' \/ Marking(getIdempotencyKey(m))'
  <2>1. job[w].msg \in 1 .. Len(log)
    BY <1>3, BusyMessage DEF OnceInv, Busy
  <2>2. log'[job[w].msg] = log[job[w].msg] /\ log'[m] = log[m]
    BY <2>1, LogGrows DEF OnceInv
  <2>3. CASE pc'[w] \in {"ack", "mark"}
    <3>1. job'[w].msg = job[w].msg
      BY <1>3, <2>3, OneKeepsJob DEF Busy, Deliver
    <3>2. getIdempotencyKey(job[w].msg)' = getIdempotencyKey(m)'
      BY <1>3, <2>2, <3>1 DEF getIdempotencyKey
    <3>. QED
      BY <2>3, <3>2 DEF Marking
  <2>4. CASE pc'[w] \notin {"ack", "mark"}
    <3>1. pc[w] = "mark"
      BY <1>3, <2>4, OneMove
      DEF Busy, Deliver, HandlerSucceeds, GoTo, OnceInv, TypeInv, WorkerTypeOK
    <3>. QED
      BY <1>3, <2>4, <3>1, OneKeys
  <2>. QED
    BY <2>3, <2>4
<1>. QED
  BY <1>1, <1>2, <1>3 DEF Marking

\* A successful handler call is the first for its message, and for its key.
LEMMA FirstSuccess ==
    ASSUME OneWorker, OnceInv, [Next]_vars, NEW w \in Workers, HandlerSucceeds(w),
           NEW m, m = job[w].msg
    PROVE  /\ m \in Messages /\ m \in 1 .. Len(log) /\ Group[w] \in Groups
           /\ Group[w] \in Idempotent
           /\ handled[Group[w]][m] = {} /\ handled'[Group[w]][m] = {job[w].attempt}
           /\ \A g \in Groups, k \in Messages :
                ~(g = Group[w] /\ k = m) => handled'[g][k] = handled[g][k]
           /\ log[m].body = "event"
           /\ dead'[Group[w]][m] = 0
           /\ Marking(getIdempotencyKey(m))'
<1>1. pc[w] = "handle" /\ pc'[w] = "ack" /\ job' = job /\ log' = log /\ dead' = dead
  BY DEF HandlerSucceeds, GoTo, streamVars, OnceInv, TypeInv, WorkerTypeOK
<1>2. /\ m \in Messages /\ m \in 1 .. Len(log) /\ Group[w] \in Groups
      /\ Group[w] \in Idempotent /\ log[m].body = "event"
  BY <1>1, BusyMessage DEF OnceInv, FreshInv, OneWorker, Busy
<1>3. handled[Group[w]][m] = {} /\ dead[Group[w]][m] = 0
  BY <1>1, <1>2, HandlesFresh
<1>4. /\ handled'[Group[w]][m] = {job[w].attempt}
      /\ \A g \in Groups, k \in Messages :
           ~(g = Group[w] /\ k = m) => handled'[g][k] = handled[g][k]
  BY <1>2, <1>3 DEF HandlerSucceeds, OnceInv, TypeInv, HistoryTypeOK
<1>5. Marking(getIdempotencyKey(m))'
  <2>1. getIdempotencyKey(job[w].msg)' = getIdempotencyKey(m)'
    BY <1>1 DEF getIdempotencyKey
  <2>. QED
    BY <1>1, <2>1 DEF Marking
<1>. QED
  BY <1>1, <1>2, <1>3, <1>4, <1>5

LEMMA HandledNext ==
    ASSUME OneWorker, OnceInv, [Next]_vars
    PROVE  HandledInv'
<1>1. ASSUME NEW g \in Groups, NEW m \in Messages, handled[g][m] # {}
      PROVE  /\ m \in 1 .. Len(log)
             /\ handled'[g][m] = handled[g][m]
             /\ dead'[g][m] = 0
  <2>1. m \in 1 .. Len(log) /\ dead[g][m] = 0
    BY <1>1 DEF OnceInv, HandledInv
  <2>2. handled'[g][m] = handled[g][m]
    BY <1>1, HandledEffect, FirstSuccess
  <2>3. ASSUME NEW w \in Workers, moveToDeadLetterQueue(w)
        PROVE  dead'[g][m] = dead[g][m]
    <3>1. /\ handled[Group[w]][job[w].msg] = {}
          /\ Group[w] \in Groups /\ job[w].msg \in Messages
      BY <2>3, BusyMessage DEF moveToDeadLetterQueue, OnceInv, FreshInv, Busy
    <3>. QED
      BY <1>1, <2>3, <3>1 DEF moveToDeadLetterQueue, OnceInv, TypeInv, HistoryTypeOK
  <2>. QED
    BY <2>1, <2>2, <2>3, DeadEffect
<1>2. ASSUME NEW g \in Groups, NEW m \in Messages, handled'[g][m] # {}, handled[g][m] = {}
      PROVE  \E w \in Workers : HandlerSucceeds(w) /\ g = Group[w] /\ m = job[w].msg
  BY <1>2, HandledEffect, FirstSuccess
<1>3. ASSUME NEW g \in Groups, NEW m \in Messages, handled'[g][m] # {}
      PROVE  /\ m \in 1 .. Len(log')
             /\ log'[m].body = "event"
             /\ g \in Idempotent
             /\ (getIdempotencyKey(m) \in keys \/ Marking(getIdempotencyKey(m)))'
             /\ \A a, b \in handled'[g][m] : a = b
             /\ dead'[g][m] = 0
  <2>1. CASE handled[g][m] # {}
    <3>1. /\ m \in 1 .. Len(log) /\ log[m].body = "event" /\ g \in Idempotent
          /\ getIdempotencyKey(m) \in keys \/ Marking(getIdempotencyKey(m))
          /\ \A a, b \in handled[g][m] : a = b
      BY <2>1 DEF OnceInv, HandledInv, Marking
    <3>2. (getIdempotencyKey(m) \in keys \/ Marking(getIdempotencyKey(m)))'
      BY <3>1, KeyOrMarking
    <3>3. m \in 1 .. Len(log') /\ log'[m] = log[m]
      BY <3>1, LogGrows DEF OnceInv
    <3>4. handled'[g][m] = handled[g][m] /\ dead'[g][m] = 0
      BY <1>1, <2>1
    <3>. QED
      BY <3>1, <3>2, <3>3, <3>4
  <2>2. CASE handled[g][m] = {}
    <3>1. PICK w \in Workers : HandlerSucceeds(w) /\ g = Group[w] /\ m = job[w].msg
      BY <1>2, <1>3, <2>2
    <3>2. log' = log
      BY <3>1 DEF HandlerSucceeds, streamVars
    <3>3. /\ m \in 1 .. Len(log) /\ log[m].body = "event" /\ g \in Idempotent
          /\ handled'[g][m] = {job[w].attempt} /\ dead'[g][m] = 0
      BY <3>1, FirstSuccess
    <3>4. Marking(getIdempotencyKey(m))'
      BY <3>1, FirstSuccess
    <3>. QED
      BY <3>2, <3>3, <3>4
  <2>. QED
    BY <2>1, <2>2
<1>4. ASSUME NEW g \in Groups, NEW j \in Messages, NEW k \in Messages, j # k,
             handled'[g][j] # {}, handled[g][k] # {}
      PROVE  getIdempotencyKey(j)' # getIdempotencyKey(k)'
  <2>1. getIdempotencyKey(k)' = getIdempotencyKey(k)
    BY <1>1, <1>4, LogGrows DEF OnceInv
  <2>2. CASE handled[g][j] # {}
    <3>1. getIdempotencyKey(j)' = getIdempotencyKey(j)
      BY <1>1, <2>2, LogGrows DEF OnceInv
    <3>. QED
      BY <1>4, <2>1, <2>2, <3>1 DEF OnceInv, HandledInv
  <2>3. CASE handled[g][j] = {}
    <3>1. PICK w \in Workers : HandlerSucceeds(w) /\ g = Group[w] /\ j = job[w].msg
      BY <1>2, <1>4, <2>3
    <3>2. pc[w] = "handle" /\ log' = log
      BY <3>1 DEF HandlerSucceeds, streamVars
    <3>3. getIdempotencyKey(k) # getIdempotencyKey(j)
      BY <1>4, <3>1, <3>2, HandlesFresh
    <3>. QED
      BY <2>1, <3>2, <3>3 DEF getIdempotencyKey
  <2>. QED
    BY <2>2, <2>3
<1>5. ASSUME NEW g \in Groups, NEW j \in Messages, NEW k \in Messages, j # k,
             handled'[g][j] # {}, handled'[g][k] # {}
      PROVE  getIdempotencyKey(j)' # getIdempotencyKey(k)'
  <2>1. handled[g][j] # {} \/ handled[g][k] # {}
    BY <1>2, <1>5 DEF OneWorker
  <2>. QED
    BY <1>4, <1>5, <2>1
<1>. QED
  BY <1>3, <1>5 DEF HandledInv, Marking

LEMMA OnceInvariant ==
    ASSUME OneWorker
    PROVE  Spec => []OnceInv
<1>1. Init => OnceInv
  BY TypeInit, DeadInit DEF Init, StreamInit, OnceInv, HandledInv, FreshInv, Busy
<1>2. OnceInv /\ [Next]_vars => OnceInv'
  <2>1. UniformRetries
    BY DEF OneWorker, UniformRetries
  <2>. QED
    BY <2>1, TypeNext, DeadNext, HandledNext, FreshNext DEF OnceInv
<1>. QED
  BY <1>1, <1>2, PTL DEF Spec

\* One worker with idempotency keys that are never lost calls its handler to
\* success once for a key, over lost replies, slow handlers, redeliveries and
\* republished messages: handler, acknowledgement and key need not be atomic.
THEOREM HandlesOnce ==
    ASSUME OneWorker
    PROVE  Spec => []HandledOncePerKey
<1>1. OnceInv => HandledOncePerKey
  <2>. SUFFICES ASSUME OnceInv, NEW g \in Idempotent, NEW j \in 1 .. Len(log),
                       NEW k \in 1 .. Len(log), getIdempotencyKey(j) = getIdempotencyKey(k)
                PROVE  /\ Cardinality(handled[g][j]) <= 1
                       /\ j # k => handled[g][j] = {} \/ handled[g][k] = {}
    BY DEF HandledOncePerKey
  <2>1. g \in Groups /\ j \in Messages /\ k \in Messages
    BY ConsumerAssumption, LogInMessages DEF OnceInv
  <2>2. ASSUME NEW d \in handled[g][j] PROVE handled[g][j] = {d}
    BY <2>1, <2>2 DEF OnceInv, HandledInv
  <2>3. Cardinality(handled[g][j]) <= 1
    <3>1. CASE handled[g][j] = {}
      BY <3>1, FS_EmptySet
    <3>2. ASSUME NEW d \in handled[g][j] PROVE Cardinality(handled[g][j]) = 1
      BY <2>2, FS_Singleton
    <3>. QED
      BY <3>1, <3>2
  <2>4. j # k => handled[g][j] = {} \/ handled[g][k] = {}
    BY <2>1 DEF OnceInv, HandledInv
  <2>. QED
    BY <2>3, <2>4
<1>. QED
  BY <1>1, OnceInvariant, PTL

\* Such a worker buries no message whose handler succeeded: the key is looked up
\* before a handler can fail.
THEOREM BuriesOnlyFailed ==
    ASSUME OneWorker
    PROVE  Spec => []OnlyFailedAreDeadLettered
<1>1. OnceInv => OnlyFailedAreDeadLettered
  BY DEF OnceInv, HandledInv, OnlyFailedAreDeadLettered
<1>. QED
  BY <1>1, OnceInvariant, PTL

=============================================================================
