------------------------- MODULE MessageConsumerProofs -------------------------
(***************************************************************************)
(* Proofs about MessageConsumer, for any workers, groups, processes, ids,  *)
(* number of messages and retries, and whatever the environment does.      *)
(***************************************************************************)
EXTENDS MessageConsumer, TLAPS

-----------------------------------------------------------------------------
(* Types *)

WorkerTypeOK ==
    /\ consumers \subseteq ConsumerKeys
    /\ isShuttingDown \subseteq Processes
    /\ pc \in [Workers -> Points]
    /\ job \in [Workers -> Jobs]

HistoryTypeOK ==
    /\ keys \subseteq IdempotencyKeys
    /\ handled \in [Groups -> [Messages -> SUBSET Nat]]
    /\ dead \in [Groups -> [Messages -> Nat]]

\* A worker that is busy has a message of the stream.
JobOK == \A w \in Workers : pc[w] \in Busy => job[w].msg \in 1 .. Len(log)

TypeInv == StreamTypeOK /\ WorkerTypeOK /\ HistoryTypeOK /\ JobOK

LEMMA TypeInvTypeOK == TypeInv => TypeOK
  BY DEF TypeInv, TypeOK, WorkerTypeOK, HistoryTypeOK

LEMMA BusyMessage ==
  ASSUME TypeInv, NEW w \in Workers, pc[w] \in Busy
  PROVE  /\ job[w].msg \in 1 .. Len(log)
         /\ job[w].msg \in Messages
         /\ job[w].attempt \in Nat
         /\ job[w].replied \in BOOLEAN
         /\ Group[w] \in Groups
         /\ getIdempotencyKey(job[w].msg) \in IdempotencyKeys
<1>1. Len(log) \in Nat /\ Len(log) <= MaxMessages
  BY DEF TypeInv, StreamTypeOK
<1>2. job[w] \in Jobs /\ Group[w] \in Groups
  BY ConsumerAssumption DEF TypeInv, WorkerTypeOK
<1>3. job[w].msg \in 1 .. Len(log) /\ job[w].msg \in Messages
  BY <1>1, <1>2, JetStreamAssumption DEF TypeInv, JobOK, Messages, Jobs
<1>4. log[job[w].msg] \in Envelopes
  BY <1>3 DEF TypeInv, StreamTypeOK
<1>5. getIdempotencyKey(job[w].msg) \in IdempotencyKeys
  BY <1>3, <1>4 DEF getIdempotencyKey, IdempotencyKeys, Envelopes
<1>. QED
  BY <1>2, <1>3, <1>5 DEF Jobs

LEMMA RespondTypes ==
  ASSUME TypeInv, NEW w \in Workers, pc[w] \in Busy,
         NEW kind \in {"ack", "nak", "term"}, Respond(w, kind)
  PROVE  StreamTypeOK' /\ log' = log
<1>1. [kind |-> kind, group |-> Group[w], msg |-> job[w].msg,
       attempt |-> job[w].attempt] \in Replies
  BY BusyMessage DEF Replies
<1>2. replies' \subseteq Replies
  BY <1>1 DEF TypeInv, StreamTypeOK, Respond
<1>. QED
  BY <1>2 DEF TypeInv, StreamTypeOK, Respond

LEMMA LoopTopTypes ==
  ASSUME TypeInv, NEW w \in Workers, LoopTop(w), log' = log
  PROVE  WorkerTypeOK' /\ JobOK'
  BY DEF TypeInv, WorkerTypeOK, JobOK, LoopTop, Active, NoJob, Jobs, Points, Busy

LEMMA GoToTypes ==
  ASSUME TypeInv, NEW w \in Workers, NEW point \in Points,
         point \in Busy => pc[w] \in Busy, GoTo(w, point), log' = log
  PROVE  WorkerTypeOK' /\ JobOK'
  BY DEF TypeInv, WorkerTypeOK, JobOK, GoTo

LEMMA FailTypes ==
  ASSUME TypeInv, NEW w \in Workers, pc[w] \in Busy, Fail(w)
  PROVE  StreamTypeOK' /\ WorkerTypeOK' /\ JobOK' /\ log' = log
<1>1. CASE Respond(w, "nak") /\ LoopTop(w)
  BY <1>1, RespondTypes, LoopTopTypes
<1>2. CASE UNCHANGED streamVars /\ GoTo(w, "dlq")
  <2>1. StreamTypeOK' /\ log' = log
    BY <1>2 DEF TypeInv, StreamTypeOK, streamVars
  <2>2. "dlq" \in Points
    BY DEF Points
  <2>. QED
    BY <1>2, <2>1, <2>2, GoToTypes
<1>. QED
  BY <1>1, <1>2 DEF Fail

\* Steps that leave the stream or the workers alone keep their types.
LEMMA StreamUnchanged ==
  ASSUME TypeInv, UNCHANGED streamVars
  PROVE  StreamTypeOK' /\ log' = log
  BY DEF TypeInv, StreamTypeOK, streamVars

LEMMA WorkersUnchanged ==
  ASSUME TypeInv, UNCHANGED workerVars, Len(log) <= Len(log'), Len(log') \in Nat
  PROVE  WorkerTypeOK' /\ JobOK'
<1>1. WorkerTypeOK'
  BY DEF TypeInv, WorkerTypeOK, workerVars
<1>2. JobOK'
  BY DEF TypeInv, StreamTypeOK, JobOK, workerVars
<1>. QED
  BY <1>1, <1>2

LEMMA HistoryUnchanged ==
  ASSUME TypeInv, UNCHANGED <<keys, handled, dead>>
  PROVE  HistoryTypeOK'
  BY DEF TypeInv, HistoryTypeOK

LEMMA TypeInit == Init => TypeInv
  BY JetStreamAssumption
  DEF Init, TypeInv, WorkerTypeOK, HistoryTypeOK, JobOK, StreamInit,
      StreamTypeOK, Points, Busy, Jobs, NoJob, Statuses

LEMMA TypePublish ==
  ASSUME TypeInv, NEW e \in Envelopes, Publish(e)
  PROVE  TypeInv'
<1>1. /\ log' = Append(log, e)
      /\ Len(log') = Len(log) + 1
      /\ Len(log) \in Nat
      /\ log' \in Seq(Envelopes)
  BY DEF TypeInv, StreamTypeOK, Publish, Store
<1>2. window' \subseteq Ids
  BY DEF TypeInv, StreamTypeOK, Publish, Store, Envelopes
<1>3. StreamTypeOK'
  BY <1>1, <1>2, JetStreamAssumption DEF TypeInv, StreamTypeOK, Publish, Store
<1>. QED
  BY <1>1, <1>3, WorkersUnchanged, HistoryUnchanged DEF Publish, TypeInv

LEMMA TypeSubscribe ==
  ASSUME TypeInv, NEW w \in Workers, Subscribe(w)
  PROVE  TypeInv'
<1>1. ConsumerKey(w) \in ConsumerKeys
  BY DEF ConsumerKey, ConsumerKeys
<1>2. StreamTypeOK' /\ log' = log
  BY ConsumerAssumption DEF TypeInv, StreamTypeOK, Subscribe
<1>3. WorkerTypeOK' /\ JobOK'
  BY <1>1, <1>2 DEF TypeInv, WorkerTypeOK, JobOK, Subscribe, Points, Busy
<1>. QED
  BY <1>2, <1>3, HistoryUnchanged DEF Subscribe, TypeInv

LEMMA HandOutTypes ==
  ASSUME TypeInv, NEW g \in Groups, NEW m \in Messages, HandOut(g, m)
  PROVE  StreamTypeOK' /\ log' = log /\ m \in 1 .. Len(log)
<1>1. m \in 1 .. Len(log)
  BY JetStreamAssumption
  DEF TypeInv, StreamTypeOK, HandOut, Available, Messages
<1>2. status' \in [Groups -> [Messages -> Statuses]]
  BY DEF TypeInv, StreamTypeOK, HandOut, Statuses, Outstanding
<1>3. deliveries' \in [Groups -> [Messages -> Nat]]
  BY DEF TypeInv, StreamTypeOK, HandOut
<1>. QED
  BY <1>1, <1>2, <1>3 DEF TypeInv, StreamTypeOK, HandOut

LEMMA TypeDeliver ==
  ASSUME TypeInv, NEW w \in Workers, NEW m \in Messages, Deliver(w, m)
  PROVE  TypeInv'
<1>1. StreamTypeOK' /\ log' = log /\ m \in 1 .. Len(log) /\ m \in Nat
  BY HandOutTypes, ConsumerAssumption, JetStreamAssumption DEF Deliver, Messages
<1>2. deliveries[Group[w]][m] + 1 \in Nat
  BY ConsumerAssumption DEF TypeInv, StreamTypeOK
<1>3. WorkerTypeOK' /\ JobOK'
  BY <1>1, <1>2 DEF TypeInv, WorkerTypeOK, JobOK, Deliver, Points, Busy, Jobs
<1>. QED
  BY <1>1, <1>3, HistoryUnchanged DEF Deliver, TypeInv

LEMMA TypeExit ==
  ASSUME TypeInv, NEW p \in Processes, Exit(p)
  PROVE  TypeInv'
<1>1. WorkerTypeOK' /\ JobOK'
  BY DEF TypeInv, WorkerTypeOK, JobOK, Exit, KeysWithout, NoJob, Jobs, Points,
         Busy, streamVars
<1>. QED
  BY <1>1, StreamUnchanged, HistoryUnchanged DEF Exit, TypeInv

\* The steps of the server.
LEMMA ServerTypes ==
  ASSUME TypeInv, UNCHANGED <<log, maxDeliver, deliveries>>,
         window' \subseteq window, replies' \subseteq replies,
         status' \in [Groups -> [Messages -> Statuses]],
         UNCHANGED <<workerVars, keys, handled, dead>>
  PROVE  TypeInv'
<1>1. StreamTypeOK'
  BY DEF TypeInv, StreamTypeOK
<1>2. Len(log) \in Nat
  BY DEF TypeInv, StreamTypeOK
<1>. QED
  BY <1>1, <1>2, WorkersUnchanged, HistoryUnchanged DEF TypeInv

LEMMA StatusType ==
  ASSUME TypeInv, NEW g \in Groups, NEW m \in Messages, NEW s \in Statuses,
         status' = [status EXCEPT ![g][m] = s]
  PROVE  status' \in [Groups -> [Messages -> Statuses]]
  BY DEF TypeInv, StreamTypeOK

LEMMA TypeReplyArrives ==
  ASSUME TypeInv, NEW r \in replies, ReplyArrives(r)
  PROVE  TypeInv'
<1>1. r.group \in Groups /\ r.msg \in Messages
  BY DEF TypeInv, StreamTypeOK, Replies
<1>2. AfterReply(r.kind, status[r.group][r.msg]) \in Statuses
  BY <1>1 DEF TypeInv, StreamTypeOK, AfterReply, Statuses, Outstanding, Final
<1>3. status' \in [Groups -> [Messages -> Statuses]]
  BY <1>1, <1>2, StatusType DEF ReplyArrives, ApplyReply
<1>. QED
  BY <1>3, ServerTypes DEF ReplyArrives, ApplyReply

LEMMA TypeServer ==
  ASSUME TypeInv, NEW g \in Groups, NEW m \in Messages,
         AckWaitExpires(g, m) \/ GiveUp(g, m)
  PROVE  TypeInv'
<1>1. PICK s \in Statuses : status' = [status EXCEPT ![g][m] = s]
  BY DEF AckWaitExpires, GiveUp, Expire, Exceed, Statuses, Outstanding, Final
<1>2. status' \in [Groups -> [Messages -> Statuses]]
  BY <1>1, StatusType
<1>. QED
  BY <1>2, ServerTypes DEF AckWaitExpires, GiveUp, Expire, Exceed

\* The steps of a worker, those it fails at included.
LEMMA TypeWorkerStep ==
  ASSUME TypeInv, NEW w \in Workers,
         WorkerStep(w) \/ StartLoopFails(w) \/ NextThrows(w)
  PROVE  TypeInv'
<1>1. CASE StartLoop(w) \/ NextExpires(w) \/ ResumeLoop(w)
  BY <1>1, StreamUnchanged, LoopTopTypes, HistoryUnchanged
  DEF StartLoop, NextExpires, ResumeLoop, TypeInv
<1>2. CASE StartLoopFails(w)
  BY <1>2, StreamUnchanged, GoToTypes, HistoryUnchanged
  DEF StartLoopFails, TypeInv, Points, Busy
<1>3. CASE NextThrows(w)
  BY <1>3, StreamUnchanged, LoopTopTypes, GoToTypes, HistoryUnchanged
  DEF NextThrows, TypeInv, Points, Busy
<1>4. ASSUME NEW m \in Messages, Deliver(w, m)
      PROVE  TypeInv'
  BY <1>4, TypeDeliver
<1>5. CASE Accept(w)
  <2>1. PICK point \in {"check", "handle"} : GoTo(w, point)
    BY <1>5 DEF Accept
  <2>. QED
    BY <1>5, <2>1, StreamUnchanged, GoToTypes, HistoryUnchanged
    DEF Accept, TypeInv, Points, Busy
<1>6. CASE Reject(w) \/ CheckFails(w) \/ HandlerThrows(w)
  BY <1>6, FailTypes, HistoryUnchanged
  DEF Reject, CheckFails, HandlerThrows, TypeInv, Busy
<1>7. CASE CheckDuplicate(w)
  <2>1. CASE Respond(w, "ack") /\ LoopTop(w)
    BY <1>7, <2>1, RespondTypes, LoopTopTypes, HistoryUnchanged
    DEF CheckDuplicate, TypeInv, Busy
  <2>2. CASE UNCHANGED streamVars /\ GoTo(w, "handle")
    BY <1>7, <2>2, StreamUnchanged, GoToTypes, HistoryUnchanged
    DEF CheckDuplicate, TypeInv, Busy, Points
  <2>. QED
    BY <1>7, <2>1, <2>2 DEF CheckDuplicate
<1>8. CASE HandlerSucceeds(w)
  <2>1. pc[w] \in Busy /\ "ack" \in Points
    BY <1>8 DEF HandlerSucceeds, Busy, Points
  <2>2. handled' \in [Groups -> [Messages -> SUBSET Nat]]
    BY <1>8, <2>1, BusyMessage DEF HandlerSucceeds, TypeInv, HistoryTypeOK
  <2>3. HistoryTypeOK'
    BY <1>8, <2>2 DEF HandlerSucceeds, TypeInv, HistoryTypeOK
  <2>. QED
    BY <1>8, <2>1, <2>3, StreamUnchanged, GoToTypes DEF HandlerSucceeds, TypeInv
<1>9. CASE Acknowledge(w)
  <2>1. pc[w] \in Busy /\ Respond(w, "ack")
    BY <1>9 DEF Acknowledge, Busy
  <2>2. StreamTypeOK' /\ log' = log
    BY <2>1, RespondTypes
  <2>3. WorkerTypeOK' /\ JobOK'
    <3>1. CASE Group[w] \in Idempotent
      <4>1. /\ pc' = [pc EXCEPT ![w] = "mark"]
            /\ job' = [job EXCEPT ![w] = Replied(job[w])]
            /\ UNCHANGED <<consumers, isShuttingDown>>
        BY <1>9, <3>1 DEF Acknowledge
      <4>2. /\ Replied(job[w]) \in Jobs
            /\ Replied(job[w]).msg = job[w].msg
        BY DEF Replied, Jobs, TypeInv, WorkerTypeOK
      <4>3. WorkerTypeOK'
        BY <4>1, <4>2 DEF TypeInv, WorkerTypeOK, Points
      <4>4. JobOK'
        BY <2>1, <2>2, <4>1, <4>2 DEF TypeInv, WorkerTypeOK, JobOK
      <4>. QED
        BY <4>3, <4>4
    <3>2. CASE Group[w] \notin Idempotent
      BY <1>9, <2>2, <3>2, LoopTopTypes DEF Acknowledge
    <3>. QED
      BY <3>1, <3>2
  <2>. QED
    BY <1>9, <2>2, <2>3, HistoryUnchanged DEF Acknowledge, TypeInv
<1>10. CASE MarkProcessed(w) \/ MarkFails(w)
  <2>1. pc[w] \in Busy
    BY <1>10 DEF MarkProcessed, MarkFails, Busy
  <2>2. keys' \subseteq IdempotencyKeys
    BY <1>10, <2>1, BusyMessage
    DEF MarkProcessed, MarkFails, TypeInv, HistoryTypeOK
  <2>3. HistoryTypeOK'
    BY <1>10, <2>2 DEF MarkProcessed, MarkFails, TypeInv, HistoryTypeOK
  <2>4. CASE MarkProcessed(w)
    BY <2>3, <2>4, StreamUnchanged, LoopTopTypes DEF MarkProcessed, TypeInv
  <2>5. CASE MarkFails(w)
    BY <2>1, <2>3, <2>5, FailTypes DEF MarkFails, TypeInv
  <2>. QED
    BY <1>10, <2>4, <2>5
<1>11. CASE moveToDeadLetterQueue(w)
  <2>1. pc[w] \in Busy
    BY <1>11 DEF moveToDeadLetterQueue, Busy
  <2>2. dead' \in [Groups -> [Messages -> Nat]]
    BY <1>11, <2>1, BusyMessage DEF moveToDeadLetterQueue, TypeInv, HistoryTypeOK
  <2>3. HistoryTypeOK'
    BY <1>11, <2>2 DEF moveToDeadLetterQueue, TypeInv, HistoryTypeOK
  <2>. QED
    BY <1>11, <2>1, <2>3, RespondTypes, LoopTopTypes
    DEF moveToDeadLetterQueue, TypeInv
<1>12. CASE DeadLetterFails(w)
  BY <1>12, RespondTypes, LoopTopTypes, HistoryUnchanged
  DEF DeadLetterFails, TypeInv, Busy
<1>. QED
  BY <1>1, <1>2, <1>3, <1>4, <1>5, <1>6, <1>7, <1>8, <1>9, <1>10, <1>11, <1>12
  DEF WorkerStep

LEMMA TypeNext == TypeInv /\ [Next]_vars => TypeInv'
<1>. SUFFICES ASSUME TypeInv, [Next]_vars
              PROVE  TypeInv'
  OBVIOUS
<1>1. ASSUME NEW e \in Envelopes, Publish(e)
      PROVE  TypeInv'
  BY <1>1, TypePublish
<1>2. ASSUME NEW w \in Workers, Subscribe(w)
      PROVE  TypeInv'
  BY <1>2, TypeSubscribe
<1>3. ASSUME NEW w \in Workers,
             WorkerStep(w) \/ StartLoopFails(w) \/ NextThrows(w)
      PROVE  TypeInv'
  BY <1>3, TypeWorkerStep
<1>4. ASSUME NEW w \in Workers, unsubscribe(w)
      PROVE  TypeInv'
  <2>1. WorkerTypeOK' /\ JobOK'
    BY <1>4 DEF unsubscribe, TypeInv, WorkerTypeOK, JobOK, streamVars
  <2>. QED
    BY <1>4, <2>1, StreamUnchanged, HistoryUnchanged DEF unsubscribe, TypeInv
<1>5. ASSUME NEW w \in Workers, NEW m \in Messages, DeliveryLost(w, m)
      PROVE  TypeInv'
  <2>1. StreamTypeOK' /\ log' = log
    BY <1>5, HandOutTypes, ConsumerAssumption DEF DeliveryLost
  <2>2. Len(log) \in Nat
    BY DEF TypeInv, StreamTypeOK
  <2>. QED
    BY <1>5, <2>1, <2>2, WorkersUnchanged, HistoryUnchanged DEF DeliveryLost, TypeInv
<1>6. ASSUME NEW r \in replies, ReplyArrives(r)
      PROVE  TypeInv'
  BY <1>6, TypeReplyArrives
<1>7. ASSUME NEW r \in replies, ReplyLost(r)
      PROVE  TypeInv'
  BY <1>7, ServerTypes DEF ReplyLost, LoseReply, TypeInv, StreamTypeOK
<1>8. ASSUME NEW g \in Groups, NEW m \in Messages,
             AckWaitExpires(g, m) \/ GiveUp(g, m)
      PROVE  TypeInv'
  BY <1>8, TypeServer
<1>9. ASSUME NEW id \in Ids, MessageIdExpires(id)
      PROVE  TypeInv'
  BY <1>9, ServerTypes DEF MessageIdExpires, WindowExpires, TypeInv, StreamTypeOK
<1>10. ASSUME NEW k \in keys, KeyExpires(k)
       PROVE  TypeInv'
  <2>1. HistoryTypeOK'
    BY <1>10 DEF KeyExpires, TypeInv, HistoryTypeOK
  <2>2. Len(log) \in Nat
    BY DEF TypeInv, StreamTypeOK
  <2>. QED
    BY <1>10, <2>1, <2>2, StreamUnchanged, WorkersUnchanged DEF KeyExpires, TypeInv
<1>11. ASSUME NEW p \in Processes, onModuleDestroy(p)
       PROVE  TypeInv'
  <2>1. WorkerTypeOK' /\ JobOK'
    BY <1>11
    DEF onModuleDestroy, KeysWithout, TypeInv, WorkerTypeOK, JobOK, streamVars
  <2>. QED
    BY <1>11, <2>1, StreamUnchanged, HistoryUnchanged DEF onModuleDestroy, TypeInv
<1>12. ASSUME NEW p \in Processes, Exit(p)
       PROVE  TypeInv'
  BY <1>12, TypeExit
<1>13. CASE UNCHANGED vars
  <2>1. Len(log) \in Nat
    BY DEF TypeInv, StreamTypeOK
  <2>. QED
    BY <1>13, <2>1, StreamUnchanged, WorkersUnchanged, HistoryUnchanged
    DEF vars, TypeInv
<1>. QED
  BY <1>1, <1>2, <1>3, <1>4, <1>5, <1>6, <1>7, <1>8, <1>9, <1>10, <1>11,
     <1>12, <1>13
  DEF Next

\* Every value the model computes has its type: the type invariant of the
\* consumers, and the fact that a busy worker's message is in the stream.
THEOREM TypesInvariant == Spec => []TypeInv
  BY TypeInit, TypeNext, PTL DEF Spec

\* The type invariant as the runs check it.
THEOREM TypeCorrect == Spec => []TypeOK
  BY TypesInvariant, TypeInvTypeOK, PTL

-----------------------------------------------------------------------------
(* What a step can change *)

LEMMA LogEffect ==
  ASSUME [Next]_vars
  PROVE  log' = log \/ \E e \in Envelopes : log' = Append(log, e)
<1>1. CASE \E e \in Envelopes : Publish(e)
  BY <1>1 DEF Publish, Store
<1>2. ASSUME NEW w \in Workers, WorkerStep(w)
      PROVE  log' = log
  BY <1>2
  DEF WorkerStep, streamVars, StartLoop, Deliver, HandOut, NextExpires,
      ResumeLoop, Accept, Reject, Fail, Respond, CheckDuplicate, CheckFails,
      HandlerSucceeds, HandlerThrows, Acknowledge, MarkProcessed, MarkFails,
      moveToDeadLetterQueue, DeadLetterFails
<1>. QED
  BY <1>1, <1>2
  DEF Next, vars, streamVars, Subscribe, StartLoopFails, DeliveryLost, HandOut,
      NextThrows, ReplyArrives, ApplyReply, ReplyLost, LoseReply,
      AckWaitExpires, Expire, GiveUp, Exceed, MessageIdExpires, WindowExpires,
      KeyExpires, unsubscribe, onModuleDestroy, Exit

LEMMA HandledEffect ==
  ASSUME [Next]_vars
  PROVE  handled' = handled \/ \E w \in Workers : HandlerSucceeds(w)
  BY DEF Next, WorkerStep, vars, Publish, Subscribe,
         StartLoop, StartLoopFails, Deliver, DeliveryLost, NextExpires,
         NextThrows, ResumeLoop, Accept, Reject, CheckDuplicate,
         CheckFails, HandlerThrows, Acknowledge, MarkProcessed,
         MarkFails, moveToDeadLetterQueue, DeadLetterFails, ReplyArrives,
         ReplyLost, AckWaitExpires, GiveUp,
         MessageIdExpires, KeyExpires, unsubscribe, onModuleDestroy, Exit

LEMMA StatusEffect ==
  ASSUME [Next]_vars
  PROVE  \/ status' = status
         \/ \E w \in Workers, m \in Messages : HandOut(Group[w], m)
         \/ \E r \in replies : ApplyReply(r)
         \/ \E g \in Groups, m \in Messages : AckWaitExpires(g, m) \/ Exceed(g, m)
  BY DEF Next, WorkerStep, vars, streamVars, Publish, Store, Subscribe,
         StartLoop, StartLoopFails, Deliver, DeliveryLost, NextExpires,
         NextThrows, ResumeLoop, Accept, Reject, Fail, Respond, CheckDuplicate,
         CheckFails, HandlerSucceeds, HandlerThrows, Acknowledge, MarkProcessed,
         MarkFails, moveToDeadLetterQueue, DeadLetterFails, ReplyArrives,
         ReplyLost, LoseReply, GiveUp,
         MessageIdExpires, WindowExpires, KeyExpires, unsubscribe,
         onModuleDestroy, Exit

LEMMA RepliesEffect ==
  ASSUME [Next]_vars
  PROVE  \/ replies' \subseteq replies
         \/ \E w \in Workers :
              \/ pc[w] = "ack" /\ Respond(w, "ack")
              \/ /\ pc[w] = "check" /\ Respond(w, "ack")
                 /\ getIdempotencyKey(job[w].msg) \in keys
              \/ pc[w] \in Busy /\ (Respond(w, "nak") \/ Respond(w, "term"))
<1>1. CASE UNCHANGED replies
  BY <1>1
<1>2. ASSUME NEW w \in Workers, WorkerStep(w), replies' # replies
      PROVE  \/ pc[w] = "ack" /\ Respond(w, "ack")
             \/ /\ pc[w] = "check" /\ Respond(w, "ack")
                /\ getIdempotencyKey(job[w].msg) \in keys
             \/ pc[w] \in Busy /\ (Respond(w, "nak") \/ Respond(w, "term"))
  BY <1>2 DEF WorkerStep, streamVars, StartLoop, Deliver, HandOut, NextExpires,
         ResumeLoop, Accept, Reject, Fail, CheckDuplicate, CheckFails,
         HandlerSucceeds, HandlerThrows, Acknowledge, MarkProcessed, MarkFails,
         moveToDeadLetterQueue, DeadLetterFails, Busy
<1>3. CASE \E r \in replies : ReplyArrives(r) \/ ReplyLost(r)
  BY <1>3 DEF ReplyArrives, ApplyReply, ReplyLost, LoseReply
<1>. QED
  BY <1>1, <1>2, <1>3
  DEF Next, vars, streamVars, Publish, Store, Subscribe, StartLoopFails,
      DeliveryLost, HandOut, NextThrows, AckWaitExpires, Expire, GiveUp, Exceed,
      MessageIdExpires, WindowExpires, KeyExpires, unsubscribe,
      onModuleDestroy, Exit

LEMMA KeysEffect ==
  ASSUME [Next]_vars
  PROVE  \/ keys' \subseteq keys
         \/ \E w \in Workers :
              /\ pc[w] = "mark"
              /\ keys' = keys \union {getIdempotencyKey(job[w].msg)}
  BY DEF Next, WorkerStep, vars, Publish, Subscribe,
         StartLoop, StartLoopFails, Deliver, DeliveryLost, NextExpires,
         NextThrows, ResumeLoop, Accept, Reject, CheckDuplicate, CheckFails,
         HandlerSucceeds, HandlerThrows, Acknowledge, MarkProcessed, MarkFails,
         moveToDeadLetterQueue, DeadLetterFails, ReplyArrives, ReplyLost,
         AckWaitExpires, GiveUp, MessageIdExpires, KeyExpires, unsubscribe,
         onModuleDestroy, Exit

LEMMA DeadEffect ==
  ASSUME [Next]_vars
  PROVE  dead' = dead \/ \E w \in Workers : moveToDeadLetterQueue(w)
  BY DEF Next, WorkerStep, vars, Publish, Subscribe,
         StartLoop, StartLoopFails, Deliver, DeliveryLost, NextExpires,
         NextThrows, ResumeLoop, Accept, Reject, CheckDuplicate, CheckFails,
         HandlerSucceeds, HandlerThrows, Acknowledge, MarkProcessed, MarkFails,
         DeadLetterFails, ReplyArrives, ReplyLost,
         AckWaitExpires, GiveUp, MessageIdExpires, KeyExpires, unsubscribe,
         onModuleDestroy, Exit

LEMMA DeliveriesEffect ==
  ASSUME [Next]_vars
  PROVE  \/ deliveries' = deliveries
         \/ \E w \in Workers, m \in Messages :
              HandOut(Group[w], m) /\ (Deliver(w, m) \/ UNCHANGED workerVars)
  BY DEF Next, WorkerStep, vars, streamVars, Publish, Store, Subscribe,
         StartLoop, StartLoopFails, Deliver, DeliveryLost, NextExpires,
         NextThrows, ResumeLoop, Accept, Reject, Fail, Respond, CheckDuplicate,
         CheckFails, HandlerSucceeds, HandlerThrows, Acknowledge, MarkProcessed,
         MarkFails, moveToDeadLetterQueue, DeadLetterFails, ReplyArrives,
         ApplyReply, ReplyLost, LoseReply, AckWaitExpires, Expire, GiveUp, Exceed,
         MessageIdExpires, WindowExpires, KeyExpires, unsubscribe,
         onModuleDestroy, Exit

LEMMA MaxDeliverEffect ==
  ASSUME [Next]_vars
  PROVE  maxDeliver' = maxDeliver \/ \E w \in Workers : Subscribe(w)
  BY DEF Next, WorkerStep, vars, streamVars, Publish, Store,
         StartLoop, StartLoopFails, Deliver, DeliveryLost, HandOut, NextExpires,
         NextThrows, ResumeLoop, Accept, Reject, Fail, Respond, CheckDuplicate,
         CheckFails, HandlerSucceeds, HandlerThrows, Acknowledge, MarkProcessed,
         MarkFails, moveToDeadLetterQueue, DeadLetterFails, ReplyArrives,
         ApplyReply, ReplyLost, LoseReply, AckWaitExpires, Expire, GiveUp, Exceed,
         MessageIdExpires, WindowExpires, KeyExpires, unsubscribe,
         onModuleDestroy, Exit

\* How a worker can move: it takes a delivery, it goes on with the message it
\* has, or it has none afterwards.
Moves(w) ==
    \/ pc'[w] = pc[w] /\ job'[w] = job[w]
    \/ pc'[w] \notin Busy
    \/ \E m \in Messages : Deliver(w, m)
    \/ /\ pc[w] \in Busy
       /\ job'[w] = job[w]
       /\ \/ pc[w] = "received" /\ pc'[w] = "check" /\ Group[w] \in Idempotent
          \/ pc[w] \in {"received", "check"} /\ pc'[w] = "handle"
          \/ HandlerSucceeds(w)
          \/ pc'[w] = "dlq" /\ job[w].attempt >= MaxRetries[w]
    \/ /\ pc[w] = "ack" /\ pc'[w] = "mark" /\ Group[w] \in Idempotent
       /\ job'[w] = Replied(job[w])

LEMMA OwnMove ==
  ASSUME TypeInv, NEW w \in Workers,
         \/ WorkerStep(w) \/ StartLoopFails(w) \/ NextThrows(w) \/ Subscribe(w)
  PROVE  Moves(w)
<1>. USE DEF TypeInv, WorkerTypeOK, LoopTop, GoTo, Busy, Moves
<1>1. CASE StartLoop(w) \/ NextExpires(w) \/ ResumeLoop(w) \/ StartLoopFails(w)
           \/ NextThrows(w) \/ Subscribe(w)
  BY <1>1 DEF StartLoop, NextExpires, ResumeLoop, StartLoopFails, NextThrows,
              Subscribe, Active
<1>2. ASSUME pc[w] \in Busy, Fail(w)
      PROVE  Moves(w)
  BY <1>2, ConsumerAssumption DEF Fail, Active, Jobs
<1>3. CASE Reject(w) \/ CheckFails(w) \/ HandlerThrows(w) \/ MarkFails(w)
  <2>1. pc[w] \in Busy /\ Fail(w)
    BY <1>3 DEF Reject, CheckFails, HandlerThrows, MarkFails
  <2>. QED
    BY <2>1, <1>2
<1>4. CASE Accept(w)
  BY <1>4 DEF Accept
<1>5. CASE CheckDuplicate(w)
  BY <1>5 DEF CheckDuplicate, Active
<1>6. CASE HandlerSucceeds(w)
  BY <1>6 DEF HandlerSucceeds
<1>7. CASE Acknowledge(w)
  BY <1>7 DEF Acknowledge, Active
<1>8. CASE MarkProcessed(w) \/ moveToDeadLetterQueue(w) \/ DeadLetterFails(w)
  BY <1>8 DEF MarkProcessed, moveToDeadLetterQueue, DeadLetterFails, Active
<1>. QED
  BY <1>1, <1>3, <1>4, <1>5, <1>6, <1>7, <1>8 DEF WorkerStep

LEMMA OthersUnmoved ==
  ASSUME TypeInv, NEW w \in Workers, NEW v \in Workers, v # w,
         \/ WorkerStep(w) \/ StartLoopFails(w) \/ NextThrows(w) \/ Subscribe(w)
  PROVE  pc'[v] = pc[v] /\ job'[v] = job[v]
<1>. USE DEF TypeInv, WorkerTypeOK, LoopTop, GoTo
<1>1. CASE \E m \in Messages : Deliver(w, m)
  BY <1>1 DEF Deliver
<1>2. CASE Fail(w)
  BY <1>2 DEF Fail
<1>3. CASE Acknowledge(w)
  BY <1>3 DEF Acknowledge
<1>. QED
  BY <1>1, <1>2, <1>3
  DEF WorkerStep, StartLoop, NextExpires, ResumeLoop, StartLoopFails, NextThrows,
      Subscribe, Reject, CheckFails, HandlerThrows, MarkFails, Accept,
      CheckDuplicate, HandlerSucceeds, MarkProcessed, moveToDeadLetterQueue,
      DeadLetterFails

LEMMA WorkerEffect ==
  ASSUME TypeInv, [Next]_vars
  PROVE  \A v \in Workers : Moves(v)
<1>1. CASE \E w \in Workers :
             WorkerStep(w) \/ StartLoopFails(w) \/ NextThrows(w) \/ Subscribe(w)
  BY <1>1, OwnMove, OthersUnmoved DEF Moves
<1>2. CASE \E p \in Processes : Exit(p)
  BY <1>2 DEF Exit, Moves, Busy
<1>3. CASE UNCHANGED <<pc, job>>
  BY <1>3 DEF Moves
<1>. QED
  BY <1>1, <1>2, <1>3
  DEF Next, vars, workerVars, Publish, DeliveryLost, ReplyArrives, ReplyLost,
      AckWaitExpires, GiveUp, MessageIdExpires, KeyExpires, unsubscribe,
      onModuleDestroy

-----------------------------------------------------------------------------
(* What is acknowledged was handled *)

Witnessed(g, m) ==
    \/ handled[g][m] # {}
    \/ g \in Idempotent /\ KeyWasHandled(getIdempotencyKey(m))

\* The strengthening: the same of the acknowledgements on their way, of a worker
\* about to acknowledge or to store a key, and of the keys Redis holds.
AckInv ==
    /\ \A g \in Groups, m \in Messages :
         status[g][m] = "acked" => m \in 1 .. Len(log) /\ Witnessed(g, m)
    /\ \A r \in replies :
         r.kind = "ack" => r.msg \in 1 .. Len(log) /\ Witnessed(r.group, r.msg)
    /\ \A w \in Workers :
         pc[w] \in {"ack", "mark"} => handled[Group[w]][job[w].msg] # {}
    /\ \A w \in Workers : pc[w] \in {"check", "mark"} => Group[w] \in Idempotent
    /\ \A key \in keys : KeyWasHandled(key)

LEMMA AckInit == Init => AckInv
  BY DEF Init, StreamInit, AckInv

\* The log and the history only grow, so a witness stays one.
LEMMA LogGrows ==
  ASSUME TypeInv, [Next]_vars, NEW k \in 1 .. Len(log)
  PROVE  /\ k \in 1 .. Len(log')
         /\ log'[k] = log[k]
         /\ getIdempotencyKey(k)' = getIdempotencyKey(k)
<1>1. k \in 1 .. Len(log') /\ log'[k] = log[k]
  BY LogEffect DEF TypeInv, StreamTypeOK
<1>. QED
  BY <1>1 DEF getIdempotencyKey

LEMMA HandledGrows ==
  ASSUME TypeInv, [Next]_vars, NEW g \in Groups, NEW m \in Messages,
         handled[g][m] # {}
  PROVE  handled'[g][m] # {}
<1>1. ASSUME NEW w \in Workers, HandlerSucceeds(w)
      PROVE  handled'[g][m] # {}
  <2>1. Group[w] \in Groups /\ job[w].msg \in Messages
    BY <1>1, BusyMessage DEF HandlerSucceeds, Busy
  <2>. QED
    BY <1>1, <2>1 DEF HandlerSucceeds, TypeInv, HistoryTypeOK
<1>. QED
  BY <1>1, HandledEffect

LEMMA LogInMessages ==
  ASSUME TypeInv, NEW k \in 1 .. Len(log)
  PROVE  k \in Messages
  BY JetStreamAssumption DEF TypeInv, StreamTypeOK, Messages

LEMMA KeyWasHandledGrows ==
  ASSUME TypeInv, [Next]_vars, NEW key, KeyWasHandled(key)
  PROVE  KeyWasHandled(key)'
<1>1. PICK g \in Idempotent, m \in 1 .. Len(log) :
        getIdempotencyKey(m) = key /\ handled[g][m] # {}
  BY DEF KeyWasHandled
<1>2. g \in Groups /\ m \in Messages
  BY ConsumerAssumption, LogInMessages
<1>3. handled'[g][m] # {}
  BY <1>1, <1>2, HandledGrows
<1>4. m \in 1 .. Len(log') /\ getIdempotencyKey(m)' = key
  BY <1>1, LogGrows
<1>. QED
  BY <1>3, <1>4 DEF KeyWasHandled

LEMMA WitnessedGrows ==
  ASSUME TypeInv, [Next]_vars, NEW g \in Groups, NEW m \in 1 .. Len(log),
         Witnessed(g, m)
  PROVE  Witnessed(g, m)' /\ m \in 1 .. Len(log')
<1>1. m \in Messages /\ m \in 1 .. Len(log')
      /\ getIdempotencyKey(m)' = getIdempotencyKey(m)
  BY LogInMessages, LogGrows
<1>2. CASE handled[g][m] # {}
  BY <1>1, <1>2, HandledGrows DEF Witnessed
<1>3. CASE g \in Idempotent /\ KeyWasHandled(getIdempotencyKey(m))
  BY <1>1, <1>3, KeyWasHandledGrows DEF Witnessed
<1>. QED
  BY <1>2, <1>3 DEF Witnessed

LEMMA AckStatus ==
  ASSUME TypeInv, AckInv, [Next]_vars,
         NEW g \in Groups, NEW m \in Messages, status'[g][m] = "acked"
  PROVE  m \in 1 .. Len(log) /\ Witnessed(g, m)
<1>. USE ConsumerAssumption DEF TypeInv, StreamTypeOK
<1>1. CASE status[g][m] = "acked"
  BY <1>1 DEF AckInv
<1>2. ASSUME NEW h \in Groups, NEW k \in Messages, HandOut(h, k)
      PROVE  status[g][m] = "acked"
  BY <1>2 DEF HandOut
<1>3. ASSUME NEW r \in replies, ApplyReply(r), status[g][m] # "acked"
      PROVE  r.kind = "ack" /\ r.group = g /\ r.msg = m
  BY <1>3 DEF ApplyReply, AfterReply, Replies
<1>4. ASSUME NEW h \in Groups, NEW k \in Messages,
             AckWaitExpires(h, k) \/ Exceed(h, k)
      PROVE  status[g][m] = "acked"
  <2>1. Expire(h, k) \/ Exceed(h, k)
    BY <1>4 DEF AckWaitExpires
  <2>2. CASE Expire(h, k)
    BY <2>2 DEF Expire
  <2>3. CASE Exceed(h, k)
    BY <2>3 DEF Exceed
  <2>. QED
    BY <2>1, <2>2, <2>3
<1>. QED
  BY <1>1, <1>2, <1>3, <1>4, StatusEffect DEF AckInv

LEMMA AckReplies ==
  ASSUME TypeInv, AckInv, [Next]_vars,
         NEW r \in replies', r.kind = "ack"
  PROVE  r.group \in Groups /\ r.msg \in 1 .. Len(log) /\ Witnessed(r.group, r.msg)
<1>1. CASE r \in replies
  BY <1>1 DEF AckInv, TypeInv, StreamTypeOK, Replies
<1>2. ASSUME NEW w \in Workers, pc[w] \in Busy, r \notin replies,
             Respond(w, "ack") \/ Respond(w, "nak") \/ Respond(w, "term")
      PROVE  /\ Respond(w, "ack")
             /\ r.group = Group[w] /\ r.group \in Groups
             /\ r.msg = job[w].msg /\ r.msg \in 1 .. Len(log)
  BY <1>2, BusyMessage DEF Respond
<1>3. ASSUME NEW w \in Workers, pc[w] = "ack", Respond(w, "ack"), r \notin replies
      PROVE  r.group \in Groups /\ r.msg \in 1 .. Len(log) /\ Witnessed(r.group, r.msg)
  BY <1>2, <1>3 DEF Busy, AckInv, Witnessed
<1>4. ASSUME NEW w \in Workers, pc[w] = "check", Respond(w, "ack"), r \notin replies,
             getIdempotencyKey(job[w].msg) \in keys
      PROVE  r.group \in Groups /\ r.msg \in 1 .. Len(log) /\ Witnessed(r.group, r.msg)
  BY <1>2, <1>4 DEF Busy, AckInv, Witnessed
<1>5. ASSUME NEW w \in Workers, pc[w] \in Busy, r \notin replies,
             Respond(w, "nak") \/ Respond(w, "term")
      PROVE  FALSE
  BY <1>5 DEF Respond
<1>. QED
  BY <1>1, <1>3, <1>4, <1>5, RepliesEffect

LEMMA AckWorkers ==
  ASSUME TypeInv, AckInv, [Next]_vars, NEW w \in Workers
  PROVE  /\ pc'[w] \in {"ack", "mark"} => handled'[Group[w]][job'[w].msg] # {}
         /\ pc'[w] \in {"check", "mark"} => Group[w] \in Idempotent
<1>1. Moves(w)
  BY WorkerEffect
<1>2. CASE pc[w] \in {"ack", "mark"} /\ job'[w].msg = job[w].msg
  <2>1. Group[w] \in Groups /\ job[w].msg \in Messages
    BY <1>2, BusyMessage DEF Busy
  <2>2. handled'[Group[w]][job'[w].msg] # {}
    BY <1>2, <2>1, HandledGrows DEF AckInv
  <2>. QED
    BY <1>1, <2>2, <1>2 DEF Moves, AckInv, Busy, Deliver, HandlerSucceeds, TypeInv, WorkerTypeOK
<1>3. CASE HandlerSucceeds(w)
  <2>1. Group[w] \in Groups /\ job[w].msg \in Messages
    BY <1>3, BusyMessage DEF HandlerSucceeds, Busy
  <2>2. handled'[Group[w]][job'[w].msg] # {} /\ pc'[w] = "ack"
    BY <1>3, <2>1
    DEF HandlerSucceeds, GoTo, TypeInv, WorkerTypeOK, HistoryTypeOK
  <2>. QED
    BY <2>2
<1>4. CASE ~HandlerSucceeds(w) /\ ~(pc[w] \in {"ack", "mark"} /\ job'[w].msg = job[w].msg)
  <2>1. ASSUME NEW m \in Messages, Deliver(w, m)
        PROVE  pc'[w] = "received"
    BY <2>1 DEF Deliver, TypeInv, WorkerTypeOK
  <2>. QED
    BY <1>1, <1>4, <2>1 DEF Moves, AckInv, Busy, Replied
<1>. QED
  BY <1>2, <1>3, <1>4

LEMMA AckKeys ==
  ASSUME TypeInv, AckInv, [Next]_vars, NEW key \in keys'
  PROVE  KeyWasHandled(key)
<1>1. ASSUME NEW w \in Workers, pc[w] = "mark"
      PROVE  KeyWasHandled(getIdempotencyKey(job[w].msg))
  <2>1. job[w].msg \in 1 .. Len(log)
    BY <1>1, BusyMessage DEF Busy
  <2>. QED
    BY <1>1, <2>1 DEF AckInv, KeyWasHandled
<1>. QED
  BY <1>1, KeysEffect DEF AckInv

LEMMA AckNext == TypeInv /\ AckInv /\ [Next]_vars => AckInv'
<1>. SUFFICES ASSUME TypeInv, AckInv, [Next]_vars
              PROVE  AckInv'
  OBVIOUS
<1>1. ASSUME NEW g \in Groups, NEW m \in Messages, status'[g][m] = "acked"
      PROVE  m \in 1 .. Len(log') /\ Witnessed(g, m)'
  BY <1>1, AckStatus, WitnessedGrows
<1>2. ASSUME NEW r \in replies', r.kind = "ack"
      PROVE  r.msg \in 1 .. Len(log') /\ Witnessed(r.group, r.msg)'
  BY <1>2, AckReplies, WitnessedGrows
<1>3. ASSUME NEW key \in keys'
      PROVE  KeyWasHandled(key)'
  BY AckKeys, KeyWasHandledGrows
<1>. QED
  BY <1>1, <1>2, <1>3, AckWorkers DEF AckInv

LEMMA AckInvImplies == TypeInv /\ AckInv => AckedWasHandled
  BY LogInMessages DEF AckInv, AckedWasHandled, Witnessed

\* No message is acknowledged unhandled: not by a crash between two steps, a lost
\* or a late reply, an expired key, or a Redis call that failed or was executed
\* all the same.
THEOREM NothingAckedUnhandled == Spec => []AckedWasHandled
<1>1. Spec => []AckInv
  BY AckInit, AckNext, TypesInvariant, PTL DEF Spec
<1>. QED
  BY <1>1, TypesInvariant, AckInvImplies, PTL

-----------------------------------------------------------------------------
(* Dead letters are published once *)

\* The subscriptions of a group agree on maxRetries.
UniformRetries ==
    \A v, w \in Workers : Group[v] = Group[w] => MaxRetries[v] = MaxRetries[w]

\* The strengthening: max_deliver is what the workers count up to, deliveries
\* stay within it, workers of a group that have the same message have different
\* deliveries of it, and a dead letter uses the last delivery up.
DeadInv ==
    /\ \A w \in Workers : maxDeliver[Group[w]] \in {0, MaxRetries[w]}
    /\ \A g \in Groups, m \in Messages :
         /\ deliveries[g][m] <= maxDeliver[g]
         /\ status[g][m] = "new" => deliveries[g][m] = 0
    /\ \A w \in Workers : pc[w] \in Busy =>
         /\ job[w].attempt >= 1
         /\ job[w].attempt <= deliveries[Group[w]][job[w].msg]
    /\ \A v, w \in Workers :
         /\ v # w
         /\ Group[v] = Group[w]
         /\ pc[v] \in Busy
         /\ pc[w] \in Busy
         /\ job[v].msg = job[w].msg
         => job[v].attempt # job[w].attempt
    /\ \A w \in Workers : pc[w] = "dlq" => job[w].attempt >= MaxRetries[w]
    /\ \A g \in Groups, m \in Messages : dead[g][m] # 0 =>
         /\ dead[g][m] = 1
         /\ deliveries[g][m] = maxDeliver[g]
         /\ maxDeliver[g] > 0
         /\ \A w \in Workers :
              Group[w] = g /\ pc[w] \in Busy /\ job[w].msg = m
                => job[w].attempt < deliveries[g][m]

LEMMA DeadInit == Init => DeadInv
  BY ConsumerAssumption DEF Init, StreamInit, DeadInv, Busy

LEMMA DeadMaxDeliver ==
  ASSUME UniformRetries, TypeInv, DeadInv, [Next]_vars
  PROVE  /\ \A w \in Workers : maxDeliver'[Group[w]] \in {0, MaxRetries[w]}
         /\ \A g \in Groups : maxDeliver'[g] >= maxDeliver[g]
         /\ \A g \in Groups : maxDeliver[g] > 0 => maxDeliver'[g] = maxDeliver[g]
<1>. USE ConsumerAssumption DEF TypeInv, StreamTypeOK
<1>1. CASE maxDeliver' = maxDeliver
  BY <1>1 DEF DeadInv
<1>2. ASSUME NEW v \in Workers, Subscribe(v)
      PROVE  /\ \A w \in Workers : maxDeliver'[Group[w]] \in {0, MaxRetries[w]}
             /\ \A g \in Groups : maxDeliver'[g] >= maxDeliver[g]
             /\ \A g \in Groups : maxDeliver[g] > 0 => maxDeliver'[g] = maxDeliver[g]
  <2>1. /\ maxDeliver' = [maxDeliver EXCEPT ![Group[v]] = MaxRetries[v]]
        /\ maxDeliver[Group[v]] \in {0, MaxRetries[v]}
        /\ MaxRetries[v] \in Nat
    BY <1>2 DEF Subscribe, DeadInv
  <2>2. ASSUME NEW w \in Workers
        PROVE  maxDeliver'[Group[w]] \in {0, MaxRetries[w]}
    BY <2>1 DEF DeadInv, UniformRetries
  <2>. QED
    BY <2>1, <2>2
<1>. QED
  BY <1>1, <1>2, MaxDeliverEffect

LEMMA HandOutDelivers ==
  ASSUME TypeInv, DeadInv, NEW h \in Groups, NEW k \in Messages, HandOut(h, k)
  PROVE  /\ deliveries[h][k] < maxDeliver[h]
         /\ \A g \in Groups, m \in Messages :
              deliveries'[g][m] = IF g = h /\ m = k THEN deliveries[g][m] + 1
                                  ELSE deliveries[g][m]
         /\ status'[h][k] = "pending"
  BY DEF TypeInv, StreamTypeOK, DeadInv, HandOut, Available

LEMMA DeadDeliveries ==
  ASSUME TypeInv, DeadInv, [Next]_vars, NEW g \in Groups, NEW m \in Messages
  PROVE  /\ deliveries'[g][m] \in Nat
         /\ deliveries'[g][m] >= deliveries[g][m]
         /\ deliveries'[g][m] <= maxDeliver[g]
<1>. USE ConsumerAssumption DEF TypeInv, StreamTypeOK
<1>1. CASE deliveries' = deliveries
  BY <1>1 DEF DeadInv
<1>2. ASSUME NEW w \in Workers, NEW k \in Messages, HandOut(Group[w], k)
      PROVE  /\ deliveries'[g][m] \in Nat
             /\ deliveries'[g][m] >= deliveries[g][m]
             /\ deliveries'[g][m] <= maxDeliver[g]
  <2>1. /\ deliveries[g][m] \in Nat /\ maxDeliver[g] \in Nat
        /\ deliveries[g][m] <= maxDeliver[g]
    BY DEF DeadInv
  <2>2. CASE g = Group[w] /\ m = k
    <3>1. deliveries[g][m] < maxDeliver[g]
      BY <1>2, <2>2, HandOutDelivers
    <3>2. deliveries'[g][m] = deliveries[g][m] + 1
      BY <1>2, <2>2, HandOutDelivers
    <3>. QED
      BY <2>1, <3>1, <3>2
  <2>3. CASE ~(g = Group[w] /\ m = k)
    <3>1. deliveries'[g][m] = deliveries[g][m]
      BY <1>2, <2>3, HandOutDelivers
    <3>. QED
      BY <2>1, <3>1
  <2>. QED
    BY <2>2, <2>3
<1>. QED
  BY <1>1, <1>2, DeliveriesEffect

LEMMA DeadNew ==
  ASSUME TypeInv, DeadInv, [Next]_vars, NEW g \in Groups, NEW m \in Messages,
         status'[g][m] = "new"
  PROVE  deliveries'[g][m] = 0
<1>. USE ConsumerAssumption DEF TypeInv, StreamTypeOK
<1>1. status[g][m] = "new"
  <2>1. ASSUME NEW h \in Groups, NEW k \in Messages, HandOut(h, k)
        PROVE  status[g][m] = "new"
    BY <2>1 DEF HandOut
  <2>2. ASSUME NEW r \in replies, ApplyReply(r)
        PROVE  status[g][m] = "new"
    BY <2>2 DEF ApplyReply, AfterReply, Replies, Outstanding
  <2>3. ASSUME NEW h \in Groups, NEW k \in Messages,
               AckWaitExpires(h, k) \/ Exceed(h, k)
        PROVE  status[g][m] = "new"
    <3>1. Expire(h, k) \/ Exceed(h, k)
      BY <2>3 DEF AckWaitExpires
    <3>2. CASE Expire(h, k)
      BY <3>2 DEF Expire
    <3>3. CASE Exceed(h, k)
      BY <3>3 DEF Exceed
    <3>. QED
      BY <3>1, <3>2, <3>3
  <2>. QED
    BY <2>1, <2>2, <2>3, StatusEffect
<1>2. ASSUME NEW w \in Workers, NEW k \in Messages, HandOut(Group[w], k)
      PROVE  deliveries'[g][m] = deliveries[g][m]
  BY <1>2, HandOutDelivers
<1>. QED
  BY <1>1, <1>2, DeliveriesEffect DEF DeadInv

\* A worker that is busy afterwards had its delivery before, or has just got it.
LEMMA DeadJob ==
  ASSUME TypeInv, DeadInv, [Next]_vars, NEW w \in Workers, pc'[w] \in Busy
  PROVE  \/ /\ pc[w] \in Busy
            /\ job'[w].msg = job[w].msg
            /\ job'[w].attempt = job[w].attempt
            /\ pc'[w] = "dlq" => pc[w] = "dlq" \/ job[w].attempt >= MaxRetries[w]
         \/ \E m \in Messages :
              /\ Deliver(w, m)
              /\ pc'[w] = "received"
              /\ job'[w].msg = m
              /\ job'[w].attempt = deliveries[Group[w]][m] + 1
<1>1. ASSUME NEW m \in Messages, Deliver(w, m)
      PROVE  /\ pc'[w] = "received"
             /\ job'[w].msg = m
             /\ job'[w].attempt = deliveries[Group[w]][m] + 1
  BY <1>1 DEF Deliver, TypeInv, WorkerTypeOK
<1>2. ASSUME HandlerSucceeds(w)
      PROVE  pc'[w] = "ack"
  BY <1>2 DEF HandlerSucceeds, GoTo, TypeInv, WorkerTypeOK
<1>3. CASE \E m \in Messages : Deliver(w, m)
  BY <1>1, <1>3
<1>4. CASE pc[w] = "ack" /\ pc'[w] = "mark" /\ job'[w] = Replied(job[w])
  BY <1>4 DEF Replied, Busy
<1>5. CASE pc[w] \in Busy /\ job'[w] = job[w] /\ HandlerSucceeds(w)
  BY <1>2, <1>5
<1>6. CASE /\ pc[w] \in Busy /\ job'[w] = job[w]
           /\ pc'[w] # "dlq" \/ job[w].attempt >= MaxRetries[w]
  BY <1>6
<1>7. CASE pc'[w] = pc[w] /\ job'[w] = job[w]
  BY <1>7
<1>. QED
  BY <1>3, <1>4, <1>5, <1>6, <1>7, WorkerEffect DEF Moves

LEMMA DeadWorker ==
  ASSUME TypeInv, DeadInv, [Next]_vars, NEW w \in Workers, pc'[w] \in Busy
  PROVE  /\ job'[w].attempt >= 1
         /\ job'[w].attempt <= deliveries'[Group[w]][job'[w].msg]
         /\ pc'[w] = "dlq" => job'[w].attempt >= MaxRetries[w]
<1>. USE ConsumerAssumption
<1>1. CASE /\ pc[w] \in Busy
           /\ job'[w].msg = job[w].msg
           /\ job'[w].attempt = job[w].attempt
           /\ pc'[w] = "dlq" => pc[w] = "dlq" \/ job[w].attempt >= MaxRetries[w]
  <2>1. /\ job[w].attempt \in Nat /\ job[w].attempt >= 1
        /\ deliveries[Group[w]][job[w].msg] \in Nat
        /\ job[w].attempt <= deliveries[Group[w]][job[w].msg]
        /\ Group[w] \in Groups /\ job[w].msg \in Messages
    BY <1>1, BusyMessage DEF DeadInv, TypeInv, StreamTypeOK
  <2>2. /\ deliveries'[Group[w]][job[w].msg] \in Nat
        /\ deliveries'[Group[w]][job[w].msg] >= deliveries[Group[w]][job[w].msg]
    BY <2>1, DeadDeliveries
  <2>3. pc'[w] = "dlq" => job'[w].attempt >= MaxRetries[w]
    BY <1>1 DEF DeadInv
  <2>. QED
    BY <1>1, <2>1, <2>2, <2>3
<1>2. ASSUME NEW m \in Messages,
             /\ Deliver(w, m)
             /\ pc'[w] = "received"
             /\ job'[w].msg = m
             /\ job'[w].attempt = deliveries[Group[w]][m] + 1
      PROVE  /\ job'[w].attempt >= 1
             /\ job'[w].attempt <= deliveries'[Group[w]][job'[w].msg]
             /\ pc'[w] = "dlq" => job'[w].attempt >= MaxRetries[w]
  <2>1. deliveries[Group[w]][m] \in Nat
    BY DEF TypeInv, StreamTypeOK
  <2>2. deliveries'[Group[w]][m] = deliveries[Group[w]][m] + 1
    BY <1>2, HandOutDelivers DEF Deliver
  <2>. QED
    BY <1>2, <2>1, <2>2
<1>. QED
  BY <1>1, <1>2, DeadJob

LEMMA DeadAttempts ==
  ASSUME TypeInv, DeadInv, [Next]_vars, NEW v \in Workers, NEW w \in Workers,
         v # w, Group[v] = Group[w], pc'[v] \in Busy, pc'[w] \in Busy,
         job'[v].msg = job'[w].msg
  PROVE  job'[v].attempt # job'[w].attempt
<1>1. ASSUME NEW x \in Workers, NEW y \in Workers, x # y, Group[x] = Group[y],
             pc'[y] \in Busy, NEW m \in Messages, Deliver(x, m),
             job'[x].attempt = deliveries[Group[x]][m] + 1, job'[y].msg = m
      PROVE  job'[x].attempt # job'[y].attempt
  <2>1. pc[y] \in Busy /\ job'[y] = job[y]
    BY <1>1, OthersUnmoved DEF WorkerStep
  <2>2. job[y].attempt <= deliveries[Group[x]][m] /\ job[y].attempt \in Nat
    BY <1>1, <2>1, BusyMessage DEF DeadInv
  <2>3. deliveries[Group[x]][m] \in Nat
    BY ConsumerAssumption DEF TypeInv, StreamTypeOK
  <2>. QED
    BY <1>1, <2>1, <2>2, <2>3
<1>2. CASE \E m \in Messages :
             Deliver(v, m) /\ job'[v].msg = m
             /\ job'[v].attempt = deliveries[Group[v]][m] + 1
  BY <1>1, <1>2
<1>3. CASE \E m \in Messages :
             Deliver(w, m) /\ job'[w].msg = m
             /\ job'[w].attempt = deliveries[Group[w]][m] + 1
  BY <1>1, <1>3
<1>4. CASE /\ pc[v] \in Busy /\ pc[w] \in Busy
           /\ job'[v].msg = job[v].msg /\ job'[v].attempt = job[v].attempt
           /\ job'[w].msg = job[w].msg /\ job'[w].attempt = job[w].attempt
  <2>1. job[v].msg = job[w].msg
    BY <1>4
  <2>2. job[v].attempt # job[w].attempt
    BY <1>4, <2>1 DEF DeadInv
  <2>. QED
    BY <1>4, <2>2
<1>. QED
  BY <1>2, <1>3, <1>4, DeadJob

\* What DeadInv says of a message that has a dead letter.
UsedUp(g, m) ==
    /\ dead[g][m] = 1
    /\ deliveries[g][m] = maxDeliver[g]
    /\ maxDeliver[g] > 0
    /\ \A w \in Workers :
         Group[w] = g /\ pc[w] \in Busy /\ job[w].msg = m
           => job[w].attempt < deliveries[g][m]

LEMMA UsedUpStays ==
  ASSUME UniformRetries, TypeInv, DeadInv, [Next]_vars,
         NEW g \in Groups, NEW m \in Messages, UsedUp(g, m),
         dead'[g][m] = dead[g][m]
  PROVE  UsedUp(g, m)'
<1>1. /\ maxDeliver'[g] = maxDeliver[g]
      /\ deliveries'[g][m] = deliveries[g][m]
  <2>1. maxDeliver[g] \in Nat /\ deliveries[g][m] \in Nat
    BY DEF TypeInv, StreamTypeOK
  <2>2. maxDeliver'[g] = maxDeliver[g]
    BY <2>1, DeadMaxDeliver DEF UsedUp
  <2>. QED
    BY <2>1, <2>2, DeadDeliveries DEF UsedUp
<1>2. ASSUME NEW w \in Workers, Group[w] = g, pc'[w] \in Busy, job'[w].msg = m
      PROVE  job'[w].attempt < deliveries'[g][m]
  <2>1. ~Deliver(w, m)
    <3>1. ASSUME Deliver(w, m)
          PROVE  FALSE
      <4>1. deliveries'[g][m] = deliveries[g][m] + 1 /\ deliveries[g][m] \in Nat
        BY <1>2, <3>1, HandOutDelivers DEF Deliver, TypeInv, StreamTypeOK
      <4>. QED
        BY <1>1, <4>1
    <3>. QED
      BY <3>1
  <2>2. /\ pc[w] \in Busy
        /\ job'[w].msg = job[w].msg
        /\ job'[w].attempt = job[w].attempt
    BY <1>2, <2>1, DeadJob
  <2>. QED
    BY <1>1, <1>2, <2>2 DEF UsedUp
<1>. QED
  BY <1>1, <1>2 DEF UsedUp

LEMMA DeadLetterStep ==
  ASSUME UniformRetries, TypeInv, DeadInv, [Next]_vars,
         NEW w \in Workers, moveToDeadLetterQueue(w),
         NEW g, g = Group[w], NEW m, m = job[w].msg
  PROVE  UsedUp(g, m)'
<1>1. /\ g \in Groups /\ m \in Messages
      /\ job[w].attempt \in Nat /\ MaxRetries[w] \in Nat
      /\ deliveries[g][m] \in Nat /\ maxDeliver[g] \in Nat /\ dead[g][m] \in Nat
  BY BusyMessage, ConsumerAssumption
  DEF moveToDeadLetterQueue, Busy, TypeInv, StreamTypeOK, HistoryTypeOK
<1>2. /\ job[w].attempt >= 1
      /\ job[w].attempt = deliveries[g][m]
      /\ deliveries[g][m] = maxDeliver[g]
  <2>1. /\ job[w].attempt >= MaxRetries[w]
        /\ job[w].attempt >= 1
        /\ job[w].attempt <= deliveries[g][m]
    BY DEF moveToDeadLetterQueue, DeadInv, Busy
  <2>2. deliveries[g][m] <= maxDeliver[g] /\ maxDeliver[g] \in {0, MaxRetries[w]}
    BY <1>1 DEF DeadInv
  <2>. QED
    BY <1>1, <2>1, <2>2
<1>3. dead[g][m] = 0
  <2>1. ASSUME dead[g][m] # 0
        PROVE  job[w].attempt < deliveries[g][m]
    BY <1>1, <2>1 DEF DeadInv, moveToDeadLetterQueue, Busy
  <2>. QED
    BY <1>1, <1>2, <2>1
<1>4. dead'[g][m] = 1
  BY <1>1, <1>3 DEF moveToDeadLetterQueue, TypeInv, HistoryTypeOK
<1>5. UNCHANGED <<deliveries, maxDeliver>>
  BY DEF moveToDeadLetterQueue, Respond
<1>6. ASSUME NEW v \in Workers, Group[v] = g, pc'[v] \in Busy, job'[v].msg = m
      PROVE  job'[v].attempt < deliveries'[g][m]
  <2>1. v # w
    BY <1>6 DEF moveToDeadLetterQueue, LoopTop, TypeInv, WorkerTypeOK, Busy
  <2>2. pc[v] \in Busy /\ job'[v] = job[v] /\ pc[w] \in Busy
    BY <1>6, <2>1, OthersUnmoved DEF WorkerStep, moveToDeadLetterQueue, Busy
  <2>3. /\ job[v].attempt # job[w].attempt
        /\ job[v].attempt <= deliveries[g][m]
        /\ job[v].attempt \in Nat
    BY <1>6, <2>1, <2>2, BusyMessage DEF DeadInv
  <2>. QED
    BY <1>1, <1>2, <1>5, <2>2, <2>3
<1>. QED
  BY <1>1, <1>2, <1>4, <1>5, <1>6 DEF UsedUp

LEMMA DeadLetters ==
  ASSUME UniformRetries, TypeInv, DeadInv, [Next]_vars,
         NEW g \in Groups, NEW m \in Messages, dead'[g][m] # 0
  PROVE  UsedUp(g, m)'
<1>1. dead[g][m] # 0 => UsedUp(g, m)
  BY DEF DeadInv, UsedUp
<1>2. ASSUME NEW w \in Workers, moveToDeadLetterQueue(w)
      PROVE  UsedUp(g, m)'
  <2>1. CASE g = Group[w] /\ m = job[w].msg
    BY <1>2, <2>1, DeadLetterStep
  <2>2. CASE ~(g = Group[w] /\ m = job[w].msg)
    <3>1. Group[w] \in Groups /\ job[w].msg \in Messages
      BY <1>2, BusyMessage DEF moveToDeadLetterQueue, Busy
    <3>2. dead'[g][m] = dead[g][m]
      BY <1>2, <2>2, <3>1 DEF moveToDeadLetterQueue, TypeInv, HistoryTypeOK
    <3>. QED
      BY <1>1, <3>2, UsedUpStays
  <2>. QED
    BY <2>1, <2>2
<1>. QED
  BY <1>1, <1>2, UsedUpStays, DeadEffect

LEMMA DeadNext ==
  ASSUME UniformRetries
  PROVE  TypeInv /\ DeadInv /\ [Next]_vars => DeadInv'
<1>. SUFFICES ASSUME TypeInv, DeadInv, [Next]_vars
              PROVE  DeadInv'
  OBVIOUS
<1>1. ASSUME NEW g \in Groups, NEW m \in Messages
      PROVE  deliveries'[g][m] <= maxDeliver'[g]
  <2>1. /\ deliveries'[g][m] \in Nat
        /\ deliveries'[g][m] <= maxDeliver[g]
        /\ maxDeliver[g] <= maxDeliver'[g]
    BY DeadDeliveries, DeadMaxDeliver
  <2>2. maxDeliver[g] \in Nat /\ maxDeliver'[g] \in Nat
    BY TypeNext DEF TypeInv, StreamTypeOK
  <2>. QED
    BY <2>1, <2>2
<1>2. \A g \in Groups, m \in Messages :
        dead'[g][m] # 0 =>
          /\ dead'[g][m] = 1
          /\ deliveries'[g][m] = maxDeliver'[g]
          /\ maxDeliver'[g] > 0
          /\ \A w \in Workers :
               Group[w] = g /\ pc'[w] \in Busy /\ job'[w].msg = m
                 => job'[w].attempt < deliveries'[g][m]
  BY DeadLetters DEF UsedUp
<1>3. \A v, w \in Workers :
        /\ v # w
        /\ Group[v] = Group[w]
        /\ pc'[v] \in Busy
        /\ pc'[w] \in Busy
        /\ job'[v].msg = job'[w].msg
        => job'[v].attempt # job'[w].attempt
  BY DeadAttempts
<1>4. \A w \in Workers :
        pc'[w] \in Busy =>
          /\ job'[w].attempt >= 1
          /\ job'[w].attempt <= deliveries'[Group[w]][job'[w].msg]
  BY DeadWorker
<1>5. \A w \in Workers : pc'[w] = "dlq" => job'[w].attempt >= MaxRetries[w]
  BY DeadWorker DEF Busy
<1>6. \A g \in Groups, m \in Messages :
        status'[g][m] = "new" => deliveries'[g][m] = 0
  BY DeadNew
<1>7. \A w \in Workers : maxDeliver'[Group[w]] \in {0, MaxRetries[w]}
  BY DeadMaxDeliver
<1>. QED
  BY <1>1, <1>2, <1>3, <1>4, <1>5, <1>6, <1>7 DEF DeadInv

LEMMA DeadInvImplies == TypeInv /\ DeadInv => DeadLetteredOnce
  BY DEF TypeInv, HistoryTypeOK, DeadInv, DeadLetteredOnce

\* If the subscriptions of a group agree on maxRetries, a message has at most one
\* dead letter per group, whichever workers have it and whatever interrupts them.
THEOREM DeadLettersAreUnique ==
  ASSUME UniformRetries
  PROVE  Spec => []DeadLetteredOnce
<1>1. Init => DeadInv
  BY DeadInit
<1>2. TypeInv /\ DeadInv /\ [Next]_vars => DeadInv'
  BY DeadNext
<1>3. Spec => []DeadInv
  BY <1>1, <1>2, TypesInvariant, PTL DEF Spec
<1>. QED
  BY <1>3, TypesInvariant, DeadInvImplies, PTL

-----------------------------------------------------------------------------
(* One consumer at a time *)

\* The worker has a delivery it has not answered.
Holds(w) == pc[w] \in Busy /\ ~job[w].replied

\* The strengthening: a message has at most one claim in a group, a worker that
\* holds it or an answer on its way, and only while the server counts it pending.
PromptInv ==
    /\ \A w \in Workers :
         pc[w] \in {"received", "check", "handle", "ack"} => ~job[w].replied
    /\ \A w \in Workers : Holds(w) => status[Group[w]][job[w].msg] = "pending"
    /\ \A r \in replies : status[r.group][r.msg] = "pending"
    /\ \A v, w \in Workers :
         v # w /\ Group[v] = Group[w] /\ Holds(v) /\ Holds(w)
           => job[v].msg # job[w].msg
    /\ \A r, s \in replies : r.group = s.group /\ r.msg = s.msg => r = s
    /\ \A w \in Workers, r \in replies :
         Holds(w) /\ r.group = Group[w] => r.msg # job[w].msg

\* Nobody claims m in g.
Unclaimed(g, m) ==
    /\ \A w \in Workers : Holds(w) /\ Group[w] = g => job[w].msg # m
    /\ \A r \in replies : r.group = g => r.msg # m

LEMMA PromptInit == Init => PromptInv
  BY DEF Init, StreamInit, PromptInv, Holds, Busy

LEMMA NotPendingUnclaimed ==
  ASSUME PromptInv, NEW g, NEW m, status[g][m] # "pending"
  PROVE  Unclaimed(g, m)
  BY DEF PromptInv, Unclaimed

\* The claims a step leaves alone: it makes none, and settles none.
Quiet ==
    /\ status' = status
    /\ replies' \subseteq replies
    /\ \A w \in Workers : Holds(w)' => Holds(w) /\ job'[w].msg = job[w].msg

\* A step that answers for the message w holds, which w gives up.
Answers(w) ==
    /\ status' = status
    /\ Holds(w)
    /\ ~Holds(w)'
    /\ \E r : /\ replies' = replies \union {r}
              /\ r.group = Group[w]
              /\ r.msg = job[w].msg
    /\ \A v \in Workers : v # w => pc'[v] = pc[v] /\ job'[v] = job[v]

\* A step that changes the standing of m in g alone, and no worker.
Settles(g, m) ==
    /\ UNCHANGED workerVars
    /\ replies' \subseteq replies
    /\ \A h \in Groups, k \in Messages :
         ~(h = g /\ k = m) => status'[h][k] = status[h][k]

LEMMA PromptFlags ==
  ASSUME TypeInv, PromptInv, [Next]_vars, NEW w \in Workers,
         pc'[w] \in {"received", "check", "handle", "ack"}
  PROVE  ~job'[w].replied
<1>1. CASE \E m \in Messages : Deliver(w, m)
  BY <1>1 DEF Deliver, TypeInv, WorkerTypeOK
<1>2. CASE pc[w] = "ack" /\ pc'[w] = "mark" /\ job'[w] = Replied(job[w])
  BY <1>2
<1>3. CASE HandlerSucceeds(w) /\ job'[w] = job[w]
  BY <1>3 DEF HandlerSucceeds, PromptInv
<1>4. CASE /\ pc[w] \in {"received", "check", "handle", "ack"}
           /\ job'[w] = job[w]
  BY <1>4 DEF PromptInv
<1>. QED
  BY <1>1, <1>2, <1>3, <1>4, WorkerEffect DEF Moves, Busy

\* A worker step that does not take a delivery is quiet, or it answers.
LEMMA RespondAnswers ==
  ASSUME TypeInv, NEW w \in Workers, pc[w] \in Busy, WorkerStep(w),
         NEW kind, Respond(w, kind), pc'[w] \notin Busy \/ job'[w].replied
  PROVE  Quiet \/ Answers(w)
<1>1. status' = status
  BY DEF Respond
<1>2. ~Holds(w)' /\ \A v \in Workers : v # w => pc'[v] = pc[v] /\ job'[v] = job[v]
  BY OthersUnmoved DEF Holds
<1>3. CASE job[w].replied
  <2>1. replies' = replies
    BY <1>3 DEF Respond
  <2>. QED
    BY <1>1, <1>2, <2>1 DEF Quiet, Holds
<1>4. CASE ~job[w].replied
  <2>. DEFINE r == [kind |-> kind, group |-> Group[w], msg |-> job[w].msg,
                    attempt |-> job[w].attempt]
  <2>1. replies' = replies \union {r} /\ r.group = Group[w] /\ r.msg = job[w].msg
    BY <1>4 DEF Respond
  <2>. QED
    BY <1>1, <1>2, <1>4, <2>1 DEF Answers, Holds
<1>. QED
  BY <1>3, <1>4

LEMMA PromptWorkerStep ==
  ASSUME TypeInv, NEW w \in Workers,
         WorkerStep(w) \/ StartLoopFails(w) \/ NextThrows(w) \/ Subscribe(w)
  PROVE  \/ Quiet
         \/ Answers(w)
         \/ \E m \in Messages : Deliver(w, m)
<1>. USE DEF TypeInv, WorkerTypeOK
<1>1. ASSUME UNCHANGED <<status, replies>>,
             pc'[w] \notin Busy \/ (pc[w] \in Busy /\ job'[w] = job[w])
      PROVE  Quiet
  BY <1>1, OthersUnmoved DEF Quiet, Holds
<1>2. CASE StartLoop(w) \/ NextExpires(w) \/ ResumeLoop(w) \/ StartLoopFails(w)
           \/ NextThrows(w) \/ Subscribe(w)
  <2>1. UNCHANGED <<status, replies>>
    BY <1>2 DEF StartLoop, NextExpires, ResumeLoop, StartLoopFails, NextThrows,
                Subscribe, streamVars
  <2>2. pc'[w] \notin Busy
    BY <1>2 DEF StartLoop, NextExpires, ResumeLoop, StartLoopFails, NextThrows,
                Subscribe, LoopTop, GoTo, Active, Busy
  <2>. QED
    BY <1>1, <2>1, <2>2
<1>3. ASSUME LoopTop(w)
      PROVE  pc'[w] \notin Busy
  BY <1>3 DEF LoopTop, Active, Busy
<1>4. ASSUME NEW point, GoTo(w, point), UNCHANGED streamVars, pc[w] \in Busy
      PROVE  Quiet
  BY <1>1, <1>4 DEF GoTo, streamVars
<1>5. CASE Reject(w) \/ CheckFails(w) \/ HandlerThrows(w) \/ MarkFails(w)
  <2>1. pc[w] \in Busy /\ Fail(w) /\ WorkerStep(w)
    BY <1>5 DEF Reject, CheckFails, HandlerThrows, MarkFails, Busy, WorkerStep
  <2>. QED
    BY <1>3, <1>4, <2>1, RespondAnswers DEF Fail
<1>6. CASE Accept(w) \/ HandlerSucceeds(w)
  BY <1>4, <1>6 DEF Accept, HandlerSucceeds, Busy
<1>7. CASE CheckDuplicate(w)
  BY <1>3, <1>4, <1>7, RespondAnswers DEF CheckDuplicate, Busy, WorkerStep
<1>8. CASE Acknowledge(w)
  <2>1. pc[w] \in Busy /\ Respond(w, "ack") /\ WorkerStep(w)
    BY <1>8 DEF Acknowledge, Busy, WorkerStep
  <2>2. pc'[w] \notin Busy \/ job'[w].replied
    BY <1>3, <1>8 DEF Acknowledge, Replied
  <2>. QED
    BY <2>1, <2>2, RespondAnswers
<1>9. CASE MarkProcessed(w)
  BY <1>1, <1>3, <1>9 DEF MarkProcessed, streamVars
<1>10. CASE moveToDeadLetterQueue(w) \/ DeadLetterFails(w)
  <2>1. pc[w] \in Busy /\ Respond(w, "term") /\ LoopTop(w) /\ WorkerStep(w)
    BY <1>10 DEF moveToDeadLetterQueue, DeadLetterFails, Busy, WorkerStep
  <2>. QED
    BY <1>3, <2>1, RespondAnswers
<1>. QED
  BY <1>2, <1>5, <1>6, <1>7, <1>8, <1>9, <1>10 DEF WorkerStep

LEMMA PromptEffect ==
  ASSUME "slow" \notin Faults, TypeInv, PromptInv, [Next]_vars
  PROVE  \/ Quiet
         \/ \E w \in Workers : Answers(w)
         \/ \E w \in Workers, m \in Messages : Deliver(w, m)
         \/ \E g \in Groups, m \in Messages :
              Unclaimed(g, m) /\ Settles(g, m) /\ replies' = replies
         \/ \E r \in replies :
              Settles(r.group, r.msg) /\ replies' = replies \ {r}
<1>. USE DEF TypeInv, StreamTypeOK
<1>1. ASSUME NEW w \in Workers,
             WorkerStep(w) \/ StartLoopFails(w) \/ NextThrows(w) \/ Subscribe(w)
      PROVE  Quiet \/ Answers(w) \/ \E m \in Messages : Deliver(w, m)
  BY <1>1, PromptWorkerStep
<1>2. ASSUME NEW w \in Workers, NEW m \in Messages, DeliveryLost(w, m)
      PROVE  \E g \in Groups :
               Unclaimed(g, m) /\ Settles(g, m) /\ replies' = replies
  <2>1. Group[w] \in Groups /\ status[Group[w]][m] # "pending"
    BY <1>2, ConsumerAssumption DEF DeliveryLost, HandOut, Available
  <2>2. Unclaimed(Group[w], m)
    BY <2>1, NotPendingUnclaimed
  <2>3. Settles(Group[w], m) /\ replies' = replies
    BY <1>2, <2>1 DEF DeliveryLost, HandOut, Settles
  <2>. QED
    BY <2>1, <2>2, <2>3
<1>3. ASSUME NEW r \in replies, ReplyArrives(r)
      PROVE  Settles(r.group, r.msg) /\ replies' = replies \ {r}
  BY <1>3 DEF ReplyArrives, ApplyReply, Settles, Replies
<1>4. ASSUME NEW g \in Groups, NEW m \in Messages, AckWaitExpires(g, m)
      PROVE  Unclaimed(g, m) /\ Settles(g, m) /\ replies' = replies
  <2>1. Unclaimed(g, m)
    BY <1>4 DEF AckWaitExpires, Abandoned, Unclaimed, Holds
  <2>2. Settles(g, m) /\ replies' = replies
    BY <1>4 DEF AckWaitExpires, Expire, Settles
  <2>. QED
    BY <2>1, <2>2
<1>5. ASSUME NEW g \in Groups, NEW m \in Messages, GiveUp(g, m)
      PROVE  Unclaimed(g, m) /\ Settles(g, m) /\ replies' = replies
  <2>1. Unclaimed(g, m)
    BY <1>5, NotPendingUnclaimed DEF GiveUp, Exceed
  <2>2. Settles(g, m) /\ replies' = replies
    BY <1>5 DEF GiveUp, Exceed, Settles
  <2>. QED
    BY <2>1, <2>2
<1>6. CASE \E p \in Processes : Exit(p)
  BY <1>6 DEF Exit, Quiet, Holds, Busy, streamVars, WorkerTypeOK
<1>7. CASE status' = status /\ replies' \subseteq replies /\ UNCHANGED <<pc, job>>
  BY <1>7 DEF Quiet, Holds
<1>. QED
  BY <1>1, <1>2, <1>3, <1>4, <1>5, <1>6, <1>7
  DEF Next, vars, streamVars, workerVars, Publish, Store, ReplyLost, LoseReply,
      MessageIdExpires, WindowExpires, KeyExpires, unsubscribe, onModuleDestroy

\* The claims of PromptInv, without the flags.
Claims ==
    /\ \A w \in Workers : Holds(w) => status[Group[w]][job[w].msg] = "pending"
    /\ \A r \in replies : status[r.group][r.msg] = "pending"
    /\ \A v, w \in Workers :
         v # w /\ Group[v] = Group[w] /\ Holds(v) /\ Holds(w)
           => job[v].msg # job[w].msg
    /\ \A r, s \in replies : r.group = s.group /\ r.msg = s.msg => r = s
    /\ \A w \in Workers, r \in replies :
         Holds(w) /\ r.group = Group[w] => r.msg # job[w].msg

LEMMA ClaimsQuiet ==
  ASSUME Claims, Quiet
  PROVE  Claims'
  BY DEF Claims, Quiet

LEMMA ClaimsAnswers ==
  ASSUME Claims, NEW w \in Workers, Answers(w)
  PROVE  Claims'
<1>1. PICK r : /\ replies' = replies \union {r}
               /\ r.group = Group[w]
               /\ r.msg = job[w].msg
  BY DEF Answers
<1>2. ASSUME NEW v \in Workers, Holds(v)'
      PROVE  v # w /\ Holds(v) /\ job'[v].msg = job[v].msg
  BY <1>2 DEF Answers, Holds
<1>3. ASSUME NEW s \in replies
      PROVE  ~(s.group = r.group /\ s.msg = r.msg)
  BY <1>1 DEF Claims, Answers
<1>4. ASSUME NEW v \in Workers, Holds(v)'
      PROVE  ~(r.group = Group[v] /\ r.msg = job'[v].msg)
  BY <1>1, <1>2, <1>4 DEF Claims, Answers
<1>5. status' = status
  BY DEF Answers
<1>6. \A v \in Workers : Holds(v)' => status'[Group[v]][job'[v].msg] = "pending"
  BY <1>2, <1>5 DEF Claims
<1>7. \A s \in replies' : status'[s.group][s.msg] = "pending"
  BY <1>1, <1>5 DEF Claims, Answers
<1>8. \A u, v \in Workers :
        u # v /\ Group[u] = Group[v] /\ Holds(u)' /\ Holds(v)'
          => job'[u].msg # job'[v].msg
  BY <1>2 DEF Claims
<1>9. \A s, t \in replies' : s.group = t.group /\ s.msg = t.msg => s = t
  BY <1>1, <1>3 DEF Claims
<1>10. \A v \in Workers, s \in replies' :
         Holds(v)' /\ s.group = Group[v] => s.msg # job'[v].msg
  BY <1>1, <1>2, <1>4 DEF Claims
<1>. QED
  BY <1>6, <1>7, <1>8, <1>9, <1>10 DEF Claims

LEMMA ClaimsDeliver ==
  ASSUME TypeInv, PromptInv, Claims, NEW w \in Workers, NEW m \in Messages,
         Deliver(w, m)
  PROVE  Claims'
<1>. USE ConsumerAssumption DEF TypeInv, StreamTypeOK, WorkerTypeOK
<1>1. Unclaimed(Group[w], m)
  BY NotPendingUnclaimed DEF Deliver, HandOut, Available
<1>2. /\ replies' = replies
      /\ job'[w].msg = m
      /\ status'[Group[w]][m] = "pending"
      /\ \A h \in Groups, k \in Messages :
           ~(h = Group[w] /\ k = m) => status'[h][k] = status[h][k]
  BY DEF Deliver, HandOut
<1>3. ASSUME NEW v \in Workers, v # w, Holds(v)'
      PROVE  /\ Holds(v) /\ job'[v].msg = job[v].msg
             /\ Group[v] \in Groups /\ job[v].msg \in Messages
  BY <1>3, OthersUnmoved, BusyMessage DEF Holds, WorkerStep
<1>4. ASSUME NEW v \in Workers, v # w, Holds(v)', Group[v] = Group[w]
      PROVE  job'[v].msg # m
  BY <1>1, <1>3, <1>4 DEF Unclaimed
<1>5. ASSUME NEW v \in Workers, Holds(v)'
      PROVE  status'[Group[v]][job'[v].msg] = "pending"
  <2>1. CASE v = w
    BY <1>2, <2>1
  <2>2. CASE v # w
    <3>1. status[Group[v]][job[v].msg] = "pending"
      BY <1>3, <1>5, <2>2 DEF Claims
    <3>2. ~(Group[v] = Group[w] /\ job[v].msg = m)
      BY <1>3, <1>4, <1>5, <2>2
    <3>. QED
      BY <1>2, <1>3, <1>5, <2>2, <3>1, <3>2
  <2>. QED
    BY <2>1, <2>2
<1>6. \A r \in replies' : status'[r.group][r.msg] = "pending"
  BY <1>1, <1>2 DEF Claims, Unclaimed, Replies
<1>7. ASSUME NEW u \in Workers, NEW v \in Workers, u # v, Group[u] = Group[v],
             Holds(u)', Holds(v)'
      PROVE  job'[u].msg # job'[v].msg
  <2>1. CASE u = w \/ v = w
    BY <1>2, <1>4, <1>7, <2>1
  <2>2. CASE u # w /\ v # w
    <3>1. Holds(u) /\ Holds(v) /\ job'[u].msg = job[u].msg /\ job'[v].msg = job[v].msg
      BY <1>3, <1>7, <2>2
    <3>. QED
      BY <1>7, <3>1 DEF Claims
  <2>. QED
    BY <2>1, <2>2
<1>8. \A r, s \in replies' : r.group = s.group /\ r.msg = s.msg => r = s
  BY <1>2 DEF Claims
<1>9. ASSUME NEW v \in Workers, NEW r \in replies', Holds(v)', r.group = Group[v]
      PROVE  r.msg # job'[v].msg
  <2>1. CASE v = w
    BY <1>1, <1>2, <1>9, <2>1 DEF Unclaimed
  <2>2. CASE v # w
    BY <1>2, <1>3, <1>9, <2>2 DEF Claims
  <2>. QED
    BY <2>1, <2>2
<1>. QED
  BY <1>5, <1>6, <1>7, <1>8, <1>9 DEF Claims

\* A step that settles a message nobody claims afterwards keeps the claims.
LEMMA ClaimsSettles ==
  ASSUME TypeInv, Claims, NEW g \in Groups, NEW m \in Messages, Settles(g, m),
         \A w \in Workers : Holds(w) /\ Group[w] = g => job[w].msg # m,
         \A r \in replies' : r.group = g => r.msg # m
  PROVE  Claims'
<1>1. \A w \in Workers : Holds(w)' <=> Holds(w)
  BY DEF Settles, Holds, workerVars
<1>2. job' = job /\ replies' \subseteq replies
  BY DEF Settles, workerVars
<1>3. \A w \in Workers : Holds(w) =>
        status'[Group[w]][job[w].msg] = status[Group[w]][job[w].msg]
  BY BusyMessage DEF Settles, Holds
<1>4. \A r \in replies' : status'[r.group][r.msg] = status[r.group][r.msg]
  BY <1>2 DEF Settles, TypeInv, StreamTypeOK, Replies
<1>. QED
  BY <1>1, <1>2, <1>3, <1>4 DEF Claims

LEMMA PromptNext ==
  ASSUME "slow" \notin Faults
  PROVE  TypeInv /\ PromptInv /\ [Next]_vars => PromptInv'
<1>. SUFFICES ASSUME TypeInv, PromptInv, [Next]_vars
              PROVE  PromptInv'
  OBVIOUS
<1>1. Claims
  BY DEF PromptInv, Claims
<1>2. ASSUME NEW g \in Groups, NEW m \in Messages,
             Unclaimed(g, m), Settles(g, m), replies' = replies
      PROVE  Claims'
  BY <1>1, <1>2, ClaimsSettles DEF Unclaimed
<1>3. ASSUME NEW r \in replies, Settles(r.group, r.msg), replies' = replies \ {r}
      PROVE  Claims'
  <2>1. r.group \in Groups /\ r.msg \in Messages
    BY DEF TypeInv, StreamTypeOK, Replies
  <2>2. \A w \in Workers : Holds(w) /\ Group[w] = r.group => job[w].msg # r.msg
    BY <1>1 DEF Claims
  <2>3. \A s \in replies' : s.group = r.group => s.msg # r.msg
    BY <1>1, <1>3 DEF Claims
  <2>. QED
    BY <1>1, <1>3, <2>1, <2>2, <2>3, ClaimsSettles
<1>4. Claims'
  BY <1>1, <1>2, <1>3, PromptEffect, ClaimsQuiet, ClaimsAnswers, ClaimsDeliver
<1>. QED
  BY <1>4, PromptFlags DEF Claims, PromptInv

LEMMA PromptInvImplies == PromptInv => ProcessedByOneConsumer
  BY DEF PromptInv, ProcessedByOneConsumer, Holds, Busy

\* If no work outlives the ack wait, no two workers of a group are in the handler
\* with the same message, through crashes, lost deliveries and lost replies.
THEOREM OneConsumerAtATime ==
  ASSUME "slow" \notin Faults
  PROVE  Spec => []ProcessedByOneConsumer
<1>1. Init => PromptInv
  BY PromptInit
<1>2. TypeInv /\ PromptInv /\ [Next]_vars => PromptInv'
  BY PromptNext
<1>3. Spec => []PromptInv
  BY <1>1, <1>2, TypesInvariant, PTL DEF Spec
<1>. QED
  BY <1>3, PromptInvImplies, PTL

-----------------------------------------------------------------------------
(* The consumers implement module Delivery *)

\* What the refinement mapping shows of an outcome and of the history.
Outcome == [g \in Groups |-> [m \in Messages |->
              IF status[g][m] \in Final THEN status[g][m] ELSE "open"]]

Done == {p \in Groups \X Messages : handled[p[1]][p[2]] # {}}

Buried == {p \in Groups \X Messages : dead[p[1]][p[2]] # 0}

\* A step changes at most one of the four things the mapping shows.
LEMMA OneEffect ==
  ASSUME [Next]_vars
  PROVE  \/ UNCHANGED <<status, handled, dead>>
         \/ UNCHANGED <<log, handled, dead>>
         \/ \E w \in Workers : HandlerSucceeds(w) /\ UNCHANGED <<log, status, dead>>
         \/ \E w \in Workers :
              moveToDeadLetterQueue(w) /\ UNCHANGED <<log, status, handled>>
<1>1. ASSUME NEW w \in Workers, HandlerSucceeds(w)
      PROVE  UNCHANGED <<log, status, dead>>
  BY <1>1 DEF HandlerSucceeds, streamVars
<1>2. ASSUME NEW w \in Workers, moveToDeadLetterQueue(w)
      PROVE  UNCHANGED <<log, status, handled>>
  BY <1>2 DEF moveToDeadLetterQueue, Respond
<1>3. CASE handled' = handled /\ dead' = dead /\ log' # log
  <2>1. \E e \in Envelopes : Publish(e)
    BY <1>3
    DEF Next, WorkerStep, vars, streamVars, Subscribe,
        StartLoop, StartLoopFails, Deliver, DeliveryLost, HandOut, NextExpires,
        NextThrows, ResumeLoop, Accept, Reject, Fail, Respond, CheckDuplicate,
        CheckFails, HandlerSucceeds, HandlerThrows, Acknowledge, MarkProcessed,
        MarkFails, moveToDeadLetterQueue, DeadLetterFails, ReplyArrives,
        ApplyReply, ReplyLost, LoseReply, AckWaitExpires, Expire, GiveUp, Exceed,
        MessageIdExpires, WindowExpires, KeyExpires, unsubscribe,
        onModuleDestroy, Exit
  <2>. QED
    BY <1>3, <2>1 DEF Publish, Store
<1>. QED
  BY <1>1, <1>2, <1>3, HandledEffect, DeadEffect


\* A message is new in a group unless it is in the log.
StatusInLog ==
    \A g \in Groups, m \in Messages : status[g][m] # "new" => m <= Len(log)

LEMMA StatusInLogNext ==
  ASSUME TypeInv, StatusInLog, [Next]_vars
  PROVE  StatusInLog'
<1>. SUFFICES ASSUME NEW g \in Groups, NEW m \in Messages, status'[g][m] # "new"
              PROVE  m <= Len(log)
  <2>1. Len(log) <= Len(log')
    BY LogEffect DEF TypeInv, StreamTypeOK
  <2>. QED
    BY <2>1 DEF StatusInLog, TypeInv, StreamTypeOK, Messages
<1>. USE ConsumerAssumption DEF TypeInv, StreamTypeOK
<1>1. CASE status[g][m] # "new"
  BY <1>1 DEF StatusInLog
<1>2. ASSUME NEW h \in Groups, NEW k \in Messages, HandOut(h, k)
      PROVE  status[g][m] # "new" \/ m <= Len(log)
  BY <1>2 DEF HandOut, Available
<1>3. ASSUME NEW h \in Groups, NEW k \in Messages, Expire(h, k) \/ Exceed(h, k)
      PROVE  status[g][m] # "new"
  <2>1. CASE Expire(h, k)
    BY <2>1 DEF Expire
  <2>2. CASE Exceed(h, k)
    BY <2>2 DEF Exceed
  <2>. QED
    BY <1>3, <2>1, <2>2
<1>4. ASSUME NEW r \in replies, ApplyReply(r)
      PROVE  status[g][m] # "new"
  BY <1>4 DEF ApplyReply, AfterReply, Outstanding
<1>. QED
  BY <1>1, <1>2, <1>3, <1>4, StatusEffect DEF AckWaitExpires

\* The message m of group g goes from an open state to an outcome.
Settled(g, m) ==
    /\ status[g][m] \in Outstanding
    /\ status'[g][m] \in Final
    /\ status' = [status EXCEPT ![g][m] = status'[g][m]]

LEMMA ReplySettles ==
  ASSUME TypeInv, NEW r \in replies, ApplyReply(r)
  PROVE  /\ r.group \in Groups /\ r.msg \in Messages
         /\ Outcome' = Outcome \/ Settled(r.group, r.msg)
<1>. DEFINE s == status[r.group][r.msg]
<1>. USE DEF TypeInv, StreamTypeOK
<1>1. r.group \in Groups /\ r.msg \in Messages
  BY DEF Replies
<1>2. status' = [status EXCEPT ![r.group][r.msg] = AfterReply(r.kind, s)]
  BY DEF ApplyReply
<1>3. status'[r.group][r.msg] = AfterReply(r.kind, s)
  BY <1>1, <1>2
<1>4. CASE s \in Outstanding /\ r.kind # "nak"
  BY <1>1, <1>2, <1>3, <1>4 DEF Settled, AfterReply, Final
<1>5. CASE ~(s \in Outstanding /\ r.kind # "nak")
  <2>1. s \in Final <=> AfterReply(r.kind, s) \in Final
    BY <1>5 DEF AfterReply, Final, Outstanding
  <2>2. s \in Final => AfterReply(r.kind, s) = s
    BY <1>5 DEF AfterReply, Final, Outstanding
  <2>. QED
    BY <1>1, <1>2, <2>1, <2>2 DEF Outcome
<1>. QED
  BY <1>1, <1>4, <1>5

LEMMA OutcomeEffect ==
  ASSUME TypeInv, [Next]_vars
  PROVE  Outcome' = Outcome \/ \E g \in Groups, m \in Messages : Settled(g, m)
<1>. USE ConsumerAssumption DEF TypeInv, StreamTypeOK
<1>1. CASE status' = status
  BY <1>1 DEF Outcome
<1>2. ASSUME NEW g \in Groups, NEW m \in Messages, HandOut(g, m)
      PROVE  Outcome' = Outcome
  BY <1>2 DEF HandOut, Available, Outcome, Final
<1>3. ASSUME NEW g \in Groups, NEW m \in Messages, Expire(g, m)
      PROVE  Outcome' = Outcome
  BY <1>3 DEF Expire, Outcome, Final
<1>4. ASSUME NEW g \in Groups, NEW m \in Messages, Exceed(g, m)
      PROVE  Settled(g, m)
  BY <1>4 DEF Exceed, Settled, Final, Outstanding
<1>. QED
  BY <1>1, <1>2, <1>3, <1>4, ReplySettles, StatusEffect DEF AckWaitExpires

\* What acknowledges a message in MessageConsumer does so in Delivery.
LEMMA WitnessedIsHandled ==
  ASSUME TypeInv, NEW g \in Groups, NEW m \in 1 .. Len(log), Witnessed(g, m)
  PROVE  Promise!Handled(g, m)
<1>. m \in Messages
  BY LogInMessages
<1>1. CASE handled[g][m] # {}
  BY <1>1 DEF Promise!Handled
<1>2. CASE g \in Idempotent /\ KeyWasHandled(getIdempotencyKey(m))
  <2>1. PICK h \in Idempotent, k \in 1 .. Len(log) :
          getIdempotencyKey(k) = getIdempotencyKey(m) /\ handled[h][k] # {}
    BY <1>2 DEF KeyWasHandled
  <2>2. h \in Groups /\ k \in Messages
    BY ConsumerAssumption, LogInMessages
  <2>3. Promise!SameEvent(k, m)
    BY <2>1 DEF getIdempotencyKey, Promise!SameEvent
  <2>. QED
    BY <1>2, <2>1, <2>2, <2>3 DEF Promise!Handled
<1>. QED
  BY <1>1, <1>2 DEF Witnessed

LEMMA SettledStep ==
  ASSUME TypeInv, AckInv, StatusInLog, [Next]_vars, UNCHANGED <<log, handled, dead>>,
         NEW g \in Groups, NEW m \in Messages, Settled(g, m)
  PROVE  m <= Len(log) /\ \E o \in Final : Promise!Settle(g, m, o)
<1>. USE DEF TypeInv, StreamTypeOK
<1>o. PICK o \in Final : o = status'[g][m]
  BY DEF Settled
<1>1. m <= Len(log)
  BY DEF Settled, Outstanding, StatusInLog
<1>2. Outcome[g][m] = "open" /\ Outcome' = [Outcome EXCEPT ![g][m] = o]
  BY <1>o DEF Settled, Outcome, Final, Outstanding
<1>3. UNCHANGED <<log, Done, Buried>>
  BY DEF Done, Buried
<1>4. ASSUME o = "acked"
      PROVE  Promise!Handled(g, m)
  BY <1>o, <1>4, AckStatus, WitnessedIsHandled
<1>6. Promise!Settle(g, m, o)
  BY <1>2, <1>3, <1>4 DEF Promise!Settle, Outcome, Done, Buried
<1>. QED
  BY <1>1, <1>6

LEMMA SucceedStep ==
  ASSUME TypeInv, NEW w \in Workers, HandlerSucceeds(w), UNCHANGED <<log, status, dead>>,
         NEW g, g = Group[w], NEW m, m = job[w].msg
  PROVE  /\ g \in Groups /\ m \in Messages /\ m <= Len(log)
         /\ Promise!Succeed(g, m)
<1>1. g \in Groups /\ m \in Messages /\ m <= Len(log)
  BY BusyMessage DEF HandlerSucceeds, Busy
<1>2. Done' = Done \union {<<g, m>>}
  <2>1. handled'[g][m] # {}
    BY <1>1 DEF HandlerSucceeds, TypeInv, HistoryTypeOK
  <2>2. ASSUME NEW h \in Groups, NEW k \in Messages, ~(h = g /\ k = m)
        PROVE  handled'[h][k] = handled[h][k]
    BY <1>1, <2>2 DEF HandlerSucceeds, TypeInv, HistoryTypeOK
  <2>. QED
    BY <1>1, <2>1, <2>2 DEF Done
<1>3. UNCHANGED <<Outcome, Buried>>
  BY DEF Outcome, Buried
<1>. QED
  BY <1>1, <1>2, <1>3 DEF Promise!Succeed, Outcome, Done, Buried

LEMMA BuryStep ==
  ASSUME UniformRetries, TypeInv, DeadInv, [Next]_vars,
         NEW w \in Workers, moveToDeadLetterQueue(w), UNCHANGED <<log, status, handled>>,
         NEW g, g = Group[w], NEW m, m = job[w].msg
  PROVE  /\ g \in Groups /\ m \in Messages /\ m <= Len(log)
         /\ Promise!Bury(g, m)
<1>1. g \in Groups /\ m \in Messages /\ m <= Len(log)
  BY BusyMessage DEF moveToDeadLetterQueue, Busy
<1>2. dead[g][m] \in Nat /\ dead' = [dead EXCEPT ![g][m] = @ + 1]
  BY <1>1 DEF moveToDeadLetterQueue, TypeInv, HistoryTypeOK
<1>3. dead'[g][m] = dead[g][m] + 1
  BY <1>1, <1>2 DEF TypeInv, HistoryTypeOK
<1>4. dead[g][m] = 0
  BY <1>1, <1>2, <1>3, DeadLetterStep DEF UsedUp
<1>5. <<g, m>> \notin Buried
  BY <1>1, <1>4 DEF Buried
<1>6. Buried' = Buried \union {<<g, m>>}
  BY <1>1, <1>2, <1>3, <1>4 DEF Buried, TypeInv, HistoryTypeOK
<1>7. UNCHANGED <<Outcome, Done>>
  BY DEF Outcome, Done
<1>. QED
  BY <1>1, <1>5, <1>6, <1>7 DEF Promise!Bury, Outcome, Done, Buried

\* Every step publishes, handles, buries or settles one message, or shows nothing.
LEMMA DeliveryStep ==
  ASSUME UniformRetries, TypeInv, AckInv, DeadInv, StatusInLog, [Next]_vars
  PROVE  [Promise!Next]_(Promise!deliveryVars)
<1>. USE DEF Promise!Events, Messages
<1>1. CASE UNCHANGED <<status, handled, dead>>
  <2>1. UNCHANGED <<Outcome, Done, Buried>>
    BY <1>1 DEF Outcome, Done, Buried
  <2>2. ASSUME NEW e \in Envelopes, log' = Append(log, e)
        PROVE  Promise!Publish(e)
    BY <2>1, <2>2 DEF Promise!Publish, Outcome, Done, Buried
  <2>3. CASE log' = log
    BY <2>1, <2>3 DEF Promise!deliveryVars, Outcome, Done, Buried
  <2>. QED
    BY <2>2, <2>3, LogEffect DEF Promise!Next
<1>2. CASE UNCHANGED <<log, handled, dead>>
  <2>1. CASE Outcome' = Outcome
    <3>1. UNCHANGED <<Done, Buried>>
      BY <1>2 DEF Done, Buried
    <3>. QED
      BY <1>2, <2>1, <3>1 DEF Promise!deliveryVars, Outcome, Done, Buried
  <2>2. ASSUME NEW g \in Groups, NEW m \in Messages, Settled(g, m)
        PROVE  Promise!Next
    BY <1>2, <2>2, SettledStep DEF Promise!Next, Promise!Outcomes, Final
  <2>. QED
    BY <2>1, <2>2, OutcomeEffect
<1>3. ASSUME NEW w \in Workers, HandlerSucceeds(w), UNCHANGED <<log, status, dead>>
      PROVE  Promise!Next
  <2>1. PICK g, m : g = Group[w] /\ m = job[w].msg
    OBVIOUS
  <2>. QED
    BY <1>3, <2>1, SucceedStep DEF Promise!Next
<1>4. ASSUME NEW w \in Workers, moveToDeadLetterQueue(w),
             UNCHANGED <<log, status, handled>>
      PROVE  Promise!Next
  <2>1. PICK g, m : g = Group[w] /\ m = job[w].msg
    OBVIOUS
  <2>. QED
    BY <1>4, <2>1, BuryStep DEF Promise!Next
<1>. QED
  BY <1>1, <1>2, <1>3, <1>4, OneEffect

LEMMA DeliveryInit == Init => Promise!Init /\ StatusInLog
<1>. SUFFICES ASSUME Init
              PROVE  Promise!Init /\ StatusInLog
  OBVIOUS
<1>. USE DEF Init, StreamInit
<1>1. Outcome = [g \in Groups |-> [m \in Messages |-> "open"]]
  BY DEF Outcome, Final
<1>2. Done = {}
  BY DEF Done
<1>3. Buried = {}
  BY DEF Buried
<1>4. log = <<>>
  OBVIOUS
<1>5. Promise!Init
  BY <1>1, <1>2, <1>3, <1>4
  DEF Promise!Init, Promise!Events, Messages, Outcome, Done, Buried
<1>6. StatusInLog
  BY DEF StatusInLog
<1>. QED
  BY <1>5, <1>6

\* The loops, replies, keys, retries and crashes of the consumers implement the
\* abstract delivery, if the subscriptions of a group agree on maxRetries.
THEOREM DeliveryImplemented ==
  ASSUME UniformRetries
  PROVE  Spec => ImplementsDelivery
<1>1. TypeInv /\ AckInv /\ DeadInv /\ StatusInLog /\ [Next]_vars
        => [Promise!Next]_(Promise!deliveryVars)
  BY DeliveryStep
<1>2. TypeInv /\ DeadInv /\ [Next]_vars => DeadInv'
  BY DeadNext
<1>3. TypeInv /\ StatusInLog /\ [Next]_vars => StatusInLog'
  BY StatusInLogNext
<1>. QED
  BY <1>1, <1>2, <1>3, TypesInvariant, AckInit, AckNext, DeadInit, DeliveryInit, PTL
  DEF Spec, ImplementsDelivery, Promise!Spec

=============================================================================
