---------------------------- MODULE MessageConsumer ----------------------------
(***************************************************************************)
(* MessageConsumerService of                                               *)
(* src/src/shared/messaging/message-consumer.service.ts: the loops that    *)
(* subscribe() starts on one stream, each fetching a message, checking it, *)
(* handling it and telling the server what became of it, against the       *)
(* durable consumers of module JetStream and the idempotency keys in       *)
(* Redis.  Processes (instances of the service) crash and shut down;       *)
(* deliveries, acknowledgements and Redis calls fail.                      *)
(*                                                                         *)
(* A worker is one call of subscribe() and the loop it starts.  pc[w] is   *)
(* the await the loop is suspended at, or the point where it chooses what  *)
(* to do next; a step runs to the following await.                         *)
(***************************************************************************)
EXTENDS JetStream, FiniteSets

CONSTANTS
    Workers,      \* the subscriptions
    Process,      \* Process[w]: the service instance that runs worker w
    ConsumerName, \* ConsumerName[w]: the consumer name given to subscribe()
    Group,        \* Group[w]: its consumer group
    MaxRetries,   \* MaxRetries[w]: its maxRetries option
    Idempotent,   \* the groups whose subscriptions set the idempotency option
    Faults        \* what the environment does: see AllFaults

\* "crash": a process dies; "network": deliveries are lost and the fetch fails;
\* "reply": acknowledgements are lost; "redis": Redis calls fail; "handler": handlers throw; "slow":
\* work outlives the ack wait; "dlq": the dead letter publication fails;
\* "keyttl" and "window": idempotency keys and message ids expire; "start": the
\* loop cannot bind its durable consumer; "unsubscribe", "shutdown": the calls.
AllFaults == {"crash", "network", "reply", "redis", "handler", "slow", "dlq",
              "keyttl", "window", "start", "unsubscribe", "shutdown"}

Processes == {Process[w] : w \in Workers}

ConsumerKeys == {<<Process[w], Group[w], ConsumerName[w]>> : w \in Workers}

ASSUME ConsumerAssumption ==
    /\ Group \in [Workers -> Groups]
    /\ MaxRetries \in [Workers -> Nat \ {0}]
    /\ Idempotent \subseteq Groups
    /\ Faults \subseteq AllFaults

VARIABLES
    consumers,       \* the keys of the consumers map, of every process
    isShuttingDown,  \* the processes whose flag is set
    pc,              \* where each worker is
    job,             \* the message each worker has, and its delivery
    keys,            \* the idempotency keys Redis holds
    handled,         \* history: the deliveries whose handler call succeeded
    dead             \* history: how often a message was dead-lettered

workerVars == <<consumers, isShuttingDown, pc, job>>

vars == <<streamVars, workerVars, keys, handled, dead>>

Points == {"idle", "start", "dead", "next", "backoff", "received", "check",
           "handle", "ack", "mark", "dlq"}

\* The points at which a worker has a message.
Busy == {"received", "check", "handle", "ack", "mark", "dlq"}

\* replied is the JsMsg's own flag: only its first ack, nak or term is sent.
Jobs == [msg : Nat, attempt : Nat, replied : BOOLEAN]

NoJob == [msg |-> 0, attempt |-> 0, replied |-> FALSE]

Replied(j) == [msg |-> j.msg, attempt |-> j.attempt, replied |-> TRUE]

\* The key stands for a message id where the envelope has one and for the
\* position in the stream otherwise; the consumer group is no part of it.
IdempotencyKeys == ({"id"} \X Ids) \union ({"seq"} \X Messages)

\* Mutant: no fallback for an envelope without an id.
KeyWithoutFallback(m) == <<"id", log[m].id>>

getIdempotencyKey(m) ==
    IF log[m].id = NoId THEN <<"seq", m>> ELSE <<"id", log[m].id>>

ConsumerKey(w) == <<Process[w], Group[w], ConsumerName[w]>>

Init ==
    /\ StreamInit
    /\ consumers = {}
    /\ isShuttingDown = {}
    /\ pc = [w \in Workers |-> "idle"]
    /\ job = [w \in Workers |-> NoJob]
    /\ keys = {}
    /\ handled = [g \in Groups |-> [m \in Messages |-> {}]]
    /\ dead = [g \in Groups |-> [m \in Messages |-> 0]]

-----------------------------------------------------------------------------
(* The steps of a worker *)

GoTo(w, point) ==
    /\ pc' = [pc EXCEPT ![w] = point]
    /\ UNCHANGED <<consumers, isShuttingDown, job>>

\* The condition of the while loop decides whether the worker fetches again.
Active(w) == ConsumerKey(w) \in consumers /\ Process[w] \notin isShuttingDown

\* Mutant: the loop looks at the consumers map alone.
LoopTopIgnoringShutdown(w) ==
    /\ pc' = [pc EXCEPT ![w] = IF ConsumerKey(w) \in consumers THEN "next" ELSE "idle"]
    /\ job' = [job EXCEPT ![w] = NoJob]
    /\ UNCHANGED <<consumers, isShuttingDown>>

LoopTop(w) ==
    /\ pc' = [pc EXCEPT ![w] = IF Active(w) THEN "next" ELSE "idle"]
    /\ job' = [job EXCEPT ![w] = NoJob]
    /\ UNCHANGED <<consumers, isShuttingDown>>

\* ack(), nak() and term() of the worker's message.
Respond(w, kind) ==
    /\ replies' = IF job[w].replied THEN replies
                  ELSE replies \union
                       {[kind |-> kind, group |-> Group[w],
                         msg |-> job[w].msg, attempt |-> job[w].attempt]}
    /\ UNCHANGED <<log, window, maxDeliver, status, deliveries>>

\* subscribe() up to its last line: the durable consumer is created or updated,
\* the key is set and the loop, which nobody awaits, is begun.
Subscribe(w) ==
    /\ pc[w] \in {"idle", "dead"}
    /\ maxDeliver' = [maxDeliver EXCEPT ![Group[w]] = MaxRetries[w]]
    /\ consumers' = consumers \union {ConsumerKey(w)}
    /\ pc' = [pc EXCEPT ![w] = "start"]
    /\ UNCHANGED <<log, window, status, deliveries, replies,
                   isShuttingDown, job, keys, handled, dead>>

StartLoop(w) ==
    /\ pc[w] = "start"
    /\ LoopTop(w)
    /\ UNCHANGED <<streamVars, keys, handled, dead>>

\* getJetStream() or consumers.get() rejects outside the loop's try.
StartLoopFails(w) ==
    /\ "start" \in Faults
    /\ pc[w] = "start"
    /\ GoTo(w, "dead")
    /\ UNCHANGED <<streamVars, keys, handled, dead>>

Deliver(w, m) ==
    /\ pc[w] = "next"
    /\ HandOut(Group[w], m)
    /\ pc' = [pc EXCEPT ![w] = "received"]
    /\ job' = [job EXCEPT ![w] =
                 [msg |-> m, attempt |-> deliveries[Group[w]][m] + 1,
                  replied |-> FALSE]]
    /\ UNCHANGED <<consumers, isShuttingDown, keys, handled, dead>>

\* next() gives up after expires ms without a message.
NextExpires(w) ==
    /\ pc[w] = "next"
    /\ LoopTop(w)
    /\ UNCHANGED <<streamVars, keys, handled, dead>>

\* next() throws; handleConsumeError pauses, but not while shutting down.
NextThrows(w) ==
    /\ "network" \in Faults
    /\ pc[w] = "next"
    /\ IF Process[w] \in isShuttingDown THEN LoopTop(w) ELSE GoTo(w, "backoff")
    /\ UNCHANGED <<streamVars, keys, handled, dead>>

ResumeLoop(w) ==
    /\ pc[w] = "backoff"
    /\ LoopTop(w)
    /\ UNCHANGED <<streamVars, keys, handled, dead>>

\* Mutant: the last delivery is still answered by a nak.
FailOneLate(w) ==
    IF job[w].attempt <= MaxRetries[w]
    THEN Respond(w, "nak") /\ LoopTop(w)
    ELSE UNCHANGED streamVars /\ GoTo(w, "dlq")

\* Mutant: the last delivery but one already goes to the dead letters.
FailOneEarly(w) ==
    IF job[w].attempt < MaxRetries[w] - 1
    THEN Respond(w, "nak") /\ LoopTop(w)
    ELSE UNCHANGED streamVars /\ GoTo(w, "dlq")

\* Mutant: the message is handed back and the handler is called again all the same.
FailRetryingInPlace(w) ==
    IF job[w].attempt < MaxRetries[w]
    THEN Respond(w, "nak") /\ GoTo(w, "handle")
    ELSE UNCHANGED streamVars /\ GoTo(w, "dlq")

\* Mutant: the error is not caught and ends the loop.
FailUncaught(w) ==
    /\ pc' = [pc EXCEPT ![w] = "dead"]
    /\ job' = [job EXCEPT ![w] = NoJob]
    /\ UNCHANGED <<streamVars, consumers, isShuttingDown>>

\* The catch block of processMessage: another delivery, or the dead letters.
Fail(w) ==
    IF job[w].attempt < MaxRetries[w]
    THEN Respond(w, "nak") /\ LoopTop(w)
    ELSE UNCHANGED streamVars /\ GoTo(w, "dlq")

\* Mutant: a message the handler must not see is acknowledged.
RejectAcknowledging(w) ==
    /\ pc[w] = "received"
    /\ log[job[w].msg].body # "event"
    /\ Respond(w, "ack")
    /\ LoopTop(w)
    /\ UNCHANGED <<keys, handled, dead>>

Accept(w) ==
    /\ pc[w] = "received"
    /\ log[job[w].msg].body = "event"
    /\ GoTo(w, IF Group[w] \in Idempotent THEN "check" ELSE "handle")
    /\ UNCHANGED <<streamVars, keys, handled, dead>>

\* message.json() throws, or validate refuses the payload.
Reject(w) ==
    /\ pc[w] = "received"
    /\ log[job[w].msg].body # "event"
    /\ Fail(w)
    /\ UNCHANGED <<keys, handled, dead>>

\* Mutant: the key is stored before the handler is called.
CheckDuplicateMarking(w) ==
    /\ pc[w] = "check"
    /\ keys' = keys \union {getIdempotencyKey(job[w].msg)}
    /\ IF getIdempotencyKey(job[w].msg) \in keys
       THEN Respond(w, "ack") /\ LoopTop(w)
       ELSE UNCHANGED streamVars /\ GoTo(w, "handle")
    /\ UNCHANGED <<handled, dead>>

\* Mutant: a duplicate is an error.
CheckDuplicateThrowing(w) ==
    /\ pc[w] = "check"
    /\ IF getIdempotencyKey(job[w].msg) \in keys
       THEN Fail(w)
       ELSE UNCHANGED streamVars /\ GoTo(w, "handle")
    /\ UNCHANGED <<keys, handled, dead>>

\* The answer to isDuplicate's GET.
CheckDuplicate(w) ==
    /\ pc[w] = "check"
    /\ IF getIdempotencyKey(job[w].msg) \in keys
       THEN Respond(w, "ack") /\ LoopTop(w)
       ELSE UNCHANGED streamVars /\ GoTo(w, "handle")
    /\ UNCHANGED <<keys, handled, dead>>

CheckFails(w) ==
    /\ "redis" \in Faults
    /\ pc[w] = "check"
    /\ Fail(w)
    /\ UNCHANGED <<keys, handled, dead>>

\* The handler's effects are there; the loop has not resumed yet.
HandlerSucceeds(w) ==
    /\ pc[w] = "handle"
    /\ handled' = [handled EXCEPT ![Group[w]][job[w].msg] =
                     @ \union {job[w].attempt}]
    /\ GoTo(w, "ack")
    /\ UNCHANGED <<streamVars, keys, dead>>

HandlerThrows(w) ==
    /\ "handler" \in Faults
    /\ pc[w] = "handle"
    /\ Fail(w)
    /\ UNCHANGED <<keys, handled, dead>>

\* The message is acknowledged first and its key stored afterwards.
Acknowledge(w) ==
    /\ pc[w] = "ack"
    /\ Respond(w, "ack")
    /\ IF Group[w] \in Idempotent
       THEN /\ pc' = [pc EXCEPT ![w] = "mark"]
            /\ job' = [job EXCEPT ![w] = Replied(@)]
            /\ UNCHANGED <<consumers, isShuttingDown>>
       ELSE LoopTop(w)
    /\ UNCHANGED <<keys, handled, dead>>

\* Mutant: the key that is stored is not the key that is looked up.
MarkProcessedByPosition(w) ==
    /\ pc[w] = "mark"
    /\ keys' = keys \union {<<"seq", job[w].msg>>}
    /\ LoopTop(w)
    /\ UNCHANGED <<streamVars, handled, dead>>

MarkProcessed(w) ==
    /\ pc[w] = "mark"
    /\ keys' = keys \union {getIdempotencyKey(job[w].msg)}
    /\ LoopTop(w)
    /\ UNCHANGED <<streamVars, handled, dead>>

\* The SET fails, whether or not Redis executed it: the catch block runs for a
\* message that is handled and acknowledged.
MarkFails(w) ==
    /\ "redis" \in Faults
    /\ pc[w] = "mark"
    /\ keys' \in {keys, keys \union {getIdempotencyKey(job[w].msg)}}
    /\ Fail(w)
    /\ UNCHANGED <<handled, dead>>

\* Mutant: the message is terminated and no dead letter is published.
TermWithoutDeadLetter(w) ==
    /\ pc[w] = "dlq"
    /\ log[job[w].msg].body # "malformed"
    /\ Respond(w, "term")
    /\ LoopTop(w)
    /\ UNCHANGED <<keys, handled, dead>>

moveToDeadLetterQueue(w) ==
    /\ pc[w] = "dlq"
    /\ log[job[w].msg].body # "malformed"
    /\ dead' = [dead EXCEPT ![Group[w]][job[w].msg] = @ + 1]
    /\ Respond(w, "term")
    /\ LoopTop(w)
    /\ UNCHANGED <<keys, handled>>

\* The dead letter cannot be built or published; the error is swallowed and the
\* message is terminated all the same.
DeadLetterFails(w) ==
    /\ pc[w] = "dlq"
    /\ "dlq" \in Faults \/ log[job[w].msg].body = "malformed"
    /\ Respond(w, "term")
    /\ LoopTop(w)
    /\ UNCHANGED <<keys, handled, dead>>

WorkerStep(w) ==
    \/ StartLoop(w)
    \/ \E m \in Messages : Deliver(w, m)
    \/ NextExpires(w)
    \/ ResumeLoop(w)
    \/ Accept(w)
    \/ Reject(w)
    \/ CheckDuplicate(w)
    \/ CheckFails(w)
    \/ HandlerSucceeds(w)
    \/ HandlerThrows(w)
    \/ Acknowledge(w)
    \/ MarkProcessed(w)
    \/ MarkFails(w)
    \/ moveToDeadLetterQueue(w)
    \/ DeadLetterFails(w)

-----------------------------------------------------------------------------
(* The server, the callers and the faults *)

\* A producer's publication reaches the server.
Publish(e) ==
    /\ Store(e)
    /\ UNCHANGED <<workerVars, keys, handled, dead>>

ReplyArrives(r) ==
    /\ ApplyReply(r)
    /\ UNCHANGED <<workerVars, keys, handled, dead>>

ReplyLost(r) ==
    /\ "reply" \in Faults
    /\ LoseReply(r)
    /\ UNCHANGED <<workerVars, keys, handled, dead>>

\* A message goes out on a worker's pull request and never arrives.
DeliveryLost(w, m) ==
    /\ "network" \in Faults
    /\ pc[w] = "next"
    /\ HandOut(Group[w], m)
    /\ UNCHANGED <<workerVars, keys, handled, dead>>

\* Nobody is going to settle the current delivery of m any more.
Abandoned(g, m) ==
    /\ \A w \in Workers : Group[w] = g => job[w].msg # m \/ job[w].replied
    /\ \A r \in replies : r.group = g => r.msg # m

\* Unless work is slow, the ack wait ends only for a delivery that was lost or
\* whose worker or reply is gone.
AckWaitExpires(g, m) ==
    /\ "slow" \in Faults \/ Abandoned(g, m)
    /\ Expire(g, m)
    /\ UNCHANGED <<workerVars, keys, handled, dead>>

GiveUp(g, m) ==
    /\ Exceed(g, m)
    /\ UNCHANGED <<workerVars, keys, handled, dead>>

MessageIdExpires(id) ==
    /\ "window" \in Faults
    /\ WindowExpires(id)
    /\ UNCHANGED <<workerVars, keys, handled, dead>>

KeyExpires(k) ==
    /\ "keyttl" \in Faults
    /\ k \in keys
    /\ keys' = keys \ {k}
    /\ UNCHANGED <<streamVars, workerVars, handled, dead>>

unsubscribe(w) ==
    /\ "unsubscribe" \in Faults
    /\ ConsumerKey(w) \in consumers
    /\ consumers' = consumers \ {ConsumerKey(w)}
    /\ UNCHANGED <<streamVars, isShuttingDown, pc, job, keys, handled, dead>>

\* The keys of the other processes.
KeysWithout(p) == {k \in consumers : k[1] # p}

onModuleDestroy(p) ==
    /\ "shutdown" \in Faults
    /\ isShuttingDown' = isShuttingDown \union {p}
    /\ consumers' = KeysWithout(p)
    /\ UNCHANGED <<streamVars, pc, job, keys, handled, dead>>

\* A process dies, or exits when the wait of onModuleDestroy is over, whatever
\* its workers are doing; it may be started again.
Exit(p) ==
    /\ "crash" \in Faults \/ p \in isShuttingDown
    /\ consumers' = KeysWithout(p)
    /\ isShuttingDown' = isShuttingDown \ {p}
    /\ pc' = [w \in Workers |-> IF Process[w] = p THEN "idle" ELSE pc[w]]
    /\ job' = [w \in Workers |-> IF Process[w] = p THEN NoJob ELSE job[w]]
    /\ UNCHANGED <<streamVars, keys, handled, dead>>

Next ==
    \/ \E e \in Envelopes : Publish(e)
    \/ \E w \in Workers :
         \/ Subscribe(w)
         \/ StartLoopFails(w)
         \/ NextThrows(w)
         \/ WorkerStep(w)
         \/ unsubscribe(w)
         \/ \E m \in Messages : DeliveryLost(w, m)
    \/ \E r \in replies : ReplyArrives(r) \/ ReplyLost(r)
    \/ \E g \in Groups, m \in Messages : AckWaitExpires(g, m) \/ GiveUp(g, m)
    \/ \E id \in Ids : MessageIdExpires(id)
    \/ \E k \in keys : KeyExpires(k)
    \/ \E p \in Processes : onModuleDestroy(p) \/ Exit(p)

Spec == Init /\ [][Next]_vars

\* Loops run on an event loop that keeps going, handlers and calls settle, the
\* server delivers what is due, expires ack waits and receives what is not lost,
\* and a service that starts subscribes its workers, once.
Fairness ==
    /\ \A w \in Workers : WF_vars(WorkerStep(w)) /\ WF_vars(pc[w] = "idle" /\ Subscribe(w))
    /\ WF_vars(\E r \in replies : ReplyArrives(r))
    /\ \A g \in Groups, m \in Messages :
         WF_vars(AckWaitExpires(g, m)) /\ WF_vars(GiveUp(g, m))

FairSpec == Spec /\ Fairness

-----------------------------------------------------------------------------
(* What the consumers guarantee *)

\* The consumers as module Delivery sees them: where the server stands with an
\* unsettled message, how often it was handled and by which delivery is hidden.
Promise == INSTANCE Delivery WITH
    outcome <- [g \in Groups |-> [m \in Messages |->
                  IF status[g][m] \in Final THEN status[g][m] ELSE "open"]],
    done <- {p \in Groups \X Messages : handled[p[1]][p[2]] # {}},
    buried <- {p \in Groups \X Messages : dead[p[1]][p[2]] # 0}

\* The loops, replies and keys implement the promise of module Delivery: step by
\* step a message is published, handled, buried or settled, and nothing else.
ImplementsDelivery == Promise!Spec

\* The type invariant.
TypeOK ==
    /\ StreamTypeOK
    /\ consumers \subseteq ConsumerKeys
    /\ isShuttingDown \subseteq Processes
    /\ pc \in [Workers -> Points]
    /\ job \in [Workers -> Jobs]
    /\ keys \subseteq IdempotencyKeys
    /\ handled \in [Groups -> [Messages -> SUBSET Nat]]
    /\ dead \in [Groups -> [Messages -> Nat]]

\* A message with this key was handled, by any idempotent group.
KeyWasHandled(key) ==
    \E g \in Idempotent, m \in 1 .. Len(log) :
        getIdempotencyKey(m) = key /\ handled[g][m] # {}

\* A group is rid of an acknowledged message only because its handler succeeded,
\* or because the idempotency key says that it did: whatever crashes, is lost or
\* comes late, no message is acknowledged unhandled.
AckedWasHandled ==
    \A g \in Groups, m \in 1 .. Len(log) :
        status[g][m] = "acked" =>
            \/ handled[g][m] # {}
            \/ g \in Idempotent /\ KeyWasHandled(getIdempotencyKey(m))

\* A message reaches the dead letters of a group at most once, however many
\* workers hold deliveries of it and whatever they are interrupted by.
DeadLetteredOnce ==
    \A g \in Groups, m \in Messages : dead[g][m] <= 1

\* "Each message in a group is processed by only one consumer" (ARCHITECTURE.md):
\* no two workers of a group are in the handler with the same message.
ProcessedByOneConsumer ==
    \A v, w \in Workers :
        /\ v # w
        /\ Group[v] = Group[w]
        /\ pc[v] = "handle"
        /\ pc[w] = "handle"
        => job[v].msg # job[w].msg

\* A message the server gave up was handled or is among the dead letters:
\* "Messages that fail after all retries go to a dead letter queue".
NoSilentDrop ==
    \A g \in Groups, m \in Messages :
        status[g][m] = "exceeded" => handled[g][m] # {} \/ dead[g][m] > 0

\* A terminated message, which no consumer sees again, is among the dead letters.
TermedAreDeadLettered ==
    \A g \in Groups, m \in Messages :
        status[g][m] = "termed" => dead[g][m] > 0

\* The dead letters are the "permanently failed messages": none of them is a
\* message whose handler succeeded.
OnlyFailedAreDeadLettered ==
    \A g \in Groups, m \in Messages : dead[g][m] > 0 => handled[g][m] = {}

\* What the idempotency option is for: an idempotent group runs its handler to
\* success at most once for a message id, over redeliveries and republications.
HandledOncePerKey ==
    \A g \in Idempotent, j, k \in 1 .. Len(log) :
        getIdempotencyKey(j) = getIdempotencyKey(k) =>
            /\ Cardinality(handled[g][j]) <= 1
            /\ j # k => handled[g][j] = {} \/ handled[g][k] = {}

\* Every consumer group gets the event: a group is rid of a message by an
\* acknowledgement only if the group itself handled a message with that key.
EveryGroupHandles ==
    \A g \in Groups, m \in 1 .. Len(log) :
        status[g][m] = "acked" =>
            \E k \in 1 .. Len(log) :
                /\ getIdempotencyKey(k) = getIdempotencyKey(m)
                /\ handled[g][k] # {}

\* Every stored message is settled in every group, or it stays with a group
\* nobody subscribes to.
EventuallySettled ==
    \A g \in Groups, m \in Messages :
        (m <= Len(log) /\ maxDeliver[g] > 0) ~> (status[g][m] \in Final)

\* A loop of a process that shuts down ends, unless the process ends first: whatever
\* await the hook's flag met it at, and even if a subscription puts its key back into
\* the map that the hook has cleared.
LoopsEndAtShutdown ==
    \A w \in Workers :
        []<>(pc[w] \in {"idle", "dead"} \/ Process[w] \notin isShuttingDown)

=============================================================================
