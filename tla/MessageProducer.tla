---------------------------- MODULE MessageProducer ----------------------------
(***************************************************************************)
(* MessageProducerService of                                               *)
(* src/src/shared/messaging/message-producer.service.ts with ensureStream  *)
(* of nats.service.ts: batches that are published one message after the    *)
(* other, each after its stream was looked up, updated or added, to a      *)
(* server whose answers may be late or missing; callers try again.         *)
(***************************************************************************)
EXTENDS Naturals, Sequences, FiniteSets

CONSTANTS
    Publishers,   \* the callers of publishBatch, in any number of processes
    Batch,        \* Batch[p]: the events p publishes, in order
    Key,          \* Key[e]: the idempotency key of event e, or NoKey
    NoKey,
    StreamName,   \* StreamName[p]: what getStreamName makes of p's stream
    Subject,      \* Subject[p]: what getSubject makes of it
    DeadLetters,  \* DeadLetters[p]: what getDeadLetterSubject makes of it
    MaxTries,     \* bound: MaxTries[p] is how often p publishes its batch
    Expiring,     \* the keys whose duplicate window may end
    Faults        \* Faults[p]: "api": provisioning calls fail; "wire": publications
                  \* or their confirmations are late or lost

Events == DOMAIN Key

Keys == {Key[e] : e \in Events} \ {NoKey}

ASSUME ProducerAssumption ==
    /\ Batch \in [Publishers -> Seq(Events)]
    /\ MaxTries \in [Publishers -> Nat]
    /\ Faults \in [Publishers -> SUBSET {"api", "wire"}]

StreamNames == {StreamName[p] : p \in Publishers}

\* The subjects of the stream that ensureStream wants.
Config(p) == {Subject[p], DeadLetters[p]}

VARIABLES
    streams,   \* the subjects each stream is configured with; {}: it does not exist
    log,       \* the stored messages, in order
    window,    \* the message ids each stream still knows
    expired,   \* history: those it has forgotten
    wire,      \* publications on their way
    pc,        \* the await at which the publishing of each batch is
    try,       \* which attempt of its caller it is
    ids        \* what its messageIds identify, as positions of the log

vars == <<streams, log, window, expired, wire, pc, try, ids>>

Init ==
    /\ streams = [n \in StreamNames |-> {}]
    /\ log = <<>>
    /\ window = {}
    /\ expired = {}
    /\ wire = {}
    /\ pc = [p \in Publishers |-> "idle"]
    /\ try = [p \in Publishers |-> 0]
    /\ ids = [p \in Publishers |-> <<>>]

Goto(p, point) == pc' = [pc EXCEPT ![p] = point]

\* The place in its batch of the event that p publishes next.
Position(p) == Len(ids[p]) + 1

Finished(p) == Len(ids[p]) = Len(Batch[p])

-----------------------------------------------------------------------------
(* The producer *)

\* publishBatch() is called, for the first time or after it threw.
Start(p) ==
    /\ pc[p] = "idle"
    /\ ~Finished(p)
    /\ try[p] < MaxTries[p]
    /\ try' = [try EXCEPT ![p] = @ + 1]
    /\ ids' = [ids EXCEPT ![p] = <<>>]
    /\ Goto(p, "info")
    /\ UNCHANGED <<streams, log, window, expired, wire>>

\* streams.info(): a failure is taken for a stream that does not exist. Without a
\* manager nothing is asked and publish() throws.
Info(p) ==
    /\ pc[p] = "info"
    /\ \/ streams[StreamName[p]] # {} /\ Goto(p, "update")
       \/ (streams[StreamName[p]] = {} \/ "api" \in Faults[p]) /\ Goto(p, "add")
       \/ "api" \in Faults[p] /\ Goto(p, "idle")
    /\ UNCHANGED <<streams, log, window, expired, wire, try, ids>>

\* The server refuses a subject that another stream has.
Overlaps(p) ==
    \E n \in StreamNames \ {StreamName[p]} : streams[n] \intersect Config(p) # {}

\* A request that gives the stream its subjects if it is permitted; its failure,
\* which may be a late answer, continues at a given point.
Provision(p, permitted, onError) ==
    /\ \/ /\ permitted
          /\ streams' = [streams EXCEPT ![StreamName[p]] = Config(p)]
          /\ Goto(p, "send") \/ ("api" \in Faults[p] /\ Goto(p, onError))
       \/ /\ ~permitted \/ "api" \in Faults[p]
          /\ Goto(p, onError)
          /\ UNCHANGED streams
    /\ UNCHANGED <<log, window, expired, wire, try, ids>>

Update(p) == pc[p] = "update" /\ Provision(p, ~Overlaps(p), "add")

\* Mutant: ensureStream logs a failing add and returns.
AddUnchecked(p) ==
    /\ pc[p] = "add"
    /\ Provision(p, ~Overlaps(p) /\ streams[StreamName[p]] \in {{}, Config(p)}, "send")

\* streams.add() is idempotent; it does not change a stream. Its exception is
\* publish()'s.
Add(p) ==
    /\ pc[p] = "add"
    /\ Provision(p, ~Overlaps(p) /\ streams[StreamName[p]] \in {{}, Config(p)}, "idle")

\* Mutant: the message id is always a new UUID.
EnvelopeIdRandom(p) == [publisher |-> p, position |-> Position(p), try |-> try[p]]

\* Mutant: the message id is derived from the stream.
EnvelopeIdOfStream(p) == Subject[p]

\* The key of the event, or a UUID that no other call of publish() has.
EnvelopeId(p) ==
    IF Key[Batch[p][Position(p)]] # NoKey
    THEN Key[Batch[p][Position(p)]]
    ELSE [publisher |-> p, position |-> Position(p), try |-> try[p]]

\* publish() after its stream is provisioned; the client is at hand as the manager
\* was. That the connection is lost now is a publication that is lost.
Send(p) ==
    /\ pc[p] = "send"
    /\ Goto(p, "confirm")
    /\ wire' = wire \union
         {[publisher |-> p, position |-> Position(p), try |-> try[p], id |-> EnvelopeId(p)]}
    /\ UNCHANGED <<streams, log, window, expired, try, ids>>

\* Mutant: a failing message is reported as published and the batch goes on.
GiveUpContinuing(p) ==
    /\ pc[p] = "confirm"
    /\ "wire" \in Faults[p]
    /\ ids' = [ids EXCEPT ![p] = Append(@, 0)]
    /\ Goto(p, IF Position(p) = Len(Batch[p]) THEN "idle" ELSE "info")
    /\ UNCHANGED <<streams, log, window, expired, wire, try>>

\* No confirmation in time: publish() and publishBatch() throw.
GiveUp(p) ==
    /\ pc[p] = "confirm"
    /\ "wire" \in Faults[p]
    /\ Goto(p, "idle")
    /\ UNCHANGED <<streams, log, window, expired, wire, try, ids>>

-----------------------------------------------------------------------------
(* The server *)

\* Mutant: any confirmation is taken for the one that is waited for.
AwaitedWhichever(r) == pc[r.publisher] = "confirm"

\* The call that sent r still waits for its confirmation.
Awaited(r) ==
    /\ pc[r.publisher] = "confirm"
    /\ try[r.publisher] = r.try
    /\ Position(r.publisher) = r.position

\* The confirmation of r names position k of the log.
Confirm(r, k) ==
    LET p == r.publisher IN
    \/ /\ Awaited(r)
       /\ ids' = [ids EXCEPT ![p] = Append(@, k)]
       /\ Goto(p, IF r.position = Len(Batch[p]) THEN "idle" ELSE "info")
    \/ /\ ~Awaited(r) \/ "wire" \in Faults[p]
       /\ UNCHANGED <<pc, ids>>

Event(r) == Batch[r.publisher][r.position]

Routes(n, r) == Subject[r.publisher] \in streams[n]

\* The stream that has the subject stores r, unless it knows the id.
Store(n, r) ==
    /\ r \in wire
    /\ Routes(n, r)
    /\ [stream |-> n, id |-> r.id] \notin window
    /\ log' = Append(log, [stream |-> n, publisher |-> r.publisher,
                           event |-> Event(r), id |-> r.id])
    /\ window' = window \union {[stream |-> n, id |-> r.id]}
    /\ wire' = wire \ {r}
    /\ Confirm(r, Len(log'))
    /\ UNCHANGED <<streams, expired, try>>

\* A known id is confirmed with the message that has it.
Duplicate(n, r) ==
    /\ r \in wire
    /\ Routes(n, r)
    /\ [stream |-> n, id |-> r.id] \in window
    /\ \E k \in DOMAIN log :
         /\ log[k].stream = n /\ log[k].id = r.id
         /\ \A j \in k + 1 .. Len(log) : log[j].stream # n \/ log[j].id # r.id
         /\ Confirm(r, k)
    /\ wire' = wire \ {r}
    /\ UNCHANGED <<streams, log, window, expired, try>>

\* No stream has the subject: there are no responders.
NoResponders(r) ==
    /\ r \in wire
    /\ \A n \in StreamNames : ~Routes(n, r)
    /\ wire' = wire \ {r}
    /\ IF Awaited(r) THEN Goto(r.publisher, "idle") ELSE UNCHANGED pc
    /\ UNCHANGED <<streams, log, window, expired, try, ids>>

Lose(r) ==
    /\ r \in wire
    /\ "wire" \in Faults[r.publisher]
    /\ wire' = wire \ {r}
    /\ UNCHANGED <<streams, log, window, expired, pc, try, ids>>

\* The duplicate window of an id ends. For a UUID nobody could tell: it is sent once.
Expire(known) ==
    /\ known.id \in Expiring
    /\ window' = window \ {known}
    /\ expired' = expired \union {known}
    /\ UNCHANGED <<streams, log, wire, pc, try, ids>>

Next ==
    \/ \E p \in Publishers :
         Start(p) \/ Info(p) \/ Update(p) \/ Add(p) \/ Send(p) \/ GiveUp(p)
    \/ \E r \in wire :
         NoResponders(r) \/ Lose(r) \/ \E n \in StreamNames : Store(n, r) \/ Duplicate(n, r)
    \/ \E known \in window : Expire(known)

Spec == Init /\ [][Next]_vars

-----------------------------------------------------------------------------
(* Properties *)

\* The log and the confirmations as module Publication sees them: who published what,
\* under which id, and the keys that the server knows are hidden.
Promise == INSTANCE Publication WITH
    Streams <- StreamNames,
    stored <- [k \in DOMAIN log |-> [stream |-> log[k].stream, event |-> log[k].event]],
    forgotten <- {x \in StreamNames \X Keys :
                    [stream |-> x[1], id |-> x[2]] \in expired \ window},
    confirmed <- ids

\* Provisioning, retries, late publications and duplicates implement the promise of
\* module Publication: batches are stored in order, keyed events once until they are
\* forgotten, and each confirmation names the message of the event it is for.
ImplementsPublication == Promise!Spec

Attempts(p) == 1 .. MaxTries[p]

Places(p) == 1 .. Len(Batch[p])

EnvelopeIds ==
    Keys \union UNION {[publisher : {p}, position : Places(p), try : Attempts(p)] :
                       p \in Publishers}

Known == [stream : StreamNames, id : EnvelopeIds]

Publications ==
    UNION {[publisher : {p}, position : Places(p), try : Attempts(p), id : EnvelopeIds] :
           p \in Publishers}

Stored == [stream : StreamNames, publisher : Publishers, event : Events, id : EnvelopeIds]

\* The type invariant: a publisher is at most as far as its batch is long, and
\* what it was confirmed is in the log.
TypeOK ==
    /\ \A n \in StreamNames :
         streams[n] \in {{}} \union {Config(p) : p \in Publishers}
    /\ log \in Seq(Stored)
    /\ window \subseteq Known /\ expired \subseteq Known
    /\ wire \subseteq Publications
    /\ pc \in [Publishers -> {"idle", "info", "update", "add", "send", "confirm"}]
    /\ \A p \in Publishers :
         /\ try[p] \in 0 .. MaxTries[p]
         /\ ids[p] \in Seq(1 .. Len(log)) /\ Len(ids[p]) <= Len(Batch[p])
         /\ pc[p] # "idle" => Len(ids[p]) < Len(Batch[p])

\* Of what publish() returns an id, the event is stored, whoever published it first:
\* a publication is never confirmed by the message of another event.
ConfirmedIsStored ==
    \A p \in Publishers : \A i \in DOMAIN ids[p] :
        log[ids[p][i]].event = Batch[p][i]

\* An event with an idempotency key is stored in a stream once, however often it is
\* published and however late those publications arrive, while the duplicate window
\* lasts.
StoredOncePerKey ==
    \A j, k \in DOMAIN log :
        /\ log[j].event = log[k].event /\ log[j].stream = log[k].stream
        /\ Key[log[j].event] # NoKey
        => j = k \/ [stream |-> log[j].stream, id |-> Key[log[j].event]] \in expired

\* What an attempt that failed leaves behind is a beginning of the batch: an event
\* is only in the log after those that come before it in its batch.
BatchInOrder ==
    \A k \in DOMAIN log :
        LET p == log[k].publisher IN
        \A j \in Places(p) : log[k].event = Batch[p][j] =>
            \A i \in 1 .. j - 1 : \E l \in 1 .. k - 1 : log[l].event = Batch[p][i]

\* No other stream in use has the same name and another subject.
OwnName(p) ==
    \A q \in Publishers : StreamName[q] = StreamName[p] => Config(q) = Config(p)

\* When a message is sent its stream has its subject, whatever processes that
\* provision it or streams with overlapping subjects at the same time, and however
\* their calls fail; names that collide excepted.
ProvisionedBeforePublish ==
    \A p \in Publishers :
        pc[p] \in {"send", "confirm"} /\ OwnName(p) => Subject[p] \in streams[StreamName[p]]

=============================================================================
