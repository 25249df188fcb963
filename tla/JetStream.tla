------------------------------- MODULE JetStream -------------------------------
(***************************************************************************)
(* One JetStream stream and its durable pull consumers, as far as the      *)
(* messaging services of src/src/shared/messaging can observe them.  The   *)
(* server is not part of the repository: this module is its external       *)
(* behaviour, fixed by how nats.service.ts configures it (explicit         *)
(* acknowledgement, max_deliver, one subject filter per durable consumer)  *)
(* and by how the producer and the consumer use it.                        *)
(*                                                                         *)
(* The operators below are not a specification of their own: each is the   *)
(* server's half of an action of a module that EXTENDS this one.           *)
(***************************************************************************)
EXTENDS Naturals, Sequences

CONSTANTS
    Groups,       \* the durable consumers of the stream (consumer groups)
    Ids,          \* the ids an envelope may carry, which are message ids too
    NoId,         \* the id of an envelope without a usable id
    Bodies,       \* what the messages can be: see AllBodies
    MaxMessages   \* bound: how many messages are ever stored

\* "event" is a well-formed envelope, "invalid" one that the subscription's
\* validate function refuses, "malformed" a payload that is not JSON.
AllBodies == {"event", "invalid", "malformed"}

ASSUME JetStreamAssumption ==
    /\ MaxMessages \in Nat
    /\ Bodies \subseteq AllBodies

VARIABLES
    log,          \* the stored messages, in stream order
    window,       \* the message ids of the server's duplicate window
    maxDeliver,   \* max_deliver of each durable consumer, 0 before it exists
    status,       \* where a message stands in a durable consumer
    deliveries,   \* how often a durable consumer handed a message out
    replies       \* acknowledgements on their way to the server

streamVars == <<log, window, maxDeliver, status, deliveries, replies>>

Messages == 1 .. MaxMessages

Envelopes == [id : Ids \union {NoId}, body : Bodies]

\* "pending": handed out, awaiting an acknowledgement; "waiting": to be handed
\* out again; "exceeded": given up by the server after max_deliver deliveries.
Outstanding == {"pending", "waiting"}

Final == {"acked", "termed", "exceeded"}

Statuses == {"new"} \union Outstanding \union Final

Replies == [kind : {"ack", "nak", "term"}, group : Groups,
            msg : Messages, attempt : Nat]

StreamTypeOK ==
    /\ log \in Seq(Envelopes)
    /\ Len(log) <= MaxMessages
    /\ window \subseteq Ids
    /\ maxDeliver \in [Groups -> Nat]
    /\ status \in [Groups -> [Messages -> Statuses]]
    /\ deliveries \in [Groups -> [Messages -> Nat]]
    /\ replies \subseteq Replies

StreamInit ==
    /\ log = <<>>
    /\ window = {}
    /\ maxDeliver = [g \in Groups |-> 0]
    /\ status = [g \in Groups |-> [m \in Messages |-> "new"]]
    /\ deliveries = [g \in Groups |-> [m \in Messages |-> 0]]
    /\ replies = {}

-----------------------------------------------------------------------------

\* A publication whose message id is in the duplicate window is confirmed but
\* not stored; one without a message id is always stored.
Store(e) ==
    /\ Len(log) < MaxMessages
    /\ e.id \notin window
    /\ log' = Append(log, e)
    /\ window' = IF e.id = NoId THEN window ELSE window \union {e.id}
    /\ UNCHANGED <<maxDeliver, status, deliveries, replies>>

WindowExpires(id) ==
    /\ id \in window
    /\ window' = window \ {id}
    /\ UNCHANGED <<log, maxDeliver, status, deliveries, replies>>

\* New messages go out in stream order; one that is due again goes out at any
\* time, unless it has used its deliveries up.
Available(g, m) ==
    /\ maxDeliver[g] > 0
    /\ m <= Len(log)
    /\ \/ status[g][m] = "waiting" /\ deliveries[g][m] < maxDeliver[g]
       \/ status[g][m] = "new" /\ \A k \in 1 .. m - 1 : status[g][k] # "new"

HandOut(g, m) ==
    /\ Available(g, m)
    /\ status' = [status EXCEPT ![g][m] = "pending"]
    /\ deliveries' = [deliveries EXCEPT ![g][m] = @ + 1]
    /\ UNCHANGED <<log, window, maxDeliver, replies>>

\* What a reply does to a message.  It names no delivery: one that arrives late
\* still settles a message that is out again, and is ignored once it is settled.
AfterReply(kind, s) ==
    IF s \notin Outstanding THEN s
    ELSE IF kind = "nak" THEN "waiting"
    ELSE IF kind = "ack" THEN "acked"
    ELSE "termed"

ApplyReply(r) ==
    /\ r \in replies
    /\ replies' = replies \ {r}
    /\ status' = [status EXCEPT ![r.group][r.msg] = AfterReply(r.kind, @)]
    /\ UNCHANGED <<log, window, maxDeliver, deliveries>>

LoseReply(r) ==
    /\ r \in replies
    /\ replies' = replies \ {r}
    /\ UNCHANGED <<log, window, maxDeliver, status, deliveries>>

\* The ack wait of a delivery is over.
Expire(g, m) ==
    /\ status[g][m] = "pending"
    /\ status' = [status EXCEPT ![g][m] = "waiting"]
    /\ UNCHANGED <<log, window, maxDeliver, deliveries, replies>>

\* A message due again has been delivered max_deliver times: the server drops
\* it from the durable consumer.
Exceed(g, m) ==
    /\ status[g][m] = "waiting"
    /\ deliveries[g][m] >= maxDeliver[g]
    /\ status' = [status EXCEPT ![g][m] = "exceeded"]
    /\ UNCHANGED <<log, window, maxDeliver, deliveries, replies>>

=============================================================================
