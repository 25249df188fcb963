-------------------------------- MODULE Delivery --------------------------------
(***************************************************************************)
(* What the messaging of the service promises a consumer group, without    *)
(* loops, replies, keys or crashes: an event is settled in a group once,   *)
(* as acknowledged only if a handler succeeded with it, and it is among    *)
(* the group's dead letters at most once.  Module MessageConsumer          *)
(* implements this specification.                                          *)
(*                                                                         *)
(* Delivery is at least once: a handler may succeed with an event again,   *)
(* at any time.  A group may lose an event without a dead letter, because  *)
(* dead letters are published at most once.                                *)
(***************************************************************************)
EXTENDS Naturals, Sequences

CONSTANTS
    Groups,       \* the consumer groups
    Idempotent,   \* the groups that skip an event that was handled before
    Envelopes,    \* the events that can be published, records with an id
    NoId,         \* the id of an event without one
    MaxMessages   \* bound: how many events are ever published

VARIABLES
    log,       \* the published events
    outcome,   \* what became of an event in a group: "open" or an outcome
    done,      \* the pairs of a group and an event its handler succeeded with
    buried     \* the pairs of a group and one of its dead letters

deliveryVars == <<log, outcome, done, buried>>

Events == 1 .. MaxMessages

Outcomes == {"acked", "termed", "exceeded"}

Init ==
    /\ log = <<>>
    /\ outcome = [g \in Groups |-> [m \in Events |-> "open"]]
    /\ done = {}
    /\ buried = {}

\* Two publications of one event carry one id.
SameEvent(j, k) ==
    \/ j = k
    \/ log[j].id = log[k].id /\ log[j].id # NoId

\* The event was handled for the group, or it is one that idempotent groups,
\* which share their keys, take for handled.
Handled(g, m) ==
    \/ <<g, m>> \in done
    \/ /\ g \in Idempotent
       /\ \E h \in Idempotent, k \in 1 .. Len(log) : SameEvent(k, m) /\ <<h, k>> \in done

Publish(e) ==
    /\ log' = Append(log, e)
    /\ UNCHANGED <<outcome, done, buried>>

Succeed(g, m) ==
    /\ done' = done \union {<<g, m>>}
    /\ UNCHANGED <<log, outcome, buried>>

Bury(g, m) ==
    /\ <<g, m>> \notin buried
    /\ buried' = buried \union {<<g, m>>}
    /\ UNCHANGED <<log, outcome, done>>

Settle(g, m, o) ==
    /\ outcome[g][m] = "open"
    /\ o = "acked" => Handled(g, m)
    /\ outcome' = [outcome EXCEPT ![g][m] = o]
    /\ UNCHANGED <<log, done, buried>>

Next ==
    \/ \E e \in Envelopes : Publish(e)
    \/ \E g \in Groups, m \in Events :
         /\ m <= Len(log)
         /\ \/ Succeed(g, m)
            \/ Bury(g, m)
            \/ \E o \in Outcomes : Settle(g, m, o)

Spec == Init /\ [][Next]_deliveryVars

=============================================================================
