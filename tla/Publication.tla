----------------------------- MODULE Publication -----------------------------
(***************************************************************************)
(* What publish() and publishBatch() promise their callers, without the    *)
(* provisioning of streams, message ids, late publications and lost        *)
(* confirmations: events are stored in the order of their batch, an event  *)
(* with an idempotency key once until the server forgets it, and a batch   *)
(* is confirmed, event by event, with the stored messages that carry its   *)
(* events.  Module MessageProducer implements it.                          *)
(***************************************************************************)
EXTENDS Naturals, Sequences

CONSTANTS Publishers, Batch, Key, NoKey, Streams   \* as in MessageProducer

VARIABLES
    stored,     \* the stored messages, in order: the stream and the event of each
    forgotten,  \* the keys the server has forgotten, with their streams
    confirmed   \* the messages each publisher was told of, in its current attempt

publicationVars == <<stored, forgotten, confirmed>>

Init ==
    /\ stored = <<>>
    /\ forgotten = {}
    /\ confirmed = [p \in Publishers |-> <<>>]

InStream(n, e) == \E k \in DOMAIN stored : stored[k] = [stream |-> n, event |-> e]

\* An event with a key is stored again only if the server has forgotten the key.
Admitted(n, e) == Key[e] = NoKey \/ ~InStream(n, e) \/ <<n, Key[e]>> \in forgotten

Place(p) == Len(confirmed[p]) + 1

Tell(p, k) == confirmed' = [confirmed EXCEPT ![p] = Append(@, k)]

\* A caller publishes its batch from the beginning.
Restart(p) ==
    /\ Place(p) <= Len(Batch[p])
    /\ confirmed' = [confirmed EXCEPT ![p] = <<>>]
    /\ UNCHANGED <<stored, forgotten>>

\* Event i of p's batch is stored, after those before it.  Its publisher is told at
\* once, if the event is the next of its attempt, or never.
Put(n, p, i) ==
    /\ Admitted(n, Batch[p][i])
    /\ \A j \in 1 .. i - 1 : \E k \in DOMAIN stored : stored[k].event = Batch[p][j]
    /\ stored' = Append(stored, [stream |-> n, event |-> Batch[p][i]])
    /\ forgotten' = forgotten \ {<<n, Key[Batch[p][i]]>>}
    /\ UNCHANGED confirmed \/ (i = Place(p) /\ Tell(p, Len(stored')))

\* The next event of p's attempt is there already.
Repeat(p) ==
    /\ Place(p) <= Len(Batch[p])
    /\ \E k \in DOMAIN stored : stored[k].event = Batch[p][Place(p)] /\ Tell(p, k)
    /\ UNCHANGED <<stored, forgotten>>

\* The server forgets the key of an event it has stored.
Forget(n, e) ==
    /\ Key[e] # NoKey
    /\ InStream(n, e)
    /\ forgotten' = forgotten \union {<<n, Key[e]>>}
    /\ UNCHANGED <<stored, confirmed>>

Next ==
    \/ \E p \in Publishers :
         \/ Restart(p)
         \/ Repeat(p)
         \/ \E n \in Streams, i \in DOMAIN Batch[p] : Put(n, p, i)
    \/ \E n \in Streams, e \in DOMAIN Key : Forget(n, e)

Spec == Init /\ [][Next]_publicationVars

=============================================================================
