-------------------------- MODULE MessageProducerProofs --------------------------
(***************************************************************************)
(* Theorems about MessageProducer, for any publishers, batches, streams,   *)
(* retries and faults.                                                     *)
(***************************************************************************)
EXTENDS MessageProducer, SequenceTheorems, TLAPS

Points == {"idle", "info", "update", "add", "send", "confirm"}

UUID(p, i, t) == [publisher |-> p, position |-> i, try |-> t]

\* That id is one that publish() gives event e.
IdOf(e, id) ==
    IF Key[e] # NoKey
    THEN id = Key[e]
    ELSE \E p \in Publishers, i, t \in Nat :
            i \in Places(p) /\ e = Batch[p][i] /\ id = UUID(p, i, t)

Shapes ==
    /\ streams \in [StreamNames -> {{}} \union {Config(p) : p \in Publishers}]
    /\ pc \in [Publishers -> Points]
    /\ try \in [Publishers -> Nat]
    /\ ids \in [Publishers -> Seq(Nat)]
    /\ log \in Seq(Stored)
    /\ window \subseteq Known
    /\ expired \subseteq Known

\* How far a publisher is.
Progress ==
    \A p \in Publishers :
        /\ try[p] <= MaxTries[p]
        /\ Len(ids[p]) <= Len(Batch[p])
        /\ pc[p] # "idle" => try[p] >= 1 /\ Len(ids[p]) < Len(Batch[p])
        /\ \A i \in 1 .. Len(ids[p]) : ids[p][i] \in 1 .. Len(log)

\* What is on its way.
Wired ==
    \A r \in wire :
        /\ r \in [publisher : Publishers, position : Nat, try : Nat, id : EnvelopeIds]
        /\ r.position \in Places(r.publisher)
        /\ r.try \in Attempts(r.publisher)
        /\ IdOf(Event(r), r.id)

\* The ids of the log, and what the server knows of them.
Recorded ==
    /\ \A k \in 1 .. Len(log) :
         /\ IdOf(log[k].event, log[k].id)
         /\ [stream |-> log[k].stream, id |-> log[k].id] \in window \union expired
    /\ \A j, k \in 1 .. Len(log) :
         log[j].stream = log[k].stream /\ log[j].id = log[k].id =>
           j = k \/ [stream |-> log[j].stream, id |-> log[j].id] \in expired

ProducerInv == Shapes /\ Progress /\ Wired /\ Recorded

LEMMA BatchIsEvents ==
    ASSUME NEW p \in Publishers
    PROVE  /\ Len(Batch[p]) \in Nat /\ MaxTries[p] \in Nat
           /\ \A i \in Places(p) : i \in Nat /\ Batch[p][i] \in Events
<1>. QED
  BY ProducerAssumption DEF Places

\* publish() gives an event an id that is its own.
LEMMA EnvelopeIdIdentifies ==
    ASSUME ProducerInv, NEW p \in Publishers, pc[p] # "idle"
    PROVE  /\ Position(p) \in Places(p) /\ try[p] \in Attempts(p)
           /\ EnvelopeId(p) \in EnvelopeIds
           /\ IdOf(Batch[p][Position(p)], EnvelopeId(p))
<1>1. Position(p) \in Places(p) /\ Position(p) \in Nat /\ try[p] \in Attempts(p) /\ try[p] \in Nat
  BY BatchIsEvents DEF ProducerInv, Shapes, Progress, Position, Places, Attempts
<1>2. Batch[p][Position(p)] \in Events
  BY <1>1, BatchIsEvents
<1>. DEFINE e == Batch[p][Position(p)]
<1>3. CASE Key[e] # NoKey
  <2>1. Key[e] \in Keys /\ EnvelopeId(p) = Key[e]
    BY <1>2, <1>3 DEF Keys, EnvelopeId
  <2>. QED
    BY <1>1, <1>3, <2>1 DEF EnvelopeIds, IdOf
<1>4. CASE Key[e] = NoKey
  <2>1. EnvelopeId(p) = UUID(p, Position(p), try[p])
    BY <1>4 DEF EnvelopeId, UUID
  <2>2. UUID(p, Position(p), try[p]) \in [publisher : {p}, position : Places(p), try : Attempts(p)]
    BY <1>1 DEF UUID
  <2>3. EnvelopeId(p) \in EnvelopeIds
    BY <2>1, <2>2 DEF EnvelopeIds
  <2>4. IdOf(e, EnvelopeId(p))
    BY <1>1, <1>4, <2>1 DEF IdOf
  <2>. QED
    BY <1>1, <2>3, <2>4
<1>. QED
  BY <1>3, <1>4

\* A step that changes neither the log nor the wire.
LEMMA QuietKeeps ==
    ASSUME ProducerInv, UNCHANGED <<log, window, expired, wire>>
    PROVE  Wired' /\ Recorded'
<1>. QED
  BY DEF ProducerInv, Wired, Recorded, Event

LEMMA ProvisionKeeps ==
    ASSUME ProducerInv, NEW p \in Publishers, pc[p] # "idle",
           NEW permitted, NEW onError \in {"add", "idle"}, Provision(p, permitted, onError)
    PROVE  ProducerInv'
<1>1. UNCHANGED <<log, window, expired, wire, try, ids>>
  BY DEF Provision
<1>2. /\ streams' \in [StreamNames -> {{}} \union {Config(q) : q \in Publishers}]
      /\ \E point \in {"send", "add", "idle"} : pc' = [pc EXCEPT ![p] = point]
  <2>1. streams \in [StreamNames -> {{}} \union {Config(q) : q \in Publishers}]
    BY DEF ProducerInv, Shapes
  <2>2. streams' = streams \/ streams' = [streams EXCEPT ![StreamName[p]] = Config(p)]
    BY DEF Provision
  <2>3. streams' \in [StreamNames -> {{}} \union {Config(q) : q \in Publishers}]
    BY <2>1, <2>2
  <2>4. \E point \in {"send", "add", "idle"} : pc' = [pc EXCEPT ![p] = point]
    BY DEF Provision, Goto
  <2>. QED
    BY <2>3, <2>4
<1>3. Shapes'
  BY <1>1, <1>2 DEF ProducerInv, Shapes, Points
<1>4. Progress'
  BY <1>1, <1>2 DEF ProducerInv, Shapes, Progress
<1>. QED
  BY <1>1, <1>3, <1>4, QuietKeeps DEF ProducerInv

LEMMA PublisherKeeps ==
    ASSUME ProducerInv, NEW p \in Publishers, Start(p) \/ Info(p) \/ Update(p) \/ Add(p) \/ GiveUp(p)
    PROVE  ProducerInv'
<1>1. CASE Start(p)
  <2>1. /\ UNCHANGED <<streams, log, window, expired, wire>> /\ try[p] < MaxTries[p]
        /\ try' = [try EXCEPT ![p] = @ + 1] /\ ids' = [ids EXCEPT ![p] = <<>>]
        /\ pc' = [pc EXCEPT ![p] = "info"] /\ Len(ids[p]) # Len(Batch[p])
    BY <1>1 DEF Start, Goto, Finished
  <2>2. Shapes'
    <3>1. <<>> \in Seq(Nat)
      OBVIOUS
    <3>2. ids' \in [Publishers -> Seq(Nat)] /\ pc' \in [Publishers -> Points]
      BY <2>1, <3>1 DEF ProducerInv, Shapes, Points
    <3>3. try' \in [Publishers -> Nat]
      BY <2>1 DEF ProducerInv, Shapes
    <3>. QED
      BY <2>1, <3>2, <3>3 DEF ProducerInv, Shapes
  <2>3. Len(Batch[p]) > 0 /\ try[p] + 1 <= MaxTries[p] /\ try[p] + 1 >= 1
    BY <2>1, BatchIsEvents DEF ProducerInv, Shapes, Progress
  <2>4. \A q \in Publishers \ {p} : try'[q] = try[q] /\ ids'[q] = ids[q] /\ pc'[q] = pc[q]
    BY <2>1 DEF ProducerInv, Shapes
  <2>5. try'[p] = try[p] + 1 /\ ids'[p] = <<>>
    BY <2>1 DEF ProducerInv, Shapes
  <2>6. Progress'
    BY <2>1, <2>3, <2>4, <2>5 DEF ProducerInv, Progress
  <2>. QED
    BY <2>1, <2>2, <2>6, QuietKeeps DEF ProducerInv
<1>2. CASE Info(p) \/ GiveUp(p)
  <2>1. /\ UNCHANGED <<streams, log, window, expired, wire, try, ids>> /\ pc[p] # "idle"
        /\ \E point \in {"update", "add", "idle"} : pc' = [pc EXCEPT ![p] = point]
    BY <1>2 DEF Info, GiveUp, Goto
  <2>2. Shapes' /\ Progress'
    BY <2>1 DEF ProducerInv, Shapes, Progress, Points
  <2>. QED
    BY <2>1, <2>2, QuietKeeps DEF ProducerInv
<1>3. CASE Update(p) \/ Add(p)
  BY <1>3, ProvisionKeeps DEF Update, Add
<1>. QED
  BY <1>1, <1>2, <1>3

LEMMA SendKeeps ==
    ASSUME ProducerInv, NEW p \in Publishers, Send(p)
    PROVE  ProducerInv'
<1>. DEFINE r == [publisher |-> p, position |-> Position(p), try |-> try[p], id |-> EnvelopeId(p)]
<1>1. /\ UNCHANGED <<streams, log, window, expired, try, ids>> /\ pc[p] # "idle"
      /\ pc' = [pc EXCEPT ![p] = "confirm"] /\ wire' = wire \union {r}
  BY DEF Send, Goto
<1>2. Shapes' /\ Progress'
  BY <1>1 DEF ProducerInv, Shapes, Progress, Points
<1>3. /\ Position(p) \in Places(p) /\ try[p] \in Attempts(p)
      /\ EnvelopeId(p) \in EnvelopeIds /\ IdOf(Batch[p][Position(p)], EnvelopeId(p))
  BY <1>1, EnvelopeIdIdentifies
<1>4. Position(p) \in Nat /\ try[p] \in Nat
  BY <1>3, BatchIsEvents DEF ProducerInv, Shapes
<1>5. Wired'
  BY <1>1, <1>3, <1>4 DEF ProducerInv, Wired, Event
<1>6. Recorded'
  BY <1>1 DEF ProducerInv, Recorded
<1>. QED
  BY <1>2, <1>5, <1>6 DEF ProducerInv

\* A confirmation brings its publisher one message further.
LEMMA ConfirmKeeps ==
    ASSUME ProducerInv, NEW r \in wire, NEW k \in Nat, Confirm(r, k), try' = try,
           k \in 1 .. Len(log'), Len(log') \in Nat, Len(log) <= Len(log')
    PROVE  /\ pc' \in [Publishers -> Points] /\ ids' \in [Publishers -> Seq(Nat)]
           /\ Progress'
<1>. DEFINE p == r.publisher
<1>1. p \in Publishers /\ Len(Batch[p]) \in Nat
  BY BatchIsEvents DEF ProducerInv, Wired
<1>2. Len(log) \in Nat
  BY DEF ProducerInv, Shapes
<1>3. CASE UNCHANGED <<pc, ids>>
  BY <1>2, <1>3 DEF ProducerInv, Shapes, Progress
<1>4. CASE /\ Awaited(r) /\ ids' = [ids EXCEPT ![p] = Append(@, k)]
           /\ Goto(p, IF r.position = Len(Batch[p]) THEN "idle" ELSE "info")
  <2>1. /\ pc[p] = "confirm" /\ Len(ids[p]) + 1 = r.position /\ ids[p] \in Seq(Nat)
        /\ Len(ids[p]) \in Nat /\ Len(ids[p]) < Len(Batch[p]) /\ try[p] >= 1
    BY <1>1, <1>4 DEF Awaited, Position, ProducerInv, Shapes, Progress
  <2>2. pc' \in [Publishers -> Points] /\ ids' \in [Publishers -> Seq(Nat)]
    BY <1>1, <1>4, <2>1 DEF Goto, ProducerInv, Shapes, Points
  <2>3. /\ ids'[p] = Append(ids[p], k) /\ Len(ids'[p]) = Len(ids[p]) + 1
        /\ pc'[p] # "idle" => r.position # Len(Batch[p])
        /\ \A q \in Publishers \ {p} : ids'[q] = ids[q] /\ pc'[q] = pc[q]
    BY <1>1, <1>4, <2>1 DEF Goto, ProducerInv, Shapes
  <2>4. \A i \in 1 .. Len(ids'[p]) : ids'[p][i] \in 1 .. Len(log')
    <3>1. TAKE i \in 1 .. Len(ids'[p])
    <3>2. CASE i = Len(ids[p]) + 1
      BY <2>1, <2>3, <3>2
    <3>3. CASE i \in 1 .. Len(ids[p])
      <4>1. ids'[p][i] = ids[p][i] /\ ids[p][i] \in 1 .. Len(log)
        BY <1>1, <2>1, <2>3, <3>3 DEF ProducerInv, Progress
      <4>. QED
        BY <1>2, <4>1
    <3>. QED
      BY <2>1, <2>3, <3>2, <3>3
  <2>5. Progress'
    <3>. SUFFICES ASSUME NEW q \in Publishers
                  PROVE  /\ try'[q] <= MaxTries[q]
                         /\ Len(ids'[q]) <= Len(Batch[q])
                         /\ pc'[q] # "idle" => try'[q] >= 1 /\ Len(ids'[q]) < Len(Batch[q])
                         /\ \A i \in 1 .. Len(ids'[q]) : ids'[q][i] \in 1 .. Len(log')
      BY DEF Progress
    <3>2. CASE q = p
      <4>1. try'[p] = try[p] /\ try[p] <= MaxTries[p]
        BY <1>1 DEF ProducerInv, Progress
      <4>2. Len(ids'[p]) <= Len(Batch[p]) /\ (pc'[p] # "idle" => Len(ids'[p]) < Len(Batch[p]))
        BY <1>1, <2>1, <2>3
      <4>. QED
        BY <2>1, <2>4, <3>2, <4>1, <4>2
    <3>3. CASE q # p
      <4>1. ids'[q] = ids[q] /\ pc'[q] = pc[q]
        BY <2>3, <3>3
      <4>2. \A i \in 1 .. Len(ids[q]) : ids[q][i] \in 1 .. Len(log')
        BY <1>2 DEF ProducerInv, Progress
      <4>. QED
        BY <4>1, <4>2 DEF ProducerInv, Progress
    <3>. QED
      BY <3>2, <3>3
  <2>. QED
    BY <2>2, <2>5
<1>. QED
  BY <1>3, <1>4 DEF Confirm

LEMMA StoreKeeps ==
    ASSUME ProducerInv, NEW n \in StreamNames, NEW r \in wire, Store(n, r)
    PROVE  ProducerInv'
<1>. DEFINE new == [stream |-> n, publisher |-> r.publisher, event |-> Event(r), id |-> r.id]
            known == [stream |-> n, id |-> r.id]
<1>1. /\ known \notin window /\ log' = Append(log, new) /\ window' = window \union {known}
      /\ wire' = wire \ {r} /\ Confirm(r, Len(log')) /\ UNCHANGED <<streams, expired, try>>
  BY DEF Store
<1>2. /\ r.publisher \in Publishers /\ r.id \in EnvelopeIds /\ r.position \in Places(r.publisher)
      /\ IdOf(Event(r), r.id)
  BY DEF ProducerInv, Wired
<1>3. Event(r) \in Events
  BY <1>2, BatchIsEvents DEF Event
<1>4. new \in Stored /\ known \in Known
  BY <1>2, <1>3 DEF Stored, Known
<1>5. /\ log \in Seq(Stored) /\ Len(log) \in Nat /\ log' \in Seq(Stored) /\ Len(log') = Len(log) + 1
      /\ log'[Len(log')] = new /\ \A k \in 1 .. Len(log) : log'[k] = log[k]
  BY <1>1, <1>4 DEF ProducerInv, Shapes
<1>6. pc' \in [Publishers -> Points] /\ ids' \in [Publishers -> Seq(Nat)] /\ Progress'
  BY <1>1, <1>5, ConfirmKeeps
<1>7. Shapes'
  BY <1>1, <1>4, <1>5, <1>6 DEF ProducerInv, Shapes
<1>8. Wired'
  BY <1>1 DEF ProducerInv, Wired, Event
<1>9. Recorded'
  <2>1. ASSUME NEW k \in 1 .. Len(log')
        PROVE  /\ IdOf(log'[k].event, log'[k].id)
               /\ [stream |-> log'[k].stream, id |-> log'[k].id] \in window' \union expired'
    <3>1. CASE k = Len(log')
      <4>1. log'[k] = new
        BY <1>5, <3>1
      <4>. QED
        BY <1>1, <1>2, <4>1
    <3>2. CASE k \in 1 .. Len(log)
      BY <1>1, <1>5, <3>2 DEF ProducerInv, Recorded
    <3>. QED
      BY <1>5, <2>1, <3>1, <3>2
  <2>2. ASSUME NEW j \in 1 .. Len(log), log[j].stream = n, log[j].id = r.id
        PROVE  known \in expired
    BY <1>1, <2>2 DEF ProducerInv, Recorded
  <2>3. ASSUME NEW j \in 1 .. Len(log'), NEW k \in 1 .. Len(log'),
               log'[j].stream = log'[k].stream, log'[j].id = log'[k].id
        PROVE  j = k \/ [stream |-> log'[j].stream, id |-> log'[j].id] \in expired'
    <3>1. CASE j \in 1 .. Len(log) /\ k \in 1 .. Len(log)
      BY <1>1, <1>5, <2>3, <3>1 DEF ProducerInv, Recorded
    <3>2. CASE j \in 1 .. Len(log) /\ k = Len(log')
      <4>1. log'[j] = log[j] /\ log'[k] = new
        BY <1>5, <3>2
      <4>. QED
        BY <1>1, <2>2, <2>3, <3>2, <4>1
    <3>3. CASE j = Len(log') /\ k \in 1 .. Len(log)
      <4>1. log'[k] = log[k] /\ log'[j] = new
        BY <1>5, <3>3
      <4>. QED
        BY <1>1, <2>2, <2>3, <3>3, <4>1
    <3>4. CASE j = Len(log') /\ k = Len(log')
      BY <3>4
    <3>. QED
      BY <1>5, <2>3, <3>1, <3>2, <3>3, <3>4
  <2>. QED
    BY <2>1, <2>3 DEF Recorded
<1>. QED
  BY <1>6, <1>7, <1>8, <1>9 DEF ProducerInv

LEMMA ServerKeeps ==
    ASSUME ProducerInv,
           \/ \E r \in wire : NoResponders(r) \/ Lose(r) \/ \E n \in StreamNames : Duplicate(n, r)
           \/ \E known \in window : Expire(known)
    PROVE  ProducerInv'
<1>1. ASSUME NEW r \in wire, NEW n \in StreamNames, Duplicate(n, r) PROVE ProducerInv'
  <2>1. /\ UNCHANGED <<streams, log, window, expired, try>> /\ wire' = wire \ {r}
        /\ \E k \in DOMAIN log : Confirm(r, k)
    BY <1>1 DEF Duplicate
  <2>2. log \in Seq(Stored) /\ Len(log) \in Nat /\ DOMAIN log = 1 .. Len(log)
    BY DEF ProducerInv, Shapes
  <2>3. pc' \in [Publishers -> Points] /\ ids' \in [Publishers -> Seq(Nat)] /\ Progress'
    BY <2>1, <2>2, ConfirmKeeps
  <2>4. Shapes' /\ Wired' /\ Recorded'
    BY <2>1, <2>3 DEF ProducerInv, Shapes, Wired, Recorded, Event
  <2>. QED
    BY <2>3, <2>4 DEF ProducerInv
<1>2. ASSUME NEW r \in wire, NoResponders(r) \/ Lose(r) PROVE ProducerInv'
  <2>1. /\ UNCHANGED <<streams, log, window, expired, try, ids>> /\ wire' = wire \ {r}
        /\ pc' = pc \/ pc' = [pc EXCEPT ![r.publisher] = "idle"]
    BY <1>2 DEF NoResponders, Lose, Goto
  <2>2. Shapes' /\ Progress'
    BY <2>1 DEF ProducerInv, Shapes, Progress, Points
  <2>3. Wired' /\ Recorded'
    BY <2>1 DEF ProducerInv, Wired, Recorded, Event
  <2>. QED
    BY <2>2, <2>3 DEF ProducerInv
<1>3. ASSUME NEW known \in window, Expire(known) PROVE ProducerInv'
  <2>1. /\ UNCHANGED <<streams, log, wire, pc, try, ids>> /\ window' = window \ {known}
        /\ expired' = expired \union {known}
    BY <1>3 DEF Expire
  <2>2. Shapes' /\ Progress' /\ Wired'
    BY <2>1 DEF ProducerInv, Shapes, Progress, Wired, Event
  <2>3. Recorded'
    BY <2>1 DEF ProducerInv, Recorded
  <2>. QED
    BY <2>2, <2>3 DEF ProducerInv
<1>. QED
  BY <1>1, <1>2, <1>3

\* The invariant of publications, windows and the log.
THEOREM ProducerInvariant == Spec => []ProducerInv
<1>1. Init => ProducerInv
  <2>. SUFFICES ASSUME Init PROVE ProducerInv
    OBVIOUS
  <2>1. Shapes
    BY DEF Init, Shapes, Points
  <2>2. Progress
    BY BatchIsEvents DEF Init, Progress
  <2>. QED
    BY <2>1, <2>2 DEF Init, ProducerInv, Wired, Recorded
<1>2. ProducerInv /\ [Next]_vars => ProducerInv'
  <2>1. ProducerInv /\ Next => ProducerInv'
    BY PublisherKeeps, SendKeeps, StoreKeeps, ServerKeeps DEF Next
  <2>2. ProducerInv /\ UNCHANGED vars => ProducerInv'
    BY DEF vars, ProducerInv, Shapes, Progress, Wired, Recorded, Event
  <2>. QED
    BY <2>1, <2>2
<1>. QED
  BY <1>1, <1>2, PTL DEF Spec

\* An event with an idempotency key is stored once per stream while its duplicate
\* window lasts: for any number of publishers, batches, retries and late publications.
THEOREM KeysAreStoredOnce == Spec => []StoredOncePerKey
<1>1. ProducerInv => StoredOncePerKey
  <2>. SUFFICES ASSUME ProducerInv PROVE StoredOncePerKey
    OBVIOUS
  <2>1. DOMAIN log = 1 .. Len(log)
    BY DEF ProducerInv, Shapes
  <2>. QED
    <3>. SUFFICES ASSUME NEW j \in 1 .. Len(log), NEW k \in 1 .. Len(log),
                         log[j].event = log[k].event, log[j].stream = log[k].stream,
                         Key[log[j].event] # NoKey
                  PROVE  j = k \/ [stream |-> log[j].stream, id |-> Key[log[j].event]] \in expired
      BY <2>1 DEF StoredOncePerKey
    <3>1. IdOf(log[j].event, log[j].id) /\ IdOf(log[k].event, log[k].id)
      BY DEF ProducerInv, Recorded
    <3>2. log[j].id = Key[log[j].event] /\ log[k].id = Key[log[j].event]
      BY <3>1 DEF IdOf
    <3>. QED
      BY <3>2 DEF ProducerInv, Recorded
<1>. QED
  BY <1>1, ProducerInvariant, PTL

\* Types, for any constants.
THEOREM ProducerTypeCorrect == Spec => []TypeOK
<1>1. ProducerInv => TypeOK
  <2>. SUFFICES ASSUME ProducerInv PROVE TypeOK
    OBVIOUS
  <2>1. wire \subseteq Publications
    <3>. SUFFICES ASSUME NEW r \in wire PROVE r \in Publications
      OBVIOUS
    <3>1. /\ r \in [publisher : Publishers, position : Nat, try : Nat, id : EnvelopeIds]
          /\ r.position \in Places(r.publisher) /\ r.try \in Attempts(r.publisher)
      BY DEF ProducerInv, Wired
    <3>2. r \in [publisher : {r.publisher}, position : Places(r.publisher),
                 try : Attempts(r.publisher), id : EnvelopeIds]
      BY <3>1
    <3>. QED
      BY <3>1, <3>2 DEF Publications
  <2>2. ASSUME NEW p \in Publishers
        PROVE  /\ try[p] \in 0 .. MaxTries[p]
               /\ ids[p] \in Seq(1 .. Len(log)) /\ Len(ids[p]) <= Len(Batch[p])
               /\ pc[p] # "idle" => Len(ids[p]) < Len(Batch[p])
    <3>1. ids[p] \in Seq(1 .. Len(log))
      <4>1. ids[p] \in Seq(Nat) /\ \A i \in 1 .. Len(ids[p]) : ids[p][i] \in 1 .. Len(log)
        BY DEF ProducerInv, Shapes, Progress
      <4>2. ids[p] \in [1 .. Len(ids[p]) -> 1 .. Len(log)] /\ Len(ids[p]) \in Nat
        BY <4>1
      <4>. QED
        BY <4>2, SeqDef
    <3>2. try[p] \in Nat /\ try[p] <= MaxTries[p] /\ MaxTries[p] \in Nat
      BY BatchIsEvents DEF ProducerInv, Shapes, Progress
    <3>. QED
      BY <3>1, <3>2 DEF ProducerInv, Progress
  <2>3. \A n \in StreamNames : streams[n] \in {{}} \union {Config(p) : p \in Publishers}
    BY DEF ProducerInv, Shapes
  <2>. QED
    BY <2>1, <2>2, <2>3 DEF ProducerInv, Shapes, Points, TypeOK
<1>. QED
  BY <1>1, ProducerInvariant, PTL

-----------------------------------------------------------------------------
(* Provisioning *)

LEMMA ProvisionedKeeps ==
    ASSUME ProducerInv, ProvisionedBeforePublish, [Next]_vars
    PROVE  ProvisionedBeforePublish'
<1>. SUFFICES ASSUME NEW p \in Publishers, pc'[p] \in {"send", "confirm"}, OwnName(p)
              PROVE  Subject[p] \in streams'[StreamName[p]]
  BY DEF ProvisionedBeforePublish, OwnName, Config
<1>1. Subject[p] \in Config(p) /\ StreamName[p] \in StreamNames
  BY DEF Config, StreamNames
<1>2. pc[p] \in {"send", "confirm"} => Subject[p] \in streams[StreamName[p]]
  BY DEF ProvisionedBeforePublish
<1>3. ASSUME NEW q \in Publishers, Update(q) \/ Add(q)
      PROVE  Subject[p] \in streams'[StreamName[p]]
  <2>1. CASE streams' = [streams EXCEPT ![StreamName[q]] = Config(q)]
    <3>1. CASE StreamName[q] = StreamName[p]
      BY <1>1, <2>1, <3>1 DEF OwnName, ProducerInv, Shapes
    <3>2. CASE StreamName[q] # StreamName[p]
      <4>1. q # p /\ pc'[p] = pc[p]
        BY <1>3, <3>2 DEF Update, Add, Provision, Goto, ProducerInv, Shapes
      <4>. QED
        BY <1>1, <1>2, <2>1, <3>2, <4>1 DEF ProducerInv, Shapes
    <3>. QED
      BY <3>1, <3>2
  <2>2. CASE streams' = streams /\ \E point \in {"add", "idle"} : pc' = [pc EXCEPT ![q] = point]
    BY <1>2, <2>2 DEF ProducerInv, Shapes
  <2>. QED
    BY <1>3, <2>1, <2>2 DEF Update, Add, Provision, Goto
<1>4. ASSUME NEW q \in Publishers, Send(q) PROVE Subject[p] \in streams'[StreamName[p]]
  BY <1>2, <1>4 DEF Send, Goto, ProducerInv, Shapes
<1>5. ASSUME streams' = streams, NEW q,
             NEW point \in {"idle", "info", "update", "add"},
             pc' = pc \/ pc' = [pc EXCEPT ![q] = point]
      PROVE  Subject[p] \in streams'[StreamName[p]]
  BY <1>2, <1>5 DEF ProducerInv, Shapes
<1>6. ASSUME NEW q \in Publishers, Start(q) \/ Info(q) \/ GiveUp(q)
      PROVE  Subject[p] \in streams'[StreamName[p]]
  BY <1>5, <1>6 DEF Start, Info, GiveUp, Goto
<1>7. ASSUME NEW r \in wire, NEW n \in StreamNames,
             Store(n, r) \/ Duplicate(n, r) \/ NoResponders(r) \/ Lose(r)
      PROVE  Subject[p] \in streams'[StreamName[p]]
  BY <1>5, <1>7 DEF Store, Duplicate, NoResponders, Lose, Confirm, Goto
<1>8. CASE UNCHANGED <<streams, pc>>
  BY <1>2, <1>8
<1>9. StreamNames # {}
  BY <1>1
<1>. QED
  BY <1>3, <1>4, <1>6, <1>7, <1>8, <1>9 DEF Next, vars, Expire

\* Whoever provisions at the same time and whatever fails, a message is sent to a
\* stream that has its subject: ensureStream() returns only then, unless another
\* stream in use has its name.
THEOREM ProvisionsBeforePublish == Spec => []ProvisionedBeforePublish
<1>1. Init => ProvisionedBeforePublish
  BY DEF Init, ProvisionedBeforePublish
<1>. QED
  BY <1>1, ProvisionedKeeps, ProducerInvariant, PTL DEF Spec

-----------------------------------------------------------------------------
(* What publishing a batch leaves behind *)

\* What callers promise with an idempotency key.
KeysIdentify ==
    /\ \A e, f \in Events : Key[e] = Key[f] => e = f \/ Key[e] = NoKey
    /\ \A e \in Events, p \in Publishers, i, t \in Nat : Key[e] # UUID(p, i, t)

\* No batch has an event twice.
BatchesDistinct ==
    \A p \in Publishers : \A i, j \in Places(p) : Batch[p][i] = Batch[p][j] => i = j

Confirmed ==
    \A p \in Publishers : \A i \in 1 .. Len(ids[p]) : log[ids[p][i]].event = Batch[p][i]

\* What is sent comes after the rest of its batch.
Following ==
    \A r \in wire : \A i \in 1 .. r.position - 1 :
        \E l \in 1 .. Len(log) : log[l].event = Batch[r.publisher][i]

BatchInv == ProducerInv /\ Confirmed /\ Following

LEMMA IdsIdentify ==
    ASSUME KeysIdentify, NEW e \in Events, NEW f \in Events, NEW id, IdOf(e, id), IdOf(f, id)
    PROVE  e = f
<1>1. CASE Key[e] # NoKey
  BY <1>1 DEF IdOf, KeysIdentify
<1>2. CASE Key[e] = NoKey
  <2>1. PICK p \in Publishers, i, t \in Nat : e = Batch[p][i] /\ id = UUID(p, i, t)
    BY <1>2 DEF IdOf
  <2>2. Key[f] = NoKey
    BY <2>1 DEF IdOf, KeysIdentify
  <2>3. PICK q \in Publishers, j, u \in Nat : f = Batch[q][j] /\ id = UUID(q, j, u)
    BY <2>2 DEF IdOf
  <2>. QED
    BY <2>1, <2>3 DEF UUID
<1>. QED
  BY <1>1, <1>2

LEMMA ConfirmedKeeps ==
    ASSUME BatchInv, NEW r \in wire, NEW k \in Nat, Confirm(r, k),
           k \in 1 .. Len(log'), log'[k].event = Event(r),
           \A j \in 1 .. Len(log) : log'[j] = log[j]
    PROVE  Confirmed'
<1>. DEFINE p == r.publisher
<1>1. p \in Publishers /\ \A q \in Publishers : ids[q] \in Seq(Nat) /\ Len(ids[q]) \in Nat
  BY DEF BatchInv, ProducerInv, Wired, Shapes
<1>2. \A q \in Publishers : \A i \in 1 .. Len(ids[q]) : log'[ids[q][i]].event = Batch[q][i]
  BY DEF BatchInv, Confirmed, ProducerInv, Progress
<1>3. CASE UNCHANGED <<pc, ids>>
  BY <1>2, <1>3 DEF Confirmed
<1>4. CASE Awaited(r) /\ ids' = [ids EXCEPT ![p] = Append(@, k)]
  <2>1. r.position = Len(ids[p]) + 1 /\ ids'[p] = Append(ids[p], k)
    BY <1>1, <1>4 DEF Awaited, Position, BatchInv, ProducerInv, Shapes
  <2>2. /\ Len(ids'[p]) = Len(ids[p]) + 1 /\ ids'[p][r.position] = k
        /\ \A i \in 1 .. Len(ids[p]) : ids'[p][i] = ids[p][i]
    BY <1>1, <2>1
  <2>3. \A i \in 1 .. Len(ids'[p]) : log'[ids'[p][i]].event = Batch[p][i]
    <3>1. TAKE i \in 1 .. Len(ids'[p])
    <3>2. CASE i = r.position
      BY <2>2, <3>2 DEF Event
    <3>3. CASE i \in 1 .. Len(ids[p])
      BY <1>1, <1>2, <2>2, <3>3
    <3>4. Len(ids[p]) \in Nat /\ Len(ids'[p]) = Len(ids[p]) + 1 /\ r.position = Len(ids[p]) + 1
      BY <1>1, <2>1, <2>2
    <3>5. i = r.position \/ i \in 1 .. Len(ids[p])
      BY <3>4
    <3>. QED
      BY <3>2, <3>3, <3>5
  <2>4. \A q \in Publishers \ {p} : ids'[q] = ids[q]
    BY <1>1, <1>4 DEF BatchInv, ProducerInv, Shapes
  <2>. QED
    BY <1>2, <2>3, <2>4 DEF Confirmed
<1>. QED
  BY <1>3, <1>4 DEF Confirm

\* A step that stores nothing, sends nothing and confirms nothing.
LEMMA BatchQuiet ==
    ASSUME BatchInv, UNCHANGED <<log, ids>>, wire' \subseteq wire
    PROVE  Confirmed' /\ Following'
<1>. QED
  BY DEF BatchInv, Confirmed, Following

LEMMA BatchKeeps ==
    ASSUME KeysIdentify, BatchInv, [Next]_vars
    PROVE  Confirmed' /\ Following'
<1>0. log \in Seq(Stored) /\ Len(log) \in Nat /\ DOMAIN log = 1 .. Len(log)
  BY DEF BatchInv, ProducerInv, Shapes
<1>1. ASSUME NEW p \in Publishers, Start(p) PROVE Confirmed' /\ Following'
  <2>1. ids' = [ids EXCEPT ![p] = <<>>] /\ UNCHANGED <<log, wire>>
    BY <1>1 DEF Start
  <2>2. ids'[p] = <<>> /\ \A q \in Publishers \ {p} : ids'[q] = ids[q]
    BY <2>1 DEF BatchInv, ProducerInv, Shapes
  <2>. QED
    BY <2>1, <2>2 DEF BatchInv, Confirmed, Following
<1>2. ASSUME NEW p \in Publishers, Send(p) PROVE Confirmed' /\ Following'
  <2>. DEFINE r == [publisher |-> p, position |-> Position(p), try |-> try[p], id |-> EnvelopeId(p)]
  <2>1. wire' = wire \union {r} /\ UNCHANGED <<log, ids>>
    BY <1>2 DEF Send
  <2>2. Len(ids[p]) \in Nat /\ Position(p) - 1 = Len(ids[p])
    BY DEF Position, BatchInv, ProducerInv, Shapes
  <2>3. \A i \in 1 .. Len(ids[p]) :
          ids[p][i] \in 1 .. Len(log) /\ log[ids[p][i]].event = Batch[p][i]
    BY DEF BatchInv, Confirmed, ProducerInv, Progress
  <2>4. \A i \in 1 .. r.position - 1 : \E l \in 1 .. Len(log) : log[l].event = Batch[r.publisher][i]
    BY <2>2, <2>3
  <2>. QED
    BY <2>1, <2>4 DEF BatchInv, Confirmed, Following
<1>3. ASSUME NEW r \in wire, NEW n \in StreamNames, Store(n, r) PROVE Confirmed' /\ Following'
  <2>. DEFINE new == [stream |-> n, publisher |-> r.publisher, event |-> Event(r), id |-> r.id]
  <2>1. log' = Append(log, new) /\ wire' \subseteq wire /\ Confirm(r, Len(log'))
    BY <1>3 DEF Store
  <2>2. /\ Len(log') = Len(log) + 1 /\ log'[Len(log')] = new
        /\ \A j \in 1 .. Len(log) : log'[j] = log[j]
    BY <1>0, <2>1
  <2>3. Len(log') \in Nat /\ Len(log') \in 1 .. Len(log') /\ log'[Len(log')].event = Event(r)
    BY <1>0, <2>2
  <2>4. Confirmed'
    BY <2>1, <2>2, <2>3, ConfirmedKeeps
  <2>5. \A l \in 1 .. Len(log) : l \in 1 .. Len(log')
    BY <1>0, <2>2
  <2>6. Following'
    BY <2>1, <2>2, <2>5 DEF BatchInv, Following
  <2>. QED
    BY <2>4, <2>6
<1>4. ASSUME NEW r \in wire, NEW n \in StreamNames, Duplicate(n, r)
      PROVE  Confirmed' /\ Following'
  <2>1. PICK k \in 1 .. Len(log) : log[k].id = r.id /\ Confirm(r, k)
    BY <1>0, <1>4 DEF Duplicate
  <2>2. log' = log /\ wire' \subseteq wire
    BY <1>4 DEF Duplicate
  <2>3. Event(r) \in Events /\ IdOf(Event(r), r.id)
    BY BatchIsEvents DEF BatchInv, ProducerInv, Wired, Event
  <2>4. log[k].event \in Events /\ IdOf(log[k].event, log[k].id)
    <3>1. log[k] \in Stored
      BY <1>0
    <3>2. IdOf(log[k].event, log[k].id)
      BY DEF BatchInv, ProducerInv, Recorded
    <3>. QED
      BY <3>1, <3>2 DEF Stored
  <2>5. log[k].event = Event(r)
    BY <2>1, <2>3, <2>4, IdsIdentify
  <2>6. Confirmed'
    BY <1>0, <2>1, <2>2, <2>5, ConfirmedKeeps
  <2>7. Following'
    BY <2>2 DEF BatchInv, Following
  <2>. QED
    BY <2>6, <2>7
<1>5. CASE \/ UNCHANGED vars
           \/ \E p \in Publishers : Info(p) \/ Update(p) \/ Add(p) \/ GiveUp(p)
           \/ \E r \in wire : NoResponders(r) \/ Lose(r)
           \/ \E known \in window : Expire(known)
  BY <1>5, BatchQuiet DEF vars, Info, Update, Add, Provision, GiveUp, NoResponders, Lose, Expire
<1>. QED
  BY <1>1, <1>2, <1>3, <1>4, <1>5 DEF Next

LEMMA BatchInvariant ==
    ASSUME KeysIdentify
    PROVE  Spec => []BatchInv
<1>1. Init => Confirmed /\ Following
  BY DEF Init, Confirmed, Following
<1>2. ProducerInv /\ Confirmed /\ Following /\ [Next]_vars => Confirmed' /\ Following'
  BY BatchKeeps DEF BatchInv
<1>3. ProducerInv /\ Confirmed /\ Following => BatchInv
  BY DEF BatchInv
<1>. QED
  BY <1>1, <1>2, <1>3, ProducerInvariant, PTL DEF Spec

\* If a key names one event, the id publish() returns is that of a stored message
\* with its event, also when the server took the publication for a duplicate.
THEOREM ConfirmsWhatIsStored ==
    ASSUME KeysIdentify
    PROVE  Spec => []ConfirmedIsStored
<1>1. BatchInv => ConfirmedIsStored
  <2>1. BatchInv => \A p \in Publishers : ids[p] \in Seq(Nat)
    BY DEF BatchInv, ProducerInv, Shapes
  <2>2. BatchInv => \A p \in Publishers : DOMAIN ids[p] = 1 .. Len(ids[p])
    BY <2>1
  <2>. QED
    BY <2>2 DEF BatchInv, Confirmed, ConfirmedIsStored
<1>. QED
  BY <1>1, BatchInvariant, PTL

\* If also no batch has an event twice, the log has an event only after those that
\* come before it in its batch: publishBatch() awaits each confirmation.  (The ids it
\* returns need not be in order: a retry can get the old id of an event and a new one
\* for an earlier event whose key has expired.)
THEOREM StoresBatchInOrder ==
    ASSUME KeysIdentify, BatchesDistinct
    PROVE  Spec => []BatchInOrder
<1>. DEFINE After(history, k) ==
       \A j \in Places(history[k].publisher) :
           history[k].event = Batch[history[k].publisher][j] =>
             \A i \in 1 .. j - 1 : \E l \in 1 .. k - 1 :
                 history[l].event = Batch[history[k].publisher][i]
     Ordered == \A k \in 1 .. Len(log) : After(log, k)
<1>1. Init => Ordered
  BY DEF Init
<1>2. ASSUME BatchInv, Ordered, [Next]_vars
      PROVE  Ordered'
  <2>0. log \in Seq(Stored) /\ Len(log) \in Nat
    BY <1>2 DEF BatchInv, ProducerInv, Shapes
  <2>1. ASSUME NEW r \in wire, NEW n \in StreamNames, Store(n, r) PROVE Ordered'
    <3>. DEFINE new == [stream |-> n, publisher |-> r.publisher, event |-> Event(r), id |-> r.id]
    <3>1. log' = Append(log, new)
      BY <2>1 DEF Store
    <3>2. /\ Len(log') = Len(log) + 1 /\ log'[Len(log')] = new
          /\ \A j \in 1 .. Len(log) : log'[j] = log[j]
      BY <2>0, <3>1
    <3>3. ASSUME NEW k \in 1 .. Len(log) PROVE After(log', k)
      <4>1. After(log, k)
        BY <1>2
      <4>2. log'[k] = log[k] /\ \A l \in 1 .. k - 1 : log'[l] = log[l]
        BY <2>0, <3>2
      <4>. QED
        BY <4>1, <4>2
    <3>4. r.publisher \in Publishers /\ r.position \in Places(r.publisher)
      BY <1>2 DEF BatchInv, ProducerInv, Wired
    <3>5. \A i \in 1 .. r.position - 1 :
            \E l \in 1 .. Len(log) : log'[l].event = Batch[r.publisher][i]
      BY <1>2, <3>2 DEF BatchInv, Following
    <3>6. After(log', Len(log'))
      <4>1. \A j \in Places(r.publisher) : Event(r) = Batch[r.publisher][j] => j = r.position
        BY <3>4 DEF Event, BatchesDistinct
      <4>2. log'[Len(log')] = new /\ Len(log') - 1 = Len(log)
        BY <2>0, <3>2
      <4>. QED
        BY <3>2, <3>5, <4>1, <4>2
    <3>7. \A k \in 1 .. Len(log') : k \in 1 .. Len(log) \/ k = Len(log')
      BY <2>0, <3>2
    <3>. QED
      BY <3>3, <3>6, <3>7
  <2>2. CASE UNCHANGED log
    BY <1>2, <2>2
  <2>. QED
    BY <1>2, <2>1, <2>2 DEF Next, vars, Start, Info, Update, Add, Provision, Send, GiveUp,
       NoResponders, Lose, Duplicate, Expire
<1>3. BatchInv /\ Ordered => BatchInOrder
  <2>. SUFFICES ASSUME BatchInv, Ordered PROVE BatchInOrder
    OBVIOUS
  <2>1. DOMAIN log = 1 .. Len(log)
    BY DEF BatchInv, ProducerInv, Shapes
  <2>. QED
    BY <2>1 DEF BatchInOrder
<1>. HIDE DEF Ordered
<1>. QED
  BY <1>1, <1>2, <1>3, BatchInvariant, PTL DEF Spec

-----------------------------------------------------------------------------
(* The promise of module Publication *)

\* The mapping of Promise.
Shown == [k \in DOMAIN log |-> [stream |-> log[k].stream, event |-> log[k].event]]

Forgotten ==
    {x \in StreamNames \X Keys : [stream |-> x[1], id |-> x[2]] \in expired \ window}

\* What the server knows the id of is in the log.
Windowed ==
    \A known \in window :
        \E k \in 1 .. Len(log) : log[k].stream = known.stream /\ log[k].id = known.id

LEMMA ShownLog ==
    ASSUME ProducerInv
    PROVE  /\ Len(log) \in Nat /\ DOMAIN log = 1 .. Len(log)
           /\ Shown \in Seq([stream : StreamNames, event : Events]) /\ Len(Shown) = Len(log)
           /\ DOMAIN Shown = 1 .. Len(log)
           /\ \A k \in 1 .. Len(log) :
                Shown[k] = [stream |-> log[k].stream, event |-> log[k].event]
<1>1. log \in Seq(Stored) /\ Len(log) \in Nat /\ DOMAIN log = 1 .. Len(log)
  BY DEF ProducerInv, Shapes
<1>2. \A k \in 1 .. Len(log) : log[k].stream \in StreamNames /\ log[k].event \in Events
  <2>1. \A k \in 1 .. Len(log) : log[k] \in Stored
    BY <1>1
  <2>. QED
    BY <2>1 DEF Stored
<1>. DEFINE Entry(k) == [stream |-> log[k].stream, event |-> log[k].event]
<1>3. Shown = [k \in 1 .. Len(log) |-> Entry(k)]
  BY <1>1 DEF Shown
<1>4. \A k \in 1 .. Len(log) : Entry(k) \in [stream : StreamNames, event : Events]
  BY <1>2
<1>. HIDE DEF Entry
<1>5. /\ Shown \in Seq([stream : StreamNames, event : Events]) /\ Len(Shown) = Len(log)
      /\ DOMAIN Shown = 1 .. Len(log) /\ \A k \in 1 .. Len(log) : Shown[k] = Entry(k)
  BY <1>1, <1>3, <1>4
<1>. QED
  BY <1>1, <1>5 DEF Entry

LEMMA ShownAppends ==
    ASSUME ProducerInv, ProducerInv', NEW new, log' = Append(log, new)
    PROVE  Shown' = Append(Shown, [stream |-> new.stream, event |-> new.event])
<1>. DEFINE entry == [stream |-> new.stream, event |-> new.event]
<1>1. log \in Seq(Stored) /\ Len(log) \in Nat
  BY DEF ProducerInv, Shapes
<1>2. /\ Len(log') = Len(log) + 1 /\ log'[Len(log) + 1] = new
      /\ \A k \in 1 .. Len(log) : log'[k] = log[k]
  BY <1>1
<1>3. DOMAIN log' = 1 .. Len(log) + 1
  BY <1>1, <1>2, ShownLog
<1>4. Shown' = [k \in 1 .. Len(log) + 1 |-> [stream |-> log'[k].stream, event |-> log'[k].event]]
  BY <1>3 DEF Shown
<1>5. Append(Shown, entry) = [k \in 1 .. Len(log) + 1 |-> IF k = Len(log) + 1 THEN entry ELSE Shown[k]]
  BY ShownLog
<1>6. \A k \in 1 .. Len(log) + 1 :
        [stream |-> log'[k].stream, event |-> log'[k].event]
          = IF k = Len(log) + 1 THEN entry ELSE Shown[k]
  BY <1>1, <1>2, ShownLog
<1>. QED
  BY <1>4, <1>5, <1>6

\* The id of an event is its key, or none of the keys.
LEMMA KeyOrUUID ==
    ASSUME KeysIdentify, NEW e \in Events, NEW id, IdOf(e, id)
    PROVE  /\ Key[e] # NoKey => id = Key[e] /\ id \in Keys
           /\ Key[e] = NoKey => id \notin Keys
<1>1. CASE Key[e] # NoKey
  BY <1>1 DEF IdOf, Keys
<1>2. CASE Key[e] = NoKey
  <2>1. PICK p \in Publishers, i, t \in Nat : id = UUID(p, i, t)
    BY <1>2 DEF IdOf
  <2>. QED
    BY <1>2, <2>1 DEF KeysIdentify, Keys
<1>. QED
  BY <1>1, <1>2

LEMMA StoreIsPut ==
    ASSUME KeysIdentify, BatchInv, ProducerInv', NEW n \in StreamNames, NEW r \in wire, Store(n, r)
    PROVE  Promise!Put(n, r.publisher, r.position) /\ r.position \in DOMAIN Batch[r.publisher]
<1>. DEFINE p == r.publisher
            e == Batch[p][r.position]
            known == [stream |-> n, id |-> r.id]
            new == [stream |-> n, publisher |-> p, event |-> Event(r), id |-> r.id]
<1>1. /\ p \in Publishers /\ r.position \in Places(p) /\ r.position \in Nat /\ e \in Events
      /\ IdOf(e, r.id)
  BY BatchIsEvents DEF BatchInv, ProducerInv, Wired, Event
<1>2. /\ known \notin window /\ log' = Append(log, new) /\ window' = window \union {known}
      /\ expired' = expired /\ Confirm(r, Len(log'))
  BY DEF Store
<1>3. /\ Shown' = Append(Shown, [stream |-> n, event |-> e])
      /\ Len(Shown') = Len(log') /\ Len(log') = Len(log) + 1
  <2>1. Shown' = Append(Shown, [stream |-> new.stream, event |-> new.event])
    BY <1>2, ShownAppends DEF BatchInv
  <2>2. Len(log') = Len(log) + 1
    BY <1>2 DEF BatchInv, ProducerInv, Shapes
  <2>3. Len(Append(Shown, [stream |-> n, event |-> e])) = Len(log) + 1
    BY <1>1, ShownLog DEF BatchInv
  <2>. QED
    BY <2>1, <2>2, <2>3 DEF Event
<1>4. r.position \in DOMAIN Batch[p]
  BY <1>1, ProducerAssumption DEF Places
<1>5. \/ Key[e] = NoKey
      \/ ~\E k \in DOMAIN Shown : Shown[k] = [stream |-> n, event |-> e]
      \/ <<n, Key[e]>> \in Forgotten
  <2>. SUFFICES ASSUME Key[e] # NoKey,
                       NEW k \in 1 .. Len(log), Shown[k] = [stream |-> n, event |-> e]
                PROVE  <<n, Key[e]>> \in Forgotten
    BY ShownLog DEF BatchInv
  <2>1. log[k].stream = n /\ log[k].event = e
    BY ShownLog DEF BatchInv
  <2>2. log[k].id = Key[e] /\ r.id = Key[e] /\ Key[e] \in Keys
    <3>1. IdOf(e, log[k].id)
      BY <2>1 DEF BatchInv, ProducerInv, Recorded
    <3>. QED
      BY <1>1, <3>1, KeyOrUUID
  <2>3. known \in window \union expired
    BY <2>1, <2>2 DEF BatchInv, ProducerInv, Recorded
  <2>. QED
    BY <1>2, <2>2, <2>3 DEF Forgotten
<1>6. \A j \in 1 .. r.position - 1 : \E k \in DOMAIN Shown : Shown[k].event = Batch[p][j]
  <2>1. \A j \in 1 .. r.position - 1 : \E k \in 1 .. Len(log) : log[k].event = Batch[p][j]
    BY DEF BatchInv, Following
  <2>2. \A k \in 1 .. Len(log) : k \in DOMAIN Shown /\ Shown[k].event = log[k].event
    BY ShownLog DEF BatchInv
  <2>. QED
    BY <2>1, <2>2
<1>7. Forgotten' = Forgotten \ {<<n, Key[e]>>}
  <2>1. \A x \in StreamNames \X Keys :
          [stream |-> x[1], id |-> x[2]] = known <=> x = <<n, Key[e]>>
    BY <1>1, KeyOrUUID DEF Keys
  <2>2. \A x : x \in Forgotten' <=> x \in Forgotten /\ x # <<n, Key[e]>>
    BY <1>2, <2>1 DEF Forgotten
  <2>. QED
    BY <2>2
<1>8. \/ ids' = ids
      \/ r.position = Len(ids[p]) + 1 /\ ids' = [ids EXCEPT ![p] = Append(@, Len(Shown'))]
  BY <1>2, <1>3 DEF Confirm, Awaited, Position
<1>. QED
  BY <1>3, <1>4, <1>5, <1>6, <1>7, <1>8
  DEF Promise!Put, Promise!Admitted, Promise!InStream, Promise!Place, Promise!Tell, Shown, Forgotten

LEMMA DuplicateIsRepeat ==
    ASSUME KeysIdentify, BatchInv, NEW n \in StreamNames, NEW r \in wire, Duplicate(n, r)
    PROVE  UNCHANGED <<log, expired, window, ids>> \/ Promise!Repeat(r.publisher)
<1>. DEFINE p == r.publisher
<1>1. UNCHANGED <<log, window, expired>>
  BY DEF Duplicate
<1>2. PICK k \in 1 .. Len(log) : log[k].id = r.id /\ Confirm(r, k)
  BY ShownLog DEF Duplicate, BatchInv
<1>3. /\ p \in Publishers /\ r.position \in Places(p) /\ Event(r) \in Events
      /\ IdOf(Event(r), r.id)
  BY BatchIsEvents DEF BatchInv, ProducerInv, Wired, Event
<1>4. log[k].event \in Events /\ IdOf(log[k].event, log[k].id)
  <2>1. log[k] \in Stored
    BY ShownLog DEF BatchInv, ProducerInv, Shapes
  <2>. QED
    BY <2>1 DEF Stored, BatchInv, ProducerInv, Recorded
<1>5. log[k].event = Batch[p][r.position]
  BY <1>2, <1>3, <1>4, IdsIdentify DEF Event
<1>6. k \in DOMAIN Shown /\ Shown[k].event = Batch[p][r.position]
  BY <1>5, ShownLog DEF BatchInv
<1>7. CASE Awaited(r) /\ ids' = [ids EXCEPT ![p] = Append(@, k)]
  <2>1. r.position = Len(ids[p]) + 1 /\ r.position <= Len(Batch[p])
    BY <1>3, <1>7 DEF Awaited, Position, Places
  <2>2. Shown' = Shown /\ Forgotten' = Forgotten
    BY <1>1 DEF Shown, Forgotten
  <2>. QED
    BY <1>6, <1>7, <2>1, <2>2
    DEF Promise!Repeat, Promise!Place, Promise!Tell, Shown, Forgotten
<1>. QED
  BY <1>1, <1>2, <1>7 DEF Confirm

LEMMA ExpireIsForget ==
    ASSUME KeysIdentify, BatchInv, Windowed, NEW known \in window, Expire(known)
    PROVE  \/ UNCHANGED <<Shown, Forgotten, ids>>
           \/ \E n \in StreamNames, e \in Events : Promise!Forget(n, e)
<1>1. /\ window' = window \ {known} /\ expired' = expired \union {known}
      /\ UNCHANGED <<log, ids>>
  BY DEF Expire
<1>2. known \in Known /\ known = [stream |-> known.stream, id |-> known.id]
      /\ known.stream \in StreamNames
  BY DEF BatchInv, ProducerInv, Shapes, Known
<1>3. PICK k \in 1 .. Len(log) : log[k].stream = known.stream /\ log[k].id = known.id
  BY DEF Windowed
<1>4. log[k].event \in Events /\ IdOf(log[k].event, known.id)
  <2>1. log[k] \in Stored
    BY ShownLog DEF BatchInv, ProducerInv, Shapes
  <2>. QED
    BY <1>3, <2>1 DEF Stored, BatchInv, ProducerInv, Recorded
<1>5. PICK n \in StreamNames, e \in Events :
        n = known.stream /\ e = log[k].event /\ IdOf(e, known.id)
  BY <1>2, <1>4
<1>6. Shown' = Shown
  BY <1>1 DEF Shown
<1>7. CASE Key[e] = NoKey
  <2>1. known.id \notin Keys
    BY <1>7, <1>5, KeyOrUUID
  <2>2. \A x \in StreamNames \X Keys : [stream |-> x[1], id |-> x[2]] # known
    BY <2>1
  <2>3. \A x : x \in Forgotten' <=> x \in Forgotten
    BY <1>1, <2>2 DEF Forgotten
  <2>. QED
    BY <1>1, <1>6, <2>3
<1>8. CASE Key[e] # NoKey
  <2>1. known.id = Key[e] /\ Key[e] \in Keys
    BY <1>8, <1>5, KeyOrUUID
  <2>2. \A x \in StreamNames \X Keys :
          [stream |-> x[1], id |-> x[2]] = known <=> x = <<n, Key[e]>>
    BY <1>2, <1>5, <2>1
  <2>3. <<n, Key[e]>> \in StreamNames \X Keys
    BY <2>1
  <2>4. \A x : x \in Forgotten' <=> x \in Forgotten \/ x = <<n, Key[e]>>
    BY <1>1, <2>2, <2>3 DEF Forgotten
  <2>5. Forgotten' = Forgotten \union {<<n, Key[e]>>}
    BY <2>4
  <2>6. k \in DOMAIN Shown /\ Shown[k] = [stream |-> n, event |-> e]
    BY <1>3, <1>5, ShownLog DEF BatchInv
  <2>7. Promise!Forget(n, e)
    BY <1>1, <1>6, <1>8, <2>5, <2>6 DEF Promise!Forget, Promise!InStream, Shown, Forgotten
  <2>. QED
    BY <2>7
<1>. QED
  BY <1>7, <1>8

LEMMA PublicationStep ==
    ASSUME KeysIdentify, BatchInv, ProducerInv', Windowed, [Next]_vars
    PROVE  [Promise!Next]_(Promise!publicationVars)
<1>. USE DEF Events
<1>1. ASSUME UNCHANGED <<Shown, Forgotten, ids>>
      PROVE  UNCHANGED Promise!publicationVars
  BY <1>1 DEF Promise!publicationVars, Shown, Forgotten
<1>2. ASSUME UNCHANGED <<log, expired, window, ids>>
      PROVE  UNCHANGED Promise!publicationVars
  <2>1. UNCHANGED <<Shown, Forgotten, ids>>
    BY <1>2 DEF Shown, Forgotten
  <2>. QED
    BY <1>1, <2>1
<1>3. ASSUME NEW p \in Publishers, Start(p) PROVE Promise!Next
  <2>1. /\ UNCHANGED <<log, window, expired>> /\ ids' = [ids EXCEPT ![p] = <<>>]
        /\ Len(ids[p]) # Len(Batch[p])
    BY <1>3 DEF Start, Finished
  <2>2. Len(ids[p]) \in Nat /\ Len(ids[p]) + 1 <= Len(Batch[p])
    BY <2>1, BatchIsEvents DEF BatchInv, ProducerInv, Shapes, Progress
  <2>3. Shown' = Shown /\ Forgotten' = Forgotten
    BY <2>1 DEF Shown, Forgotten
  <2>4. Promise!Restart(p)
    BY <2>1, <2>2, <2>3 DEF Promise!Restart, Promise!Place, Shown, Forgotten
  <2>. QED
    BY <2>4 DEF Promise!Next
<1>4. ASSUME NEW r \in wire, NEW n \in StreamNames, Store(n, r) PROVE Promise!Next
  <2>1. r.publisher \in Publishers
    BY DEF BatchInv, ProducerInv, Wired
  <2>. QED
    BY <1>4, <2>1, StoreIsPut DEF Promise!Next
<1>5. ASSUME NEW r \in wire, NEW n \in StreamNames, Duplicate(n, r)
      PROVE  [Promise!Next]_(Promise!publicationVars)
  <2>1. r.publisher \in Publishers
    BY DEF BatchInv, ProducerInv, Wired
  <2>. QED
    BY <1>2, <1>5, <2>1, DuplicateIsRepeat DEF Promise!Next
<1>6. ASSUME NEW known \in window, Expire(known)
      PROVE  [Promise!Next]_(Promise!publicationVars)
  BY <1>1, <1>6, ExpireIsForget DEF Promise!Next
<1>7. CASE \/ UNCHANGED vars
           \/ \E p \in Publishers : Info(p) \/ Update(p) \/ Add(p) \/ Send(p) \/ GiveUp(p)
           \/ \E r \in wire : NoResponders(r) \/ Lose(r)
  <2>1. UNCHANGED <<log, expired, window, ids>>
    BY <1>7 DEF vars, Info, Update, Add, Provision, Send, GiveUp, NoResponders, Lose
  <2>. QED
    BY <1>2, <2>1
<1>. QED
  BY <1>3, <1>4, <1>5, <1>6, <1>7 DEF Next

LEMMA WindowedNext ==
    ASSUME ProducerInv, Windowed, [Next]_vars
    PROVE  Windowed'
<1>1. log \in Seq(Stored) /\ Len(log) \in Nat
  BY DEF ProducerInv, Shapes
<1>2. ASSUME NEW r \in wire, NEW n \in StreamNames, Store(n, r) PROVE Windowed'
  <2>. DEFINE new == [stream |-> n, publisher |-> r.publisher, event |-> Event(r), id |-> r.id]
              known == [stream |-> n, id |-> r.id]
  <2>1. log' = Append(log, new) /\ window' = window \union {known}
    BY <1>2 DEF Store
  <2>2. /\ Len(log') = Len(log) + 1 /\ log'[Len(log) + 1] = new
        /\ \A k \in 1 .. Len(log) : k \in 1 .. Len(log') /\ log'[k] = log[k]
    BY <1>1, <2>1
  <2>3. Len(log) + 1 \in 1 .. Len(log')
    BY <1>1, <2>2
  <2>. QED
    BY <2>1, <2>2, <2>3 DEF Windowed
<1>3. CASE log' = log /\ window' \subseteq window
  BY <1>3 DEF Windowed
<1>. QED
  BY <1>2, <1>3
  DEF Next, vars, Start, Info, Update, Add, Provision, Send, GiveUp, NoResponders, Lose, Duplicate,
      Expire

\* If a key names one event, publish() and publishBatch() keep the promise of module
\* Publication step by step, whatever provisioning, publications and confirmations
\* fail, come late or are repeated.
THEOREM PublicationImplemented ==
    ASSUME KeysIdentify
    PROVE  Spec => ImplementsPublication
<1>1. Init => Promise!Init /\ Windowed
  <2>. SUFFICES ASSUME Init PROVE Promise!Init /\ Windowed
    OBVIOUS
  <2>1. Windowed
    BY DEF Init, Windowed
  <2>2. Shown = <<>>
    BY DEF Init, Shown
  <2>3. Forgotten = {}
    BY DEF Init, Forgotten
  <2>4. Promise!Init
    BY <2>2, <2>3 DEF Init, Promise!Init, Shown, Forgotten
  <2>. QED
    BY <2>1, <2>4
<1>2. BatchInv /\ ProducerInv' /\ Windowed /\ [Next]_vars
        => [Promise!Next]_(Promise!publicationVars)
  BY PublicationStep
<1>3. BatchInv /\ Windowed /\ [Next]_vars => Windowed'
  BY WindowedNext DEF BatchInv
<1>. QED
  BY <1>1, <1>2, <1>3, BatchInvariant, ProducerInvariant, PTL
  DEF Spec, ImplementsPublication, Promise!Spec

=============================================================================
