------------------------------ MODULE NatsService ------------------------------
(***************************************************************************)
(* NatsService of src/src/shared/messaging/nats.service.ts: the connection *)
(* and the clients it memoises for all that use it, while the server       *)
(* goes away and comes back and the module is destroyed; and the probes of *)
(* src/src/shared/health, which use it.                                    *)
(*                                                                         *)
(* A step runs the code up to the next await; what is awaited on an        *)
(* already settled promise continues in the same step, and so do all those *)
(* that wait for a promise when it settles.                                *)
(***************************************************************************)
EXTENDS Naturals, FiniteSets

CONSTANTS
    Callers,     \* concurrent calls of the service
    Conns,       \* identities for connections, reused once nobody has them
    None,        \* undefined
    MaxOutages   \* bound: how often the server or the database goes away

ASSUME NatsAssumption == None \notin Conns /\ MaxOutages \in Nat

VARIABLES
    server, database,    \* whether they answer; a slow one counts as away
    outages,             \* how often they went away
    conns,               \* the states of the connections
    connection,          \* the fields of the service, with clients given by
    connectionPromise,   \* the connection they belong to
    jetStream,
    jetStreamManager,
    hook,                \* how far onModuleDestroy is
    pc, op, on,          \* of each call: its await, its kind, its connection
    report               \* what the last call reported

serviceVars == <<connection, connectionPromise, jetStream, jetStreamManager>>
environmentVars == <<server, database, outages>>
callVars == <<pc, op, on, report>>
vars == <<environmentVars, conns, serviceVars, hook, callVars>>

\* "closed" is also a connection that never was or could not be made.
States == {"connecting", "open", "reconnecting", "draining", "closed"}

Live == States \ {"closed"}

\* "publish" stands for users of getJetStream(), "manage" for users of
\* getJetStreamManager(): ensureStream and ensureConsumer; "ready" and "health" are
\* the probes checkReadiness() and check().
Kinds == {"publish", "manage", "ready", "health"}

Init ==
    /\ server \in BOOLEAN
    /\ database = TRUE
    /\ outages = 0
    /\ conns = [n \in Conns |-> "closed"]
    /\ connection = None
    /\ connectionPromise = None
    /\ jetStream = None
    /\ jetStreamManager = None
    /\ hook = "none"
    /\ pc = [c \in Callers |-> "idle"]
    /\ op = [c \in Callers |-> "publish"]
    /\ on = [c \in Callers |-> None]
    /\ report = [c \in Callers |-> "none"]

-----------------------------------------------------------------------------
(* Calls *)

\* Mutant: the general check has a third outcome.
ReportDegraded(kind, nats) ==
    IF kind = "health" /\ ~nats /\ database THEN "degraded"
    ELSE IF (kind # "health" => nats) /\ (kind \in {"ready", "health"} => database)
    THEN "ok" ELSE "error"

\* What a call reports, given whether NATS answered it: readiness needs NATS and
\* the database, the general check only calls NATS degraded.
Report(kind, nats) ==
    IF (kind # "health" => nats) /\ (kind \in {"ready", "health"} => database)
    THEN "ok" ELSE "error"

Client(kind) == IF kind = "publish" THEN jetStream ELSE jetStreamManager

Fresh(n) ==
    /\ conns[n] = "closed"
    /\ n \notin {connection, connectionPromise, jetStream, jetStreamManager}
    /\ \A c \in Callers : on[c] # n

Await(c, kind, point, n) ==
    /\ pc' = [pc EXCEPT ![c] = point]
    /\ op' = [op EXCEPT ![c] = kind]
    /\ on' = [on EXCEPT ![c] = n]
    /\ UNCHANGED report

Return(c, nats) ==
    /\ pc' = [pc EXCEPT ![c] = "idle"]
    /\ on' = [on EXCEPT ![c] = None]
    /\ report' = [report EXCEPT ![c] = Report(op[c], nats)]
    /\ UNCHANGED op

\* getJetStream() and getJetStreamManager() with a client at hand.
UseClient(c, kind) ==
    /\ Client(kind) # None
    /\ Await(c, kind, "request", Client(kind))
    /\ UNCHANGED <<conns, serviceVars>>

\* What they do with a connection: a JetStream client is made at once, a manager
\* after the server's answer.
NextPoint(kind) == IF kind = "publish" THEN "request" ELSE "manager"

UseConnection(c, kind) ==
    /\ Client(kind) = None
    /\ connection # None
    /\ Await(c, kind, NextPoint(kind), connection)
    /\ jetStream' = IF kind = "publish" THEN connection ELSE jetStream
    /\ UNCHANGED <<conns, connection, connectionPromise, jetStreamManager>>

JoinConnect(c, kind) ==
    /\ Client(kind) = None
    /\ connection = None
    /\ connectionPromise # None
    /\ IF conns[connectionPromise] = "closed"
       THEN /\ op' = [op EXCEPT ![c] = kind]      \* it is rejected already
            /\ report' = [report EXCEPT ![c] = Report(kind, FALSE)]
            /\ UNCHANGED <<pc, on>>
       ELSE Await(c, kind, "connect", connectionPromise)
    /\ UNCHANGED <<conns, serviceVars>>

\* Mutant: every call connects until one of them has a connection.
StartConnectUnshared(c, kind) ==
    /\ Client(kind) = None
    /\ connection = None
    /\ \E n \in Conns :
         /\ Fresh(n)
         /\ conns' = [conns EXCEPT ![n] = "connecting"]
         /\ connectionPromise' = n
         /\ Await(c, kind, "connect", n)
    /\ UNCHANGED <<connection, jetStream, jetStreamManager>>

StartConnect(c, kind) ==
    /\ Client(kind) = None
    /\ connection = None
    /\ connectionPromise = None
    /\ \E n \in Conns :
         /\ Fresh(n)
         /\ conns' = [conns EXCEPT ![n] = "connecting"]
         /\ connectionPromise' = n
         /\ Await(c, kind, "connect", n)
    /\ UNCHANGED <<connection, jetStream, jetStreamManager>>

Call(c, kind) ==
    /\ pc[c] = "idle"
    /\ \/ UseClient(c, kind) \/ UseConnection(c, kind)
       \/ JoinConnect(c, kind) \/ StartConnect(c, kind)
    /\ UNCHANGED <<environmentVars, hook>>

Waiting(n) == {c \in Callers : pc[c] = "connect" /\ on[c] = n}

\* connect() resolves: the field is set, and the calls that wait go on.
Connected(n) ==
    /\ conns[n] = "connecting"
    /\ server
    /\ conns' = [conns EXCEPT ![n] = "open"]
    /\ connection' = n
    /\ jetStream' = IF \E c \in Waiting(n) : op[c] = "publish" THEN n ELSE jetStream
    /\ pc' = [c \in Callers |-> IF c \in Waiting(n) THEN NextPoint(op[c]) ELSE pc[c]]
    /\ UNCHANGED <<environmentVars, connectionPromise, jetStreamManager, hook,
                   op, on, report>>

\* The calls that wait for n get its rejection.
Reject(n) ==
    /\ pc' = [c \in Callers |-> IF c \in Waiting(n) THEN "idle" ELSE pc[c]]
    /\ on' = [c \in Callers |-> IF c \in Waiting(n) THEN None ELSE on[c]]
    /\ report' = [c \in Callers |-> IF c \in Waiting(n) THEN Report(op[c], FALSE)
                                    ELSE report[c]]
    /\ UNCHANGED op

\* Mutant: the rejected promise stays.
ConnectFailsMemoised(n) ==
    /\ conns[n] = "connecting"
    /\ ~server
    /\ conns' = [conns EXCEPT ![n] = "closed"]
    /\ Reject(n)
    /\ UNCHANGED <<environmentVars, serviceVars, hook>>

\* connect() rejects: the promise is forgotten, so that the next call tries again.
ConnectFails(n) ==
    /\ conns[n] = "connecting"
    /\ ~server
    /\ conns' = [conns EXCEPT ![n] = "closed"]
    /\ connectionPromise' = None
    /\ Reject(n)
    /\ UNCHANGED <<environmentVars, connection, jetStream, jetStreamManager, hook>>

\* A request under way is answered on an open connection, or while it drains.
ManagerMade(c) ==
    /\ pc[c] = "manager"
    /\ server /\ conns[on[c]] \in {"open", "draining"}
    /\ jetStreamManager' = on[c]
    /\ Await(c, op[c], "request", on[c])
    /\ UNCHANGED <<environmentVars, conns, connection, connectionPromise,
                   jetStream, hook>>

Answered(c) ==
    /\ pc[c] = "request"
    /\ server /\ conns[on[c]] \in {"open", "draining"}
    /\ Return(c, TRUE)
    /\ UNCHANGED <<environmentVars, conns, serviceVars, hook>>

Failed(c) ==
    /\ pc[c] \in {"manager", "request"}
    /\ ~server \/ conns[on[c]] # "open"
    /\ Return(c, FALSE)
    /\ UNCHANGED <<environmentVars, conns, serviceVars, hook>>

-----------------------------------------------------------------------------
(* The end of the module *)

onModuleDestroy ==
    /\ hook = "none"
    /\ \/ /\ connection = None
          /\ hook' = "done"
          /\ UNCHANGED conns
       \/ /\ connection # None
          /\ conns[connection] = "closed"     \* drain() rejects
          /\ hook' = "failed"
          /\ UNCHANGED conns
       \/ /\ connection # None
          /\ conns[connection] # "closed"
          /\ hook' = "draining"
          /\ conns' = [conns EXCEPT ![connection] = "draining"]
    /\ UNCHANGED <<environmentVars, serviceVars, callVars>>

\* Mutant: the clients are kept.
DrainedKeepingClients ==
    /\ hook = "draining"
    /\ server
    /\ conns' = [conns EXCEPT ![connection] = "closed"]
    /\ hook' = "done"
    /\ connection' = None
    /\ connectionPromise' = None
    /\ UNCHANGED <<environmentVars, jetStream, jetStreamManager, callVars>>

\* Mutant: the promise is kept.
DrainedKeepingPromise ==
    /\ hook = "draining"
    /\ server
    /\ conns' = [conns EXCEPT ![connection] = "closed"]
    /\ hook' = "done"
    /\ connection' = None
    /\ jetStream' = None
    /\ jetStreamManager' = None
    /\ UNCHANGED <<environmentVars, connectionPromise, callVars>>

Drained ==
    /\ hook = "draining"
    /\ server
    /\ conns' = [conns EXCEPT ![connection] = "closed"]
    /\ hook' = "done"
    /\ connection' = None
    /\ connectionPromise' = None
    /\ jetStream' = None
    /\ jetStreamManager' = None
    /\ UNCHANGED <<environmentVars, callVars>>

\* The server is gone: drain() rejects, and the fields keep what they have.
DrainFails ==
    /\ hook = "draining"
    /\ ~server
    /\ conns' = [conns EXCEPT ![connection] = "closed"]
    /\ hook' = "failed"
    /\ UNCHANGED <<environmentVars, serviceVars, callVars>>

-----------------------------------------------------------------------------
(* The server, the database and the client library *)

Outage ==
    /\ outages < MaxOutages
    /\ outages' = outages + 1
    /\ \/ server /\ server' = FALSE /\ UNCHANGED database
       \/ database /\ database' = FALSE /\ UNCHANGED server
    /\ UNCHANGED <<conns, serviceVars, hook, callVars>>

Recovery ==
    /\ \/ ~server /\ server' = TRUE /\ UNCHANGED database
       \/ ~database /\ database' = TRUE /\ UNCHANGED server
    /\ UNCHANGED <<outages, conns, serviceVars, hook, callVars>>

Becomes(n, state) ==
    /\ conns' = [conns EXCEPT ![n] = state]
    /\ UNCHANGED <<environmentVars, serviceVars, hook, callVars>>

Disconnect(n) == conns[n] = "open" /\ ~server /\ Becomes(n, "reconnecting")

Reconnect(n) == conns[n] = "reconnecting" /\ server /\ Becomes(n, "open")

\* maxReconnectAttempts are used up: the connection is closed for good.
GiveUp(n) == conns[n] = "reconnecting" /\ ~server /\ Becomes(n, "closed")

Next ==
    \/ \E c \in Callers :
         (\E kind \in Kinds : Call(c, kind)) \/ ManagerMade(c) \/ Answered(c) \/ Failed(c)
    \/ \E n \in Conns :
         Connected(n) \/ ConnectFails(n) \/ Disconnect(n) \/ Reconnect(n) \/ GiveUp(n)
    \/ onModuleDestroy \/ Drained \/ DrainFails
    \/ Outage \/ Recovery

Spec == Init /\ [][Next]_vars

\* Requests and connection attempts end, the library reconnects, a drain ends, and
\* the readiness probe comes again and again.
Fairness ==
    /\ \A c \in Callers :
         /\ WF_vars(ManagerMade(c) \/ Answered(c) \/ Failed(c))
         /\ SF_vars(Call(c, "ready"))
    /\ \A n \in Conns : WF_vars(Connected(n) \/ ConnectFails(n)) /\ WF_vars(Reconnect(n))
    /\ WF_vars(Drained \/ DrainFails)

FairSpec == Spec /\ Fairness

-----------------------------------------------------------------------------
(* Properties *)

\* The type invariant.
TypeOK ==
    /\ server \in BOOLEAN /\ database \in BOOLEAN /\ outages \in 0 .. MaxOutages
    /\ conns \in [Conns -> States]
    /\ {connection, connectionPromise, jetStream, jetStreamManager}
         \subseteq Conns \union {None}
    /\ hook \in {"none", "draining", "done", "failed"}
    /\ pc \in [Callers -> {"idle", "connect", "manager", "request"}]
    /\ op \in [Callers -> Kinds]
    /\ on \in [Callers -> Conns \union {None}]
    /\ report \in [Callers -> {"none", "ok", "error"}]

\* However many calls find no connection, while one is being made, drained or lost,
\* the service never has two: the memoised promise of getConnection().
OneConnection ==
    \A m, n \in Conns : conns[m] \in Live /\ conns[n] \in Live => m = n

\* A cached client belongs to the connection the service has, also when calls that
\* were waiting end during or after the drain of onModuleDestroy.
ClientsOfTheConnection ==
    {jetStream, jetStreamManager} \subseteq {None, connection}

\* The promise of getConnection() never outlives its attempt: it is that of the
\* connection the service has or of an attempt that has not ended, and every call
\* that waits, waits for that attempt. No call is left behind by an attempt that
\* failed or by the drain, and none joins one that was rejected.
WaitsForTheAttempt ==
    /\ connectionPromise \notin {None, connection} => conns[connectionPromise] = "connecting"
    /\ \A c \in Callers :
         pc[c] = "connect" => on[c] = connectionPromise /\ conns[on[c]] = "connecting"

\* A connection that is closed for good, which nothing in the service replaces.
Stuck == connection # None /\ conns[connection] = "closed"

\* Once the server and the database stay, the service reports that it is ready,
\* again and again, unless it is stuck with a closed connection: failed attempts,
\* lost connections and a drain are got over.
ReadyAgain ==
    <>[](server /\ database) =>
        \/ <>[]Stuck
        \/ \A c \in Callers :
             []<><<op[c] = "ready" /\ Answered(c) /\ report'[c] = "ok">>_vars

=============================================================================
