------------------------------- MODULE Lifecycle -------------------------------
(***************************************************************************)
(* The life of one process of the service: bootstrap() of src/src/main.ts, *)
(* the connections PrismaService, NatsService and RedisService make, and   *)
(* the shutdown.  A signal has two listeners: Nest's, which runs the       *)
(* onModuleDestroy hooks module after module, those of one module together,*)
(* then closes the server and raises the signal again; and bootstrap()'s   *)
(* own, which starts the timer that forces the exit and, as a listener,    *)
(* keeps the raised signal from ending the process.                        *)
(*                                                                         *)
(* MessagingModule.forRoot() is called by AppModule and by HealthModule,   *)
(* which makes two instances of its services.                              *)
(*                                                                         *)
(* Time is counted down in units of five seconds: steps of the process     *)
(* itself take none, while calls, requests and handlers take any number.   *)
(***************************************************************************)
EXTENDS Configuration, FiniteSets

CONSTANTS
    Messaging,     \* the instances of MessagingModule
    Health,        \* the instance whose services the health probes use
    Subscribed,    \* the instances whose consumer service has a subscription
    Database,      \* the module of PrismaService
    Environments,  \* the environments a process is started in
    Faults         \* what goes wrong: see AllFaults

\* "database", "nats", "redis": the calls to it fail and its connections break.
AllFaults == {"database", "nats", "redis"}

ASSUME LifecycleAssumption ==
    /\ IsFiniteSet(Messaging)
    /\ Health \in Messaging
    /\ Subscribed \subseteq Messaging
    /\ Database \notin Messaging
    /\ \A env \in Environments :
         env.PORT \in Numeric /\ env.SHUTDOWN_TIMEOUT \in Numeric
    /\ Faults \subseteq AllFaults

VARIABLES
    env,       \* the environment of the process
    boot,      \* how far bootstrap() got
    stage,     \* how far Nest's shutdown got
    standing,  \* the modules whose onModuleDestroy hooks have not been called
    hooks,     \* the hooks that are running, each with its module
    wait,      \* what is left of the consumer service's wait
    force,     \* what is left before the exit is forced
    nats,      \* the connection of each NatsService
    redis,     \* the client of each RedisService
    pool,      \* the pool of PrismaService
    server,    \* the HTTP server
    requests,  \* the requests that have not been answered
    loop,      \* what the loop of each consumer service does
    exit,      \* how the process ended
    late,      \* history: the NATS connections made after the hook to drain them
    slowed     \* history: time passed while a call, request or handler was on

shutdownVars == <<stage, standing, hooks, wait, force>>
connections == <<nats, redis, pool, late>>
work == <<server, requests, loop>>
vars == <<env, boot, shutdownVars, connections, work, exit, slowed>>

Modules == Messaging \union {Database}

NoTimer == -1

MaxTimer == DefaultTimeout + 1     \* bound: no environment has a longer timeout

settings == environmentConfig(env)

\* isShuttingDown of a consumer service, set by its hook.
isShuttingDown(m) == m \notin standing

Running(m, service) == <<m, service>> \in hooks

Finished(m, service) == hooks' = hooks \ {<<m, service>>}

Init ==
    /\ env \in Environments
    /\ boot = "configuring"
    /\ stage = "none"
    /\ standing = Modules
    /\ hooks = {}
    /\ wait = [m \in Messaging |-> NoTimer]
    /\ force = NoTimer
    /\ nats = [m \in Messaging |-> "none"]
    /\ redis = [m \in Messaging |-> "ended"]
    /\ pool = "ended"
    /\ server = "off"
    /\ requests = {}
    /\ loop = [m \in Messaging |-> "none"]
    /\ exit = "running"
    /\ late = {}
    /\ slowed = FALSE

-----------------------------------------------------------------------------
(* bootstrap() *)

\* NestFactory.create: the environment is refused, or the services are made,
\* Redis clients that begin to connect among them.
Create ==
    /\ boot = "configuring"
    /\ IF validate(env)
       THEN /\ boot' = "connecting"
            /\ redis' = [m \in Messaging |-> "down"]
            /\ pool' = "open"
            /\ UNCHANGED exit
       ELSE exit' = "refused" /\ UNCHANGED <<boot, redis, pool>>
    /\ UNCHANGED <<env, shutdownVars, nats, late, work, slowed>>

\* app.listen initialises the modules first: PrismaService connects,
Connect ==
    /\ boot = "connecting"
    /\ pool # "ended"
    /\ boot' = "connected"
    /\ UNCHANGED <<env, shutdownVars, connections, work, exit, slowed>>

\* unless the database cannot be reached, or a shutdown has ended the pool.
ConnectFails ==
    /\ boot = "connecting"
    /\ "database" \in Faults \/ pool = "ended"
    /\ boot' = "failed"
    /\ UNCHANGED <<env, shutdownVars, connections, work, exit, slowed>>

\* Then the server listens, whatever a shutdown has done meanwhile, and the listeners
\* of bootstrap() are set.
Listen ==
    /\ boot = "connected"
    /\ settings.port # NaN
    /\ boot' = "listening"
    /\ server' = "open"
    /\ UNCHANGED <<env, shutdownVars, connections, requests, loop, exit, slowed>>

\* The port is none.  As when connecting fails, bootstrap() rejects; the
\* unhandledRejection listener logs it and the process stays.
ListenFails ==
    /\ boot = "connected"
    /\ settings.port = NaN
    /\ boot' = "failed"
    /\ UNCHANGED <<env, shutdownVars, connections, work, exit, slowed>>

-----------------------------------------------------------------------------
(* Connections *)

NatsConnects(m) ==
    /\ nats[m] = "connecting"
    /\ nats' = [nats EXCEPT ![m] = "open"]
    /\ UNCHANGED <<env, boot, shutdownVars, redis, pool, late, work, exit, slowed>>

NatsRefuses(m) ==
    /\ "nats" \in Faults
    /\ nats[m] = "connecting"
    /\ nats' = [nats EXCEPT ![m] = "none"]
    /\ late' = late \ {m}
    /\ UNCHANGED <<env, boot, shutdownVars, redis, pool, work, exit, slowed>>

\* The connection is closed for good; the service keeps it.
NatsBreaks(m) ==
    /\ "nats" \in Faults
    /\ nats[m] \in {"open", "draining"}
    /\ nats' = [nats EXCEPT ![m] = "lost"]
    /\ UNCHANGED <<env, boot, shutdownVars, redis, pool, late, work, exit, slowed>>

\* The client reconnects by its retryStrategy, for ever.
RedisChanges(m) ==
    /\ redis[m] # "ended"
    /\ redis' = [redis EXCEPT ![m] = IF @ = "up" THEN "down" ELSE "up"]
    /\ redis[m] = "up" => "redis" \in Faults
    /\ UNCHANGED <<env, boot, shutdownVars, nats, pool, late, work, exit, slowed>>

\* getConnection() of a service that has no connection.
Connecting(m) ==
    /\ nats' = [nats EXCEPT ![m] = IF @ = "none" THEN "connecting" ELSE @]
    /\ late' = IF nats[m] = "none" /\ isShuttingDown(m) THEN late \union {m} ELSE late
    /\ UNCHANGED <<redis, pool>>

-----------------------------------------------------------------------------
(* What the process does while it is up *)

\* Of the requests the model keeps the health probes, which call NATS themselves;
\* a probe that has its connection stands for every other request.
Arrive ==
    /\ server = "open"
    /\ requests' = requests \union {"probe"}
    /\ UNCHANGED <<env, boot, shutdownVars, connections, server, loop, exit, slowed>>

\* The probe asks NatsService for its connection.
ProbeChecks ==
    /\ "probe" \in requests
    /\ "checking" \notin requests
    /\ requests' = (requests \ {"probe"}) \union {"checking"}
    /\ Connecting(Health)
    /\ UNCHANGED <<env, boot, shutdownVars, server, loop, exit, slowed>>

Answer ==
    /\ "checking" \in requests
    /\ nats[Health] # "connecting"
    /\ requests' = requests \ {"checking"}
    /\ UNCHANGED <<env, boot, shutdownVars, connections, server, loop, exit, slowed>>

\* The application subscribes while it is up.
Subscribe(m) ==
    /\ m \in Subscribed
    /\ boot = "listening"
    /\ stage = "none"
    /\ loop[m] = "none"
    /\ Connecting(m)
    /\ loop' = [loop EXCEPT ![m] = "connecting"]
    /\ UNCHANGED <<env, boot, shutdownVars, server, requests, exit, slowed>>

\* The loop begins, or goes on after a message, unless its service shuts down or
\* its connection was refused.
LoopTop(m) ==
    loop' = [loop EXCEPT ![m] =
               IF isShuttingDown(m) \/ nats[m] = "none" THEN "none" ELSE "fetching"]

BeginLoop(m) ==
    /\ loop[m] = "connecting"
    /\ nats[m] # "connecting"
    /\ LoopTop(m)
    /\ UNCHANGED <<env, boot, shutdownVars, connections, server, requests, exit, slowed>>

\* A fetch that is on when the service shuts down ends without a message,
EndFetch(m) ==
    /\ loop[m] = "fetching"
    /\ isShuttingDown(m)
    /\ LoopTop(m)
    /\ UNCHANGED <<env, boot, shutdownVars, connections, server, requests, exit, slowed>>

\* or still delivers one.
Fetch(m) ==
    /\ loop[m] = "fetching"
    /\ nats[m] = "open"
    /\ loop' = [loop EXCEPT ![m] = "handling"]
    /\ UNCHANGED <<env, boot, shutdownVars, connections, server, requests, exit, slowed>>

\* The handler ends; whether its acknowledgement still goes out on a connection that
\* is being drained is not modelled.
EndHandler(m) ==
    /\ loop[m] = "handling"
    /\ LoopTop(m)
    /\ UNCHANGED <<env, boot, shutdownVars, connections, server, requests, exit, slowed>>

-----------------------------------------------------------------------------
(* The shutdown *)

\* Mutant: the listener starts no timer.
ForceExitTimerMissing == force

\* bootstrap()'s listener: the first signal's timer is the one that counts.
ForceExitTimer == IF force = NoTimer THEN TimerOf(settings.shutdownTimeout) ELSE force

\* Mutant: every signal puts the forced exit off.
SignalExtending ==
    /\ boot = "listening"
    /\ stage' = IF stage = "none" THEN "modules" ELSE stage
    /\ force' = ForceExitTimer + TimerOf(settings.shutdownTimeout)
    /\ UNCHANGED <<env, boot, standing, hooks, wait, connections, work, exit, slowed>>

\* Before there are listeners a signal ends the process; Nest's is set before the
\* database is connected, bootstrap()'s after.
Signal ==
    IF boot = "configuring"
    THEN /\ exit' = "signal"
         /\ UNCHANGED <<env, boot, shutdownVars, connections, work, slowed>>
    ELSE /\ stage' = IF stage = "none" THEN "modules" ELSE stage
         /\ force' = IF boot = "listening" THEN ForceExitTimer ELSE force
         /\ UNCHANGED <<env, boot, standing, hooks, wait, connections, work, exit, slowed>>

\* Mutant: the connection is drained and nobody waits for it.
DestroyWithoutAwaitingDrain(m) ==
    /\ hooks' = {<<m, "consumer">>, <<m, "redis">>}
    /\ wait' = [wait EXCEPT ![m] = 1]
    /\ nats' = [nats EXCEPT ![m] = IF @ = "open" THEN "draining" ELSE @]
    /\ late' = IF nats[m] = "connecting" THEN late \union {m} ELSE late

\* Mutant: the consumer service waits twice as long.
DestroyWaitingLonger(m) ==
    /\ hooks' = {<<m, "consumer">>, <<m, "redis">>} \union
                (IF nats[m] \in {"open", "lost"} THEN {<<m, "nats">>} ELSE {})
    /\ wait' = [wait EXCEPT ![m] = 2]
    /\ nats' = [nats EXCEPT ![m] = IF @ = "open" THEN "draining" ELSE @]
    /\ late' = IF nats[m] = "connecting" THEN late \union {m} ELSE late

\* The consumer service waits, Redis quits, and NATS is drained if a connection
\* is there: one that is still being made is not waited for.
DestroyMessaging(m) ==
    /\ hooks' = {<<m, "consumer">>, <<m, "redis">>} \union
                (IF nats[m] \in {"open", "lost"} THEN {<<m, "nats">>} ELSE {})
    /\ wait' = [wait EXCEPT ![m] = 1]
    /\ nats' = [nats EXCEPT ![m] = IF @ = "open" THEN "draining" ELSE @]
    /\ late' = IF nats[m] = "connecting" THEN late \union {m} ELSE late

\* Nest calls the hooks of the next module when those of the last are done.
Destroy(m) ==
    /\ stage = "modules"
    /\ hooks = {}
    /\ m \in standing
    /\ standing' = standing \ {m}
    /\ IF m = Database
       THEN hooks' = {<<m, "prisma">>} /\ UNCHANGED <<wait, nats, late>>
       ELSE DestroyMessaging(m)
    /\ UNCHANGED <<env, boot, stage, force, redis, pool, work, exit, slowed>>

WaitEnds(m) ==
    /\ Running(m, "consumer")
    /\ wait[m] = 0
    /\ wait' = [wait EXCEPT ![m] = NoTimer]
    /\ Finished(m, "consumer")
    /\ UNCHANGED <<env, boot, stage, standing, force, connections, work, exit, slowed>>

\* The service forgets a connection that it drained.
DrainEnds(m) ==
    /\ Running(m, "nats")
    /\ nats[m] = "draining"
    /\ nats' = [nats EXCEPT ![m] = "none"]
    /\ Finished(m, "nats")
    /\ UNCHANGED <<env, boot, stage, standing, wait, force, redis, pool, late,
                   work, exit, slowed>>

QuitEnds(m) ==
    /\ Running(m, "redis")
    /\ redis' = [redis EXCEPT ![m] = "ended"]
    /\ Finished(m, "redis")
    /\ UNCHANGED <<env, boot, stage, standing, wait, force, nats, pool, late,
                   work, exit, slowed>>

\* Nest logs the error of a hook and calls process.exit(1).
HookRejects ==
    /\ exit' = "error"
    /\ UNCHANGED <<env, boot, shutdownVars, connections, work, slowed>>

\* drain() of a connection that is closed rejects,
DrainFails(m) == Running(m, "nats") /\ nats[m] = "lost" /\ HookRejects

\* and so may quit() without a server.
QuitFails(m) ==
    /\ "redis" \in Faults
    /\ Running(m, "redis")
    /\ redis[m] = "down"
    /\ HookRejects

\* PrismaService catches its errors; the pool is not ended when disconnecting fails.
Disconnect ==
    /\ Running(Database, "prisma")
    /\ pool' \in {"ended"} \union (IF "database" \in Faults THEN {"leaked"} ELSE {})
    /\ Finished(Database, "prisma")
    /\ UNCHANGED <<env, boot, stage, standing, wait, force, nats, redis, late,
                   work, exit, slowed>>

Dispose ==
    /\ stage = "modules"
    /\ hooks = {}
    /\ standing = {}
    /\ stage' = "closing"
    /\ server' = IF server = "open" THEN "closing" ELSE server
    /\ UNCHANGED <<env, boot, standing, hooks, wait, force, connections, requests,
                   loop, exit, slowed>>

\* The server is closed when the last request is answered.
CloseServer ==
    /\ server = "closing"
    /\ requests = {}
    /\ server' = "off"
    /\ UNCHANGED <<env, boot, shutdownVars, connections, requests, loop, exit, slowed>>

\* Nest removes its listeners and raises the signal again.
Raise ==
    /\ stage = "closing"
    /\ server # "closing"
    /\ stage' = "raised"
    /\ IF boot = "listening"
       THEN force' = ForceExitTimer /\ UNCHANGED exit
       ELSE exit' = "signal" /\ UNCHANGED force
    /\ UNCHANGED <<env, boot, standing, hooks, wait, connections, work, slowed>>

\* What keeps the event loop of the process going.
Alive ==
    \/ server # "off"
    \/ requests # {}
    \/ hooks # {}
    \/ pool = "open"
    \/ \E m \in Messaging :
         \/ nats[m] \in {"connecting", "open", "draining"}
         \/ redis[m] # "ended"
         \/ loop[m] # "none"

\* The connections of a pool that was not ended go by themselves.
Exit ==
    /\ stage = "raised"
    /\ ~Alive
    /\ exit' = "clean"
    /\ UNCHANGED <<env, boot, shutdownVars, connections, work, slowed>>

\* The timer is unreferenced: it does not keep the process, it only ends it.
ForceExit ==
    /\ force = 0
    /\ Alive \/ pool = "leaked"
    /\ exit' = "forced"
    /\ UNCHANGED <<env, boot, shutdownVars, connections, work, slowed>>

-----------------------------------------------------------------------------
(* Time *)

\* Something outside the process is being waited for.
Waiting ==
    \/ boot = "connecting"
    \/ requests # {}
    \/ \E m \in Modules, service \in {"nats", "redis", "prisma"} : Running(m, service)
    \/ \E m \in Messaging : nats[m] = "connecting" \/ loop[m] = "handling"

\* The process is about to do a step of its own.
Due ==
    \/ boot = "connected"
    \/ stage = "modules" /\ hooks = {}
    \/ stage = "closing" /\ (server = "closing" => requests = {})
    \/ stage = "raised" /\ ~Alive
    \/ force = 0
    \/ \E m \in Messaging :
         \/ wait[m] = 0
         \/ loop[m] = "connecting" /\ nats[m] # "connecting"
         \/ loop[m] = "fetching" /\ isShuttingDown(m) /\ nats[m] \in {"none", "lost"}

Less(timer) == IF timer > 0 THEN timer - 1 ELSE timer

Tick ==
    /\ ~Due
    /\ force > 0 \/ \E m \in Messaging : wait[m] > 0
    /\ force' = Less(force)
    /\ wait' = [m \in Messaging |-> Less(wait[m])]
    /\ slowed' = (slowed \/ Waiting)
    /\ UNCHANGED <<env, boot, stage, standing, hooks, connections, work, exit>>

\* What the process does by itself to shut down.
ProcessStep ==
    \/ \E m \in Modules : Destroy(m)
    \/ \E m \in Messaging : WaitEnds(m) \/ DrainFails(m)
    \/ Dispose
    \/ CloseServer
    \/ Raise
    \/ Exit
    \/ ForceExit
    \/ Tick

\* What the services answer it, if they do: none of these calls has a timeout.
ServiceStep ==
    \/ \E m \in Messaging : DrainEnds(m) \/ QuitEnds(m) \/ QuitFails(m)
    \/ Disconnect

Lives == exit = "running"

Next ==
    /\ Lives
    /\ \/ Create
       \/ Connect \/ ConnectFails
       \/ Listen \/ ListenFails
       \/ \E m \in Messaging :
            \/ NatsConnects(m) \/ NatsRefuses(m) \/ NatsBreaks(m)
            \/ RedisChanges(m)
            \/ Subscribe(m) \/ BeginLoop(m) \/ EndFetch(m)
            \/ Fetch(m) \/ EndHandler(m)
       \/ Arrive \/ ProbeChecks \/ Answer
       \/ Signal
       \/ ProcessStep
       \/ ServiceStep

Spec == Init /\ [][Next]_vars

\* The event loop turns, its timers fire, and a connect() to NATS or a request to it
\* ends by its timeout at the latest, with a connection or without.  Nothing is assumed
\* of handlers, nor of the answers to drain(), quit() and $disconnect().
FairSpec ==
    /\ Spec
    /\ WF_vars(Lives /\ (Listen \/ ListenFails))
    /\ WF_vars(Lives /\ ProcessStep)
    /\ WF_vars(Lives /\ (ProbeChecks \/ Answer))
    /\ \A m \in Messaging :
         /\ WF_vars(Lives /\ (NatsConnects(m) \/ NatsRefuses(m)))
         /\ WF_vars(Lives /\ BeginLoop(m))
         /\ WF_vars(Lives /\ EndFetch(m))

-----------------------------------------------------------------------------
(* What a start and a shutdown guarantee *)

\* The type invariant.
TypeOK ==
    /\ env \in Environments
    /\ boot \in {"configuring", "connecting", "connected", "listening", "failed"}
    /\ stage \in {"none", "modules", "closing", "raised"}
    /\ standing \subseteq Modules
    /\ hooks \subseteq (Messaging \X {"consumer", "nats", "redis"})
                       \union {<<Database, "prisma">>}
    /\ wait \in [Messaging -> NoTimer .. 1]
    /\ force \in NoTimer .. MaxTimer
    /\ nats \in [Messaging -> {"none", "connecting", "open", "draining", "lost"}]
    /\ redis \in [Messaging -> {"up", "down", "ended"}]
    /\ pool \in {"open", "ended", "leaked"}
    /\ server \in {"off", "open", "closing"}
    /\ requests \subseteq {"probe", "checking"}
    /\ loop \in [Messaging -> {"none", "connecting", "fetching", "handling"}]
    /\ exit \in {"running", "refused", "signal", "error", "clean", "forced"}
    /\ late \subseteq Messaging
    /\ slowed \in BOOLEAN

\* A process that serves a production-like environment has an explicit CORS
\* origin, a database and a port, in the settings it reads and not only in those
\* that were validated.
ServesConfigured ==
    server # "off" =>
        /\ settings.port # NaN
        /\ ProductionLike(env) =>
             settings.origin # "*" /\ settings.databaseUrl \notin Unset

\* When Nest raises the signal again, every module has let go of what it holds and
\* every accepted request is answered.  Three things may be left: a NATS connection
\* that was made after its hook had run, or is closed for good; the connections of a
\* pool that PrismaService does not end when disconnecting has failed; and a server
\* that began to listen after it was closed.
ReleasedBeforeRaise ==
    stage = "raised" =>
        /\ pool = "ended" \/ (pool = "leaked" /\ "database" \in Faults)
        /\ server = "off" => requests = {}
        /\ \A m \in Messaging :
             /\ redis[m] = "ended"
             /\ nats[m] \in {"none", "lost"} \/ m \in late

\* A shutdown is forced for a reason: something outside the process was slow or
\* left behind, the process began to listen during its shutdown, or the timeout
\* does not cover the consumers' waits, one after another, of all instances.
ForcedForCause ==
    exit = "forced" =>
        \/ slowed
        \/ late # {}
        \/ pool = "leaked"
        \/ server = "open"
        \/ TimerOf(settings.shutdownTimeout) <= Cardinality(Messaging)

\* There is no timer to force the exit, and a hook waits for an answer.
Unanswered ==
    /\ force = NoTimer
    /\ \/ Running(Database, "prisma")
       \/ \E m \in Messaging :
            Running(m, "redis") \/ (Running(m, "nats") /\ nats[m] = "draining")

\* A process that was told to stop does, whatever it has open, unless it waits for ever
\* for the answer of a service: without a timeout in the hook, and without the forced
\* exit, which bootstrap() has only once it listens.
ShutdownEnds == <>(stage # "none") => <>(exit # "running") \/ <>[]Unanswered

=============================================================================
