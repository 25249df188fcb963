----------------------------- MODULE LifecycleProofs -----------------------------
(***************************************************************************)
(* Theorems about Lifecycle, for any instances of MessagingModule, any     *)
(* environments and all faults: what is served was validated, what the     *)
(* modules hold is released, and a forced exit has a cause.                *)
(***************************************************************************)
EXTENDS Lifecycle, FiniteSetTheorems, TLAPS

\* The time the shutdown may take.
Timeout == TimerOf(settings.shutdownTimeout)

Hooks == (Messaging \X {"consumer", "nats", "redis"}) \union {<<Database, "prisma">>}

\* The types, with no bound on the timer.
Types ==
    /\ env \in Environments
    /\ boot \in {"configuring", "connecting", "connected", "listening", "failed"}
    /\ stage \in {"none", "modules", "closing", "raised"}
    /\ standing \subseteq Modules
    /\ hooks \subseteq Hooks
    /\ wait \in [Messaging -> {NoTimer, 0, 1}]
    /\ force \in {NoTimer} \union 0 .. Timeout
    /\ nats \in [Messaging -> {"none", "connecting", "open", "draining", "lost"}]
    /\ redis \in [Messaging -> {"up", "down", "ended"}]
    /\ pool \in {"open", "ended", "leaked"}
    /\ server \in {"off", "open", "closing"}
    /\ requests \subseteq {"probe", "checking"}
    /\ loop \in [Messaging -> {"none", "connecting", "fetching", "handling"}]
    /\ exit \in {"running", "refused", "signal", "error", "clean", "forced"}
    /\ late \subseteq Messaging
    /\ slowed \in BOOLEAN

\* How far the start and the shutdown can be at a time.
Staged ==
    /\ boot = "configuring" => stage = "none"
    /\ stage = "none" => standing = Modules /\ hooks = {} /\ force = NoTimer
    /\ stage \in {"closing", "raised"} => standing = {} /\ hooks = {}
    /\ \A h \in hooks : h[1] \notin standing
    /\ \A h, k \in hooks : h[1] = k[1]

\* What a process that serves has gone through.
Served ==
    /\ boot # "configuring" => validate(env)
    /\ server # "off" => boot = "listening"
    /\ boot = "listening" => settings.port # NaN
    /\ server = "off" => requests = {}
    /\ stage = "raised" => server # "closing"

\* What a module holds once its hooks have been called.
Released ==
    /\ Database \notin standing /\ <<Database, "prisma">> \notin hooks => pool # "open"
    /\ pool = "leaked" => "database" \in Faults
    /\ \A m \in Messaging :
         /\ m \notin standing /\ <<m, "redis">> \notin hooks => redis[m] = "ended"
         /\ m \in standing => nats[m] # "draining"
         /\ <<m, "nats">> \in hooks => nats[m] \in {"draining", "lost"}
         /\ m \notin standing /\ <<m, "nats">> \notin hooks =>
              nats[m] \in {"none", "lost"} \/ m \in late
         /\ m \in late => <<m, "nats">> \notin hooks
         /\ m \in late => m \notin standing

LifecycleInv == Types /\ Staged /\ Served /\ Released

LEMMA TimeoutIsNatural ==
    ASSUME env \in Environments
    PROVE  Timeout \in Nat
<1>. DEFINE t == env.SHUTDOWN_TIMEOUT
<1>1. t \in Numeric
  BY LifecycleAssumption
<1>2. t.form \in NumericForms /\ t.value \in Nat
  BY <1>1 DEF Numeric
<1>3. Timeout = TimerOf(ParseInt(Assigned(t, env.place), DefaultTimeout))
  BY DEF Timeout, settings, environmentConfig
<1>. HIDE DEF t
<1>4. AsNumber(t) \in Nat \/ AsNumber(t) = NaN
  BY <1>2 DEF AsNumber
<1>5. CASE env.place = "file" /\ t.form # "absent"
  <2>1. Assigned(t, env.place) = [form |-> "digits", value |-> AsNumber(t)]
    BY <1>5 DEF Assigned
  <2>2. ParseInt(Assigned(t, env.place), DefaultTimeout) = AsNumber(t)
    BY <2>1 DEF ParseInt
  <2>. QED
    BY <1>3, <1>4, <2>2 DEF TimerOf, NaN
<1>6. CASE ~(env.place = "file" /\ t.form # "absent")
  <2>1. Assigned(t, env.place) = t
    BY <1>6 DEF Assigned
  <2>2. ParseInt(t, DefaultTimeout) \in Nat \union {NaN}
    BY <1>2 DEF ParseInt, DefaultTimeout
  <2>. QED
    BY <1>3, <2>1, <2>2 DEF TimerOf, NaN
<1>. QED
  BY <1>5, <1>6

LEMMA StartKeeps ==
    ASSUME LifecycleInv, Create \/ Connect \/ ConnectFails \/ Listen \/ ListenFails
    PROVE  LifecycleInv'
<1>1. Timeout' = Timeout
  BY DEF Timeout, settings, Create, Connect, ConnectFails, Listen, ListenFails
<1>2. Types'
  <2>1. CASE Create
    BY <1>1, <2>1 DEF LifecycleInv, Types, Create, shutdownVars, work
  <2>2. CASE Connect \/ ConnectFails \/ ListenFails
    BY <1>1, <2>2 DEF LifecycleInv, Types, Connect, ConnectFails, ListenFails,
       shutdownVars, connections, work
  <2>3. CASE Listen
    BY <1>1, <2>3 DEF LifecycleInv, Types, Listen, shutdownVars, connections
  <2>. QED
    BY <2>1, <2>2, <2>3
<1>3. Staged'
  BY DEF LifecycleInv, Staged, Create, Connect, ConnectFails, Listen, ListenFails, shutdownVars
<1>4. Served'
  BY DEF LifecycleInv, Staged, Served, settings, Create, Connect, ConnectFails, Listen,
     ListenFails, shutdownVars, work
<1>5. Released'
  BY LifecycleAssumption DEF LifecycleInv, Types, Staged, Released, Create, Connect,
     ConnectFails, Listen, ListenFails, shutdownVars, connections, Modules
<1>. QED
  BY <1>2, <1>3, <1>4, <1>5 DEF LifecycleInv

LEMMA ConnectionsKeep ==
    ASSUME LifecycleInv, NEW m \in Messaging,
           NatsConnects(m) \/ NatsRefuses(m) \/ NatsBreaks(m) \/ RedisChanges(m)
    PROVE  LifecycleInv'
<1>1. UNCHANGED <<env, boot, shutdownVars, pool, work, exit, slowed>>
  BY DEF NatsConnects, NatsRefuses, NatsBreaks, RedisChanges
<1>2. Timeout' = Timeout
  BY <1>1 DEF Timeout, settings
<1>3. Staged' /\ Served'
  BY <1>1 DEF LifecycleInv, Staged, Served, settings, shutdownVars, work
<1>4. Types'
  BY <1>1, <1>2 DEF LifecycleInv, Types, NatsConnects, NatsRefuses, NatsBreaks, RedisChanges,
     shutdownVars, work
<1>5. Released'
  BY <1>1 DEF LifecycleInv, Types, Released, NatsConnects, NatsRefuses, NatsBreaks,
     RedisChanges, shutdownVars
<1>. QED
  BY <1>3, <1>4, <1>5 DEF LifecycleInv

LEMMA RequestsKeep ==
    ASSUME LifecycleInv, Arrive \/ ProbeChecks \/ Answer
    PROVE  LifecycleInv'
<1>1. UNCHANGED <<env, boot, shutdownVars, redis, pool, server, loop, exit, slowed>>
  BY DEF Arrive, ProbeChecks, Answer, Connecting, connections
<1>2. Timeout' = Timeout
  BY <1>1 DEF Timeout, settings
<1>3. Staged' /\ Served'
  BY <1>1 DEF LifecycleInv, Staged, Served, settings, shutdownVars, Arrive, ProbeChecks, Answer
<1>4. CASE ProbeChecks
  <2>1. /\ nats' = [nats EXCEPT ![Health] = IF @ = "none" THEN "connecting" ELSE @]
        /\ late' = IF nats[Health] = "none" /\ Health \notin standing
                   THEN late \union {Health} ELSE late
        /\ requests' = (requests \ {"probe"}) \union {"checking"}
    BY <1>4 DEF ProbeChecks, Connecting, isShuttingDown
  <2>2. Types'
    BY <1>1, <1>2, <2>1, LifecycleAssumption DEF LifecycleInv, Types, shutdownVars
  <2>3. Released'
    BY <1>1, <2>1, LifecycleAssumption DEF LifecycleInv, Types, Released, shutdownVars
  <2>. QED
    BY <1>3, <2>2, <2>3 DEF LifecycleInv
<1>5. CASE Arrive \/ Answer
  <2>1. UNCHANGED connections /\ requests' \subseteq requests \union {"probe"}
    BY <1>5 DEF Arrive, Answer
  <2>2. Types' /\ Released'
    BY <1>1, <1>2, <2>1 DEF LifecycleInv, Types, Released, shutdownVars, connections
  <2>. QED
    BY <1>3, <2>2 DEF LifecycleInv
<1>. QED
  BY <1>4, <1>5

LEMMA LoopsKeep ==
    ASSUME LifecycleInv, NEW m \in Messaging,
           Subscribe(m) \/ BeginLoop(m) \/ EndFetch(m) \/ Fetch(m) \/ EndHandler(m)
    PROVE  LifecycleInv'
<1>1. UNCHANGED <<env, boot, shutdownVars, redis, pool, server, requests, exit, slowed>>
  BY DEF Subscribe, BeginLoop, EndFetch, Fetch, EndHandler, Connecting, connections
<1>2. Timeout' = Timeout
  BY <1>1 DEF Timeout, settings
<1>3. Staged' /\ Served'
  BY <1>1 DEF LifecycleInv, Staged, Served, settings, shutdownVars
<1>4. loop' \in [Messaging -> {"none", "connecting", "fetching", "handling"}]
  BY DEF Subscribe, BeginLoop, EndFetch, Fetch, EndHandler, LoopTop, LifecycleInv, Types
<1>5. CASE Subscribe(m)
  <2>1. /\ nats' = [nats EXCEPT ![m] = IF @ = "none" THEN "connecting" ELSE @]
        /\ late' = late /\ standing = Modules /\ hooks = {}
    BY <1>5 DEF Subscribe, Connecting, isShuttingDown, LifecycleInv, Staged, Modules
  <2>2. Types'
    BY <1>1, <1>2, <1>4, <2>1 DEF LifecycleInv, Types, shutdownVars
  <2>3. Released'
    BY <1>1, <2>1 DEF LifecycleInv, Types, Released, shutdownVars, Modules
  <2>. QED
    BY <1>3, <2>2, <2>3 DEF LifecycleInv
<1>6. CASE ~Subscribe(m)
  <2>1. UNCHANGED connections
    BY <1>6 DEF BeginLoop, EndFetch, Fetch, EndHandler
  <2>2. Types' /\ Released'
    BY <1>1, <1>2, <1>4, <2>1 DEF LifecycleInv, Types, Released, shutdownVars, connections
  <2>. QED
    BY <1>3, <2>2 DEF LifecycleInv
<1>. QED
  BY <1>5, <1>6

LEMMA SignalKeeps ==
    ASSUME LifecycleInv, Signal \/ Raise
    PROVE  LifecycleInv'
<1>1. UNCHANGED <<env, boot, standing, hooks, wait, connections, work, slowed>>
  BY DEF Signal, Raise, shutdownVars
<1>2. Timeout' = Timeout
  BY <1>1 DEF Timeout, settings
<1>3. Timeout \in Nat
  BY TimeoutIsNatural DEF LifecycleInv, Types
<1>4. ForceExitTimer \in 0 .. Timeout
  BY <1>3 DEF ForceExitTimer, Timeout, LifecycleInv, Types, NoTimer
<1>5. force' \in {force, ForceExitTimer} /\ exit' \in {exit, "signal"}
  BY DEF Signal, Raise, shutdownVars
<1>6. stage' \in {"none", "modules", "closing", "raised"}
  BY DEF Signal, Raise, shutdownVars, LifecycleInv, Types
<1>7. Types'
  BY <1>1, <1>2, <1>4, <1>5, <1>6 DEF LifecycleInv, Types, connections, work
<1>8. Staged'
  BY <1>1 DEF Signal, Raise, shutdownVars, LifecycleInv, Types, Staged
<1>9. Served'
  BY <1>1 DEF Signal, Raise, shutdownVars, LifecycleInv, Types, Served, settings, work
<1>10. Released'
  BY <1>1 DEF LifecycleInv, Released, connections
<1>. QED
  BY <1>7, <1>8, <1>9, <1>10 DEF LifecycleInv

LEMMA DestroyKeeps ==
    ASSUME LifecycleInv, NEW m \in Modules, Destroy(m)
    PROVE  LifecycleInv'
<1>1. /\ stage = "modules" /\ hooks = {} /\ m \in standing /\ standing' = standing \ {m}
      /\ UNCHANGED <<env, boot, stage, force, redis, pool, work, exit, slowed>>
  BY DEF Destroy
<1>2. Timeout' = Timeout
  BY <1>1 DEF Timeout, settings
<1>3. Served'
  BY <1>1 DEF LifecycleInv, Served, settings, work
<1>4. CASE m = Database
  <2>1. hooks' = {<<Database, "prisma">>} /\ UNCHANGED <<wait, nats, late>>
    BY <1>4 DEF Destroy
  <2>2. Types'
    BY <1>1, <1>2, <2>1 DEF LifecycleInv, Types, Hooks, work
  <2>3. Staged'
    BY <1>1, <1>4, <2>1 DEF LifecycleInv, Staged
  <2>4. Released'
    BY <1>1, <1>4, <2>1, LifecycleAssumption DEF LifecycleInv, Released
  <2>. QED
    BY <1>3, <2>2, <2>3, <2>4 DEF LifecycleInv
<1>5. CASE m \in Messaging
  <2>1. /\ hooks' = {<<m, "consumer">>, <<m, "redis">>} \union
                     (IF nats[m] \in {"open", "lost"} THEN {<<m, "nats">>} ELSE {})
        /\ wait' = [wait EXCEPT ![m] = 1]
        /\ nats' = [nats EXCEPT ![m] = IF @ = "open" THEN "draining" ELSE @]
        /\ late' = IF nats[m] = "connecting" THEN late \union {m} ELSE late
    BY <1>5, LifecycleAssumption DEF Destroy, DestroyMessaging
  <2>2. \A h \in hooks' : h \in Hooks /\ h[1] = m
    BY <1>5, <2>1 DEF Hooks
  <2>3. Types'
    BY <1>1, <1>2, <1>5, <2>1, <2>2 DEF LifecycleInv, Types, work
  <2>4. Staged'
    BY <1>1, <2>2 DEF LifecycleInv, Staged
  <2>5. /\ <<m, "redis">> \in hooks' /\ <<Database, "prisma">> \notin hooks'
        /\ \A k \in Messaging \ {m} : <<k, "redis">> \notin hooks' /\ <<k, "nats">> \notin hooks'
        /\ <<m, "nats">> \in hooks' <=> nats[m] \in {"open", "lost"}
    BY <1>5, <2>1, LifecycleAssumption
  <2>6. /\ \A k \in Messaging \ {m} : nats'[k] = nats[k] /\ (k \in late' <=> k \in late)
        /\ nats'[m] = IF nats[m] = "open" THEN "draining" ELSE nats[m]
        /\ m \in late' <=> nats[m] = "connecting"
    BY <1>1, <1>5, <2>1 DEF LifecycleInv, Types, Released
  <2>7. /\ m \notin standing' /\ (Database \in standing' <=> Database \in standing)
        /\ \A k \in Messaging \ {m} : k \in standing' <=> k \in standing
        /\ redis' = redis /\ pool' = pool /\ hooks = {}
    BY <1>1, <1>5, LifecycleAssumption
  <2>8. nats[m] # "draining"
    BY <1>1, <1>5 DEF LifecycleInv, Released
  <2>9. Released'
    BY <1>1, <1>5, <2>5, <2>6, <2>7, <2>8 DEF LifecycleInv, Types, Released
  <2>. QED
    BY <1>3, <2>3, <2>4, <2>9 DEF LifecycleInv
<1>. QED
  BY <1>4, <1>5 DEF Modules

\* A hook that ends changes no other hook, nor how far the shutdown is.
LEMMA HooksKeepStages ==
    ASSUME LifecycleInv, hooks # {}, hooks' \subseteq hooks,
           UNCHANGED <<env, boot, stage, standing, force, work, exit, slowed>>
    PROVE  Staged' /\ Served' /\ hooks' \subseteq Hooks /\ Timeout' = Timeout
<1>1. Timeout' = Timeout
  BY DEF Timeout, settings
<1>2. Served'
  BY DEF LifecycleInv, Served, settings, work
<1>3. Staged'
  BY DEF LifecycleInv, Staged
<1>. QED
  BY <1>1, <1>2, <1>3 DEF LifecycleInv, Types

LEMMA HooksKeep ==
    ASSUME LifecycleInv, NEW m \in Messaging, WaitEnds(m) \/ DrainEnds(m) \/ QuitEnds(m)
    PROVE  LifecycleInv'
<1>1. /\ hooks # {} /\ hooks' \subseteq hooks
      /\ UNCHANGED <<env, boot, stage, standing, force, pool, late, work, exit, slowed>>
  BY DEF WaitEnds, DrainEnds, QuitEnds, Running, Finished, connections
<1>2. Staged' /\ Served' /\ hooks' \subseteq Hooks /\ Timeout' = Timeout
  BY <1>1, HooksKeepStages
<1>3. Types'
  BY <1>1, <1>2 DEF LifecycleInv, Types, WaitEnds, DrainEnds, QuitEnds, connections, work, NoTimer
<1>4. CASE WaitEnds(m)
  <2>1. hooks' = hooks \ {<<m, "consumer">>} /\ UNCHANGED connections
    BY <1>4 DEF WaitEnds, Finished
  <2>2. /\ <<Database, "prisma">> \in hooks' <=> <<Database, "prisma">> \in hooks
        /\ \A k \in Messaging :
             /\ <<k, "nats">> \in hooks' <=> <<k, "nats">> \in hooks
             /\ <<k, "redis">> \in hooks' <=> <<k, "redis">> \in hooks
    BY <2>1
  <2>3. Released'
    BY <1>1, <2>1, <2>2 DEF LifecycleInv, Released, connections
  <2>. QED
    BY <1>2, <1>3, <2>3 DEF LifecycleInv
<1>5. CASE DrainEnds(m)
  <2>1. /\ hooks' = hooks \ {<<m, "nats">>} /\ <<m, "nats">> \in hooks
        /\ nats' = [nats EXCEPT ![m] = "none"] /\ redis' = redis
    BY <1>5 DEF DrainEnds, Finished, Running
  <2>2. /\ <<Database, "prisma">> \in hooks' <=> <<Database, "prisma">> \in hooks
        /\ \A k \in Messaging :
             /\ <<k, "redis">> \in hooks' <=> <<k, "redis">> \in hooks
             /\ k # m => (<<k, "nats">> \in hooks' <=> <<k, "nats">> \in hooks)
        /\ <<m, "nats">> \notin hooks'
    BY <2>1
  <2>3. Released'
    BY <1>1, <2>1, <2>2 DEF LifecycleInv, Types, Released
  <2>. QED
    BY <1>2, <1>3, <2>3 DEF LifecycleInv
<1>6. CASE QuitEnds(m)
  <2>1. /\ hooks' = hooks \ {<<m, "redis">>} /\ nats' = nats
        /\ redis' = [redis EXCEPT ![m] = "ended"]
    BY <1>6 DEF QuitEnds, Finished
  <2>2. /\ <<Database, "prisma">> \in hooks' <=> <<Database, "prisma">> \in hooks
        /\ \A k \in Messaging :
             /\ <<k, "nats">> \in hooks' <=> <<k, "nats">> \in hooks
             /\ k # m => (<<k, "redis">> \in hooks' <=> <<k, "redis">> \in hooks)
    BY <2>1
  <2>3. Released'
    BY <1>1, <2>1, <2>2 DEF LifecycleInv, Types, Released
  <2>. QED
    BY <1>2, <1>3, <2>3 DEF LifecycleInv
<1>. QED
  BY <1>4, <1>5, <1>6

LEMMA DisconnectKeeps ==
    ASSUME LifecycleInv, Disconnect
    PROVE  LifecycleInv'
<1>1. /\ hooks # {} /\ hooks' = hooks \ {<<Database, "prisma">>} /\ pool' \in {"ended", "leaked"}
      /\ pool' = "leaked" => "database" \in Faults
      /\ UNCHANGED <<env, boot, stage, standing, wait, force, nats, redis, late,
                     work, exit, slowed>>
  BY DEF Disconnect, Running, Finished
<1>2. Staged' /\ Served' /\ hooks' \subseteq Hooks /\ Timeout' = Timeout
  BY <1>1, HooksKeepStages
<1>3. Types'
  BY <1>1, <1>2 DEF LifecycleInv, Types, work
<1>4. \A k \in Messaging :
        /\ <<k, "nats">> \in hooks' <=> <<k, "nats">> \in hooks
        /\ <<k, "redis">> \in hooks' <=> <<k, "redis">> \in hooks
  BY <1>1
<1>5. Released'
  BY <1>1, <1>4 DEF LifecycleInv, Released
<1>. QED
  BY <1>2, <1>3, <1>5 DEF LifecycleInv

LEMMA CloseKeeps ==
    ASSUME LifecycleInv, Dispose \/ CloseServer
    PROVE  LifecycleInv'
<1>1. UNCHANGED <<env, boot, standing, hooks, wait, force, connections, requests, loop,
                  exit, slowed>>
  BY DEF Dispose, CloseServer, shutdownVars
<1>2. Timeout' = Timeout
  BY <1>1 DEF Timeout, settings
<1>3. Types'
  BY <1>1, <1>2 DEF Dispose, CloseServer, LifecycleInv, Types, connections, shutdownVars
<1>4. Staged' /\ Released'
  BY <1>1 DEF Dispose, CloseServer, LifecycleInv, Staged, Released, connections, shutdownVars
<1>5. Served'
  BY <1>1 DEF Dispose, CloseServer, LifecycleInv, Served, settings, shutdownVars
<1>. QED
  BY <1>3, <1>4, <1>5 DEF LifecycleInv

LEMMA EndKeeps ==
    ASSUME LifecycleInv, Exit \/ ForceExit \/ \E m \in Messaging : (DrainFails(m) \/ QuitFails(m))
    PROVE  LifecycleInv'
<1>1. /\ UNCHANGED <<env, boot, shutdownVars, connections, work, slowed>>
      /\ exit' \in {"clean", "forced", "error"}
  BY DEF Exit, ForceExit, DrainFails, QuitFails, HookRejects
<1>2. Timeout' = Timeout
  BY <1>1 DEF Timeout, settings
<1>3. Types'
  BY <1>1, <1>2 DEF LifecycleInv, Types, shutdownVars, connections, work
<1>4. Staged' /\ Served' /\ Released'
  BY <1>1 DEF LifecycleInv, Staged, Served, Released, settings, shutdownVars, connections, work
<1>. QED
  BY <1>3, <1>4 DEF LifecycleInv

LEMMA TickKeeps ==
    ASSUME LifecycleInv, Tick
    PROVE  LifecycleInv'
<1>1. UNCHANGED <<env, boot, stage, standing, hooks, connections, work, exit>>
  BY DEF Tick
<1>2. Timeout' = Timeout
  BY <1>1 DEF Timeout, settings
<1>3. force' \in {NoTimer} \union 0 .. Timeout
  BY TimeoutIsNatural DEF Tick, Less, LifecycleInv, Types, NoTimer
<1>4. \A m \in Messaging : Less(wait[m]) \in {NoTimer, 0, 1}
  BY DEF Less, LifecycleInv, Types, NoTimer
<1>5. wait' \in [Messaging -> {NoTimer, 0, 1}]
  BY <1>4 DEF Tick
<1>6. slowed' \in BOOLEAN
  BY DEF Tick
<1>7. Types'
  BY <1>1, <1>2, <1>3, <1>5, <1>6 DEF LifecycleInv, Types, connections, work
<1>8. force = NoTimer => force' = NoTimer
  BY DEF Tick, Less, NoTimer
<1>9. Staged'
  BY <1>1, <1>8 DEF LifecycleInv, Staged
<1>10. Served' /\ Released'
  BY <1>1 DEF LifecycleInv, Served, Released, settings, connections, work
<1>. QED
  BY <1>7, <1>9, <1>10 DEF LifecycleInv

LEMMA InitialState == Init => LifecycleInv
<1>. SUFFICES ASSUME Init PROVE LifecycleInv
  OBVIOUS
<1>1. Types
  BY DEF Init, Types, NoTimer
<1>2. Staged /\ Served /\ Released
  BY LifecycleAssumption DEF Init, Staged, Served, Released, Modules
<1>. QED
  BY <1>1, <1>2 DEF LifecycleInv

LEMMA StepKeeps == LifecycleInv /\ [Next]_vars => LifecycleInv'
<1>. SUFFICES ASSUME LifecycleInv, [Next]_vars PROVE LifecycleInv'
  OBVIOUS
<1>1. CASE Create \/ Connect \/ ConnectFails \/ Listen \/ ListenFails
  BY <1>1, StartKeeps
<1>2. ASSUME NEW m \in Messaging,
             NatsConnects(m) \/ NatsRefuses(m) \/ NatsBreaks(m) \/ RedisChanges(m)
      PROVE  LifecycleInv'
  BY <1>2, ConnectionsKeep
<1>3. ASSUME NEW m \in Messaging,
             Subscribe(m) \/ BeginLoop(m) \/ EndFetch(m) \/ Fetch(m) \/ EndHandler(m)
      PROVE  LifecycleInv'
  BY <1>3, LoopsKeep
<1>4. CASE Arrive \/ ProbeChecks \/ Answer
  BY <1>4, RequestsKeep
<1>5. CASE Signal \/ Raise
  BY <1>5, SignalKeeps
<1>6. ASSUME NEW m \in Modules, Destroy(m) PROVE LifecycleInv'
  BY <1>6, DestroyKeeps
<1>7. ASSUME NEW m \in Messaging, WaitEnds(m) \/ DrainEnds(m) \/ QuitEnds(m)
      PROVE  LifecycleInv'
  BY <1>7, HooksKeep
<1>8. CASE Disconnect
  BY <1>8, DisconnectKeeps
<1>9. CASE Dispose \/ CloseServer
  BY <1>9, CloseKeeps
<1>10. CASE Exit \/ ForceExit \/ \E m \in Messaging : (DrainFails(m) \/ QuitFails(m))
  BY <1>10, EndKeeps
<1>11. CASE Tick
  BY <1>11, TickKeeps
<1>12. CASE UNCHANGED vars
  <2>1. Types'
    BY <1>12 DEF LifecycleInv, Types, Timeout, settings, vars, shutdownVars, connections, work
  <2>2. Staged' /\ Served' /\ Released'
    BY <1>12 DEF LifecycleInv, Staged, Served, Released, settings, vars, shutdownVars,
       connections, work
  <2>. QED
    BY <2>1, <2>2 DEF LifecycleInv
<1>. QED
  BY <1>1, <1>2, <1>3, <1>4, <1>5, <1>6, <1>7, <1>8, <1>9, <1>10, <1>11, <1>12
     DEF Next, ProcessStep, ServiceStep

\* The invariant of starts and shutdowns.
THEOREM LifecycleInvariant == Spec => []LifecycleInv
<1>. QED
  BY InitialState, StepKeeps, PTL DEF Spec

\* Whatever the environment, a process serves only with the settings its checks
\* demand: validate() of validation.ts guards what environment.ts reads, although
\* the two convert the texts differently.
THEOREM ServesOnlyConfigured == Spec => []ServesConfigured
<1>1. LifecycleInv => ServesConfigured
  BY DEF LifecycleInv, Served, ServesConfigured, validate, settings, environmentConfig,
     ProductionLike, Unset
<1>. QED
  BY <1>1, LifecycleInvariant, PTL

\* With any number of MessagingModule instances and all faults, Nest raises the
\* signal again only when their hooks have released what they hold, but for a NATS
\* connection made later or closed for good, the pool if disconnecting failed, and a
\* server that began to listen after it was closed.
THEOREM ReleasesBeforeRaise == Spec => []ReleasedBeforeRaise
<1>1. LifecycleInv => ReleasedBeforeRaise
  BY LifecycleAssumption DEF LifecycleInv, Types, Staged, Served, Released, ReleasedBeforeRaise
<1>. QED
  BY <1>1, LifecycleInvariant, PTL

\* The types, when no environment has a timeout beyond the bound of the model.
THEOREM LifecycleTypeCorrect ==
    ASSUME \A e \in Environments : TimerOf(environmentConfig(e).shutdownTimeout) \in 0 .. MaxTimer
    PROVE  Spec => []TypeOK
<1>1. LifecycleInv => TypeOK
  <2>. SUFFICES ASSUME LifecycleInv PROVE TypeOK
    OBVIOUS
  <2>1. Timeout \in 0 .. MaxTimer /\ MaxTimer \in Nat
    BY DEF LifecycleInv, Types, Timeout, settings, MaxTimer, DefaultTimeout
  <2>2. force \in NoTimer .. MaxTimer
    BY <2>1 DEF LifecycleInv, Types, NoTimer
  <2>3. wait \in [Messaging -> NoTimer .. 1]
    BY DEF LifecycleInv, Types, NoTimer
  <2>. QED
    BY <2>2, <2>3 DEF LifecycleInv, Types, Hooks, TypeOK
<1>. QED
  BY <1>1, LifecycleInvariant, PTL

-----------------------------------------------------------------------------
(* Why an exit is forced *)

\* What lasts once the shutdown meets it.
Cause ==
    \/ slowed
    \/ pool = "leaked"
    \/ stage = "raised" /\ server = "open"
    \/ \E m \in late : nats[m] # "connecting"

\* One when a consumer service's wait has just begun.
Begun == IF \E m \in Messaging : wait[m] = 1 THEN 1 ELSE 0

\* What the running hooks hold.
Held ==
    /\ pool = "leaked" => Database \notin standing /\ <<Database, "prisma">> \notin hooks
    /\ \A m \in Messaging : wait[m] # NoTimer <=> <<m, "consumer">> \in hooks
    /\ \A m \in late : nats[m] # "none"

\* Without a cause each unit of the timeout that is gone was one consumer's wait.
Counted ==
    /\ force # NoTimer =>
         Cause \/ Timeout - force + Begun <= Cardinality(Messaging \ standing)
    /\ exit = "forced" => Cause \/ Timeout <= Cardinality(Messaging)

CauseInv == LifecycleInv /\ Held /\ Counted

LEMMA HeldKeeps ==
    ASSUME LifecycleInv, Held, Next
    PROVE  Held'
<1>1. ASSUME NEW m \in Modules, Destroy(m) PROVE Held'
  <2>1. m \in standing /\ hooks = {} /\ standing' = standing \ {m} /\ pool' = pool
    BY <1>1 DEF Destroy
  <2>2. CASE m = Database
    BY <2>1, <2>2, <1>1, LifecycleAssumption DEF Destroy, Held
  <2>3. CASE m \in Messaging
    <3>1. /\ hooks' = {<<m, "consumer">>, <<m, "redis">>} \union
                        (IF nats[m] \in {"open", "lost"} THEN {<<m, "nats">>} ELSE {})
          /\ wait' = [wait EXCEPT ![m] = 1]
          /\ nats' = [nats EXCEPT ![m] = IF @ = "open" THEN "draining" ELSE @]
          /\ late' = IF nats[m] = "connecting" THEN late \union {m} ELSE late
      BY <1>1, <2>3, LifecycleAssumption DEF Destroy, DestroyMessaging
    <3>2. /\ <<Database, "prisma">> \notin hooks' /\ <<m, "consumer">> \in hooks'
          /\ \A k \in Messaging \ {m} : <<k, "consumer">> \notin hooks'
      BY <2>3, <3>1, LifecycleAssumption
    <3>3. pool' = "leaked" => Database \notin standing'
      BY <2>1 DEF Held
    <3>4. \A k \in Messaging : wait'[k] # NoTimer <=> <<k, "consumer">> \in hooks'
      <4>1. \A k \in Messaging : wait[k] = NoTimer
        BY <2>1 DEF Held
      <4>2. wait'[m] = 1 /\ \A k \in Messaging \ {m} : wait'[k] = NoTimer
        BY <2>3, <3>1, <4>1 DEF LifecycleInv, Types
      <4>3. TAKE k \in Messaging
      <4>4. CASE k = m
        BY <3>2, <4>2, <4>4 DEF NoTimer
      <4>5. CASE k # m
        BY <3>2, <4>2, <4>5
      <4>. QED
        BY <4>4, <4>5
    <3>5. \A k \in late' : nats'[k] # "none"
      BY <3>1 DEF Held, LifecycleInv, Types
    <3>. QED
      BY <3>2, <3>3, <3>4, <3>5 DEF Held
  <2>. QED
    BY <2>2, <2>3 DEF Modules
<1>2. ASSUME NEW m \in Messaging, WaitEnds(m) PROVE Held'
  BY <1>2 DEF WaitEnds, Finished, Running, connections, Held, LifecycleInv, Types
<1>3. ASSUME NEW m \in Messaging, DrainEnds(m) \/ QuitEnds(m) PROVE Held'
  <2>1. /\ <<Database, "prisma">> \in hooks' <=> <<Database, "prisma">> \in hooks
        /\ \A k \in Messaging : <<k, "consumer">> \in hooks' <=> <<k, "consumer">> \in hooks
    BY <1>3 DEF DrainEnds, QuitEnds, Finished
  <2>2. UNCHANGED <<standing, wait, pool, late>>
    BY <1>3 DEF DrainEnds, QuitEnds
  <2>3. \A k \in late : nats'[k] = nats[k]
    BY <1>3 DEF DrainEnds, QuitEnds, Running, LifecycleInv, Types, Released
  <2>. QED
    BY <2>1, <2>2, <2>3 DEF Held
<1>4. CASE Disconnect
  <2>1. /\ hooks' = hooks \ {<<Database, "prisma">>} /\ <<Database, "prisma">> \in hooks
        /\ UNCHANGED <<standing, wait, nats, late>>
    BY <1>4 DEF Disconnect, Finished, Running
  <2>2. Database \notin standing
    BY <2>1 DEF LifecycleInv, Staged
  <2>3. \A k \in Messaging : <<k, "consumer">> \in hooks' <=> <<k, "consumer">> \in hooks
    BY <2>1
  <2>. QED
    BY <2>1, <2>2, <2>3 DEF Held
<1>5. CASE Tick
  <2>1. UNCHANGED <<standing, hooks, pool, nats, late>> /\ wait' = [m \in Messaging |-> Less(wait[m])]
    BY <1>5 DEF Tick, connections
  <2>2. \A m \in Messaging : wait'[m] # NoTimer <=> wait[m] # NoTimer
    BY <2>1 DEF Less, LifecycleInv, Types, NoTimer
  <2>. QED
    BY <2>1, <2>2 DEF Held
<1>6. ASSUME Arrive \/ ProbeChecks \/ Answer \/
             \E m \in Messaging :
               \/ NatsConnects(m) \/ NatsRefuses(m) \/ NatsBreaks(m) \/ RedisChanges(m)
               \/ Subscribe(m) \/ BeginLoop(m) \/ EndFetch(m) \/ Fetch(m) \/ EndHandler(m)
      PROVE  Held'
  <2>1. UNCHANGED <<standing, hooks, wait, pool>>
    BY <1>6 DEF Arrive, ProbeChecks, Answer, NatsConnects, NatsRefuses, NatsBreaks, RedisChanges,
       Subscribe, BeginLoop, EndFetch, Fetch, EndHandler, Connecting, shutdownVars, connections
  <2>2. \A k \in late' : nats'[k] # "none"
    BY <1>6, LifecycleAssumption DEF Held, LifecycleInv, Types,
       Arrive, ProbeChecks, Answer, NatsConnects, NatsRefuses, NatsBreaks, RedisChanges,
       Subscribe, BeginLoop, EndFetch, Fetch, EndHandler, Connecting, connections
  <2>. QED
    BY <2>1, <2>2 DEF Held
<1>7. CASE \/ Create \/ Connect \/ ConnectFails \/ Listen \/ ListenFails
           \/ Signal \/ Raise \/ Dispose \/ CloseServer
             \/ Exit \/ ForceExit \/ \E m \in Messaging : (DrainFails(m) \/ QuitFails(m))
  <2>1. UNCHANGED <<standing, hooks, wait, nats, late>> /\ (pool' = pool \/ pool' = "open")
    BY <1>7 DEF Create, Connect, ConnectFails, Listen, ListenFails, Signal, Raise, Dispose,
       CloseServer, Exit, ForceExit, DrainFails, QuitFails, HookRejects, shutdownVars,
       connections
  <2>. QED
    BY <2>1 DEF Held
<1>. QED
  BY <1>1, <1>2, <1>3, <1>4, <1>5, <1>6, <1>7 DEF Next, ProcessStep, ServiceStep

LEMMA CauseLasts ==
    ASSUME LifecycleInv, Held, Next, Cause
    PROVE  Cause'
<1>1. slowed => slowed'
  BY DEF Next, ProcessStep, ServiceStep, Create, Connect, ConnectFails, Listen, ListenFails,
     NatsConnects, NatsRefuses, NatsBreaks, RedisChanges, Subscribe, BeginLoop, EndFetch,
     Fetch, EndHandler, Arrive, ProbeChecks, Answer, Signal, Destroy, WaitEnds, DrainEnds,
     QuitEnds, DrainFails, QuitFails, HookRejects, Disconnect, Dispose, CloseServer, Raise,
     Exit, ForceExit, Tick
<1>2. pool = "leaked" => pool' = "leaked"
  <2>1. Create => pool # "leaked"
    BY DEF Create, LifecycleInv, Staged, Held, Modules
  <2>2. Disconnect => pool # "leaked"
    BY DEF Disconnect, Running, Held
  <2>. QED
    BY <2>1, <2>2 DEF Next, ProcessStep, ServiceStep, Create, Connect, ConnectFails, Listen,
       ListenFails, NatsConnects, NatsRefuses, NatsBreaks, RedisChanges, Subscribe,
       BeginLoop, EndFetch, Fetch, EndHandler, Arrive, ProbeChecks, Answer, Connecting,
       Signal, Destroy, WaitEnds, DrainEnds, QuitEnds, DrainFails, QuitFails, HookRejects,
       Dispose, CloseServer, Raise, Exit, ForceExit, Tick, connections
<1>3. stage = "raised" /\ server = "open" => stage' = "raised" /\ server' = "open"
  BY DEF Next, ProcessStep, ServiceStep, Create, Connect, ConnectFails, Listen, ListenFails,
     NatsConnects, NatsRefuses, NatsBreaks, RedisChanges, Subscribe, BeginLoop, EndFetch,
     Fetch, EndHandler, Arrive, ProbeChecks, Answer, Signal, Destroy, WaitEnds, DrainEnds,
     QuitEnds, DrainFails, QuitFails, HookRejects, Disconnect, Dispose, CloseServer, Raise,
     Exit, ForceExit, Tick, shutdownVars, work
<1>4. ASSUME NEW k \in late, nats[k] # "connecting"
      PROVE  k \in late' /\ nats'[k] # "connecting"
  <2>1. k \in Messaging /\ k \notin standing /\ <<k, "nats">> \notin hooks /\ nats[k] # "none"
    BY DEF LifecycleInv, Types, Released, Held
  <2>2. ASSUME NEW m \in Modules, Destroy(m) PROVE k \in late' /\ nats'[k] # "connecting"
    BY <1>4, <2>1, <2>2 DEF Destroy, DestroyMessaging, LifecycleInv, Types
  <2>3. ASSUME NEW m \in Messaging,
               NatsConnects(m) \/ NatsRefuses(m) \/ NatsBreaks(m) \/ RedisChanges(m) \/ Subscribe(m)
               \/ DrainEnds(m)
        PROVE k \in late' /\ nats'[k] # "connecting"
    BY <1>4, <2>1, <2>3 DEF NatsConnects, NatsRefuses, NatsBreaks, RedisChanges, Subscribe,
       DrainEnds, Running, Connecting, LifecycleInv, Types
  <2>4. CASE ProbeChecks
    BY <1>4, <2>1, <2>4 DEF ProbeChecks, Connecting, LifecycleInv, Types
  <2>5. CASE UNCHANGED <<nats, late>>
    BY <1>4, <2>5
  <2>. QED
    BY <2>2, <2>3, <2>4, <2>5 DEF Next, ProcessStep, ServiceStep, Create, Connect,
       ConnectFails, Listen, ListenFails, BeginLoop, EndFetch, Fetch, EndHandler, Arrive,
       Answer, Signal, WaitEnds, QuitEnds, DrainFails, QuitFails, HookRejects, Disconnect,
       Dispose, CloseServer, Raise, Exit, ForceExit, Tick, connections
<1>. QED
  BY <1>1, <1>2, <1>3, <1>4 DEF Cause

\* Time passes without a cause only while a consumer service waits.
LEMMA TickIsAWait ==
    ASSUME LifecycleInv, Held, Tick, force # NoTimer, ~Cause'
    PROVE  \E m \in Messaging : wait[m] = 1
<1>1. ~Due /\ ~Waiting
  BY DEF Tick, Cause
<1>2. ~Cause
  BY DEF Tick, Cause, connections, work
<1>3. stage # "none"
  BY DEF LifecycleInv, Staged
<1>4. CASE stage = "modules"
  <2>1. PICK h \in hooks : TRUE
    BY <1>1, <1>4 DEF Due
  <2>2. PICK m \in Messaging : h = <<m, "consumer">>
    <3>1. \A m \in Modules, service \in {"nats", "redis", "prisma"} : <<m, service>> \notin hooks
      BY <1>1 DEF Waiting, Running
    <3>2. h \in Messaging \X {"consumer", "nats", "redis"} \/ h = <<Database, "prisma">>
      BY DEF LifecycleInv, Types, Hooks
    <3>3. h # <<Database, "prisma">>
      BY <2>1, <3>1 DEF Modules
    <3>4. PICK m \in Messaging, service \in {"consumer", "nats", "redis"} : h = <<m, service>>
      BY <3>2, <3>3
    <3>5. service = "consumer"
      BY <2>1, <3>1, <3>4 DEF Modules
    <3>. QED
      BY <3>4, <3>5
  <2>3. wait[m] # NoTimer /\ wait[m] # 0
    BY <1>1, <2>2, <2>1 DEF Held, Due
  <2>. QED
    BY <2>2, <2>3 DEF LifecycleInv, Types
<1>5. stage # "closing"
  BY <1>1 DEF Due, Waiting
<1>6. CASE stage = "raised"
  <2>1. Alive /\ server = "off" /\ requests = {} /\ hooks = {} /\ pool # "open"
    BY <1>1, <1>2, <1>6, LifecycleAssumption
       DEF Due, Waiting, Cause, LifecycleInv, Types, Staged, Served, Released
  <2>2. late = {}
    BY <1>1, <1>2 DEF Waiting, Cause, LifecycleInv, Types
  <2>3. \A m \in Messaging : redis[m] = "ended" /\ nats[m] \in {"none", "lost"}
    BY <1>6, <2>1, <2>2 DEF LifecycleInv, Staged, Released
  <2>4. PICK m \in Messaging : loop[m] # "none"
    BY <2>1, <2>3 DEF Alive
  <2>5. loop[m] # "handling"
    BY <1>1 DEF Waiting
  <2>6. isShuttingDown(m)
    BY <1>6 DEF isShuttingDown, LifecycleInv, Staged
  <2>. QED
    BY <1>1, <2>3, <2>4, <2>5, <2>6 DEF Due, LifecycleInv, Types
<1>. QED
  BY <1>3, <1>4, <1>5, <1>6 DEF LifecycleInv, Types

LEMMA Budget ==
    /\ \A t, f, s \in Int, b \in {0, 1} : t - f <= s => t - f + b <= s + 1
    /\ \A t, f, s, b, c \in Int : t - f + b <= s /\ c <= b => t - f + c <= s
<1>. QED
  OBVIOUS

LEMMA CountKeeps ==
    ASSUME CauseInv, Next, Lives, LifecycleInv', Held'
    PROVE  Counted'
<1>. DEFINE size == Cardinality(Messaging \ standing)
<1>1. Timeout \in Nat /\ Timeout' = Timeout
  <2>1. env' = env
    BY DEF Next, ProcessStep, ServiceStep, Create, Connect, ConnectFails, Listen,
       ListenFails, NatsConnects, NatsRefuses, NatsBreaks, RedisChanges, Subscribe,
       BeginLoop, EndFetch, Fetch, EndHandler, Arrive, ProbeChecks, Answer, Signal, Destroy,
       WaitEnds, DrainEnds, QuitEnds, DrainFails, QuitFails, HookRejects, Disconnect,
       Dispose, CloseServer, Raise, Exit, ForceExit, Tick
  <2>. QED
    BY <2>1, TimeoutIsNatural DEF CauseInv, LifecycleInv, Types, Timeout, settings
<1>2. /\ IsFiniteSet(Messaging \ standing) /\ size \in Nat
      /\ Cardinality(Messaging) \in Nat /\ size <= Cardinality(Messaging)
  BY LifecycleAssumption, FS_Subset, FS_CardinalityType
<1>3. Begun \in {0, 1} /\ Begun' \in {0, 1}
  BY DEF Begun
<1>4. ASSUME Begun = 1 PROVE size >= 1
  <2>1. PICK m \in Messaging : wait[m] = 1
    BY <1>4 DEF Begun
  <2>2. m \in Messaging \ standing
    <3>1. <<m, "consumer">> \in hooks
      BY <2>1 DEF CauseInv, Held, NoTimer
    <3>. QED
      BY <3>1 DEF CauseInv, LifecycleInv, Staged
  <2>. QED
    BY <1>2, <2>2, FS_EmptySet
<1>. HIDE DEF size
<1>5. exit' = "forced" => Cause' \/ Timeout <= Cardinality(Messaging)
  <2>1. exit' = "forced" => force = 0
    BY DEF Lives, Next, ProcessStep, ServiceStep, Create, Connect, ConnectFails, Listen,
       ListenFails, NatsConnects, NatsRefuses, NatsBreaks, RedisChanges, Subscribe,
       BeginLoop, EndFetch, Fetch, EndHandler, Arrive, ProbeChecks, Answer, Signal, Destroy,
       WaitEnds, DrainEnds, QuitEnds, DrainFails, QuitFails, HookRejects, Disconnect,
       Dispose, CloseServer, Raise, Exit, ForceExit, Tick
  <2>2. force = 0 => Cause \/ Timeout <= size
    BY <1>1, <1>2, <1>3 DEF CauseInv, Counted, NoTimer, size
  <2>. QED
    BY <1>1, <1>2, <2>1, <2>2, CauseLasts DEF CauseInv
<1>6. ASSUME force' # NoTimer, ~Cause' PROVE Timeout - force' + Begun' <= size'
  <2>1. ~Cause
    BY <1>6, CauseLasts DEF CauseInv
  <2>2. force \in {NoTimer} \union 0 .. Timeout /\ force' \in 0 .. Timeout
    BY <1>1, <1>6 DEF CauseInv, LifecycleInv, Types
  <2>3. force # NoTimer => Timeout - force + Begun <= size
    BY <2>1 DEF CauseInv, Counted, size
  <2>4. CASE Tick
    <3>1. force > 0 /\ force' = force - 1
      BY <1>6, <2>2, <2>4 DEF Tick, Less, Due, NoTimer
    <3>2. Begun = 1
      BY <1>6, <2>2, <2>4, <3>1, TickIsAWait DEF Begun, CauseInv, NoTimer
    <3>3. Begun' = 0
      BY <2>4 DEF Tick, Begun, Less, CauseInv, LifecycleInv, Types, NoTimer
    <3>4. size' = size
      BY <2>4 DEF Tick, size
    <3>. QED
      BY <1>1, <1>2, <2>2, <2>3, <3>1, <3>2, <3>3, <3>4 DEF NoTimer
  <2>5. ASSUME NEW m \in Modules, Destroy(m) PROVE Timeout - force' + Begun' <= size'
    <3>1. /\ force' = force /\ m \in standing /\ standing' = standing \ {m}
          /\ \A k \in Messaging : wait[k] = NoTimer
      BY <2>5 DEF Destroy, CauseInv, Held
    <3>2. Begun = 0
      BY <3>1 DEF Begun, NoTimer
    <3>3. CASE m = Database
      <4>1. Begun' = 0
        BY <2>5, <3>1, <3>3 DEF Destroy, Begun, NoTimer
      <4>2. Messaging \ standing' = Messaging \ standing
        BY <3>1, <3>3, LifecycleAssumption
      <4>. QED
        BY <1>6, <2>3, <3>1, <3>2, <4>1, <4>2 DEF size
    <3>4. CASE m \in Messaging
      <4>1. Messaging \ standing' = (Messaging \ standing) \union {m} /\ m \notin Messaging \ standing
        BY <3>1, <3>4
      <4>2. size' = size + 1
        BY <1>2, <4>1, FS_AddElement DEF size
      <4>3. force # NoTimer /\ Timeout - force <= size
        BY <1>1, <1>2, <1>6, <2>2, <2>3, <3>1, <3>2 DEF NoTimer
      <4>4. force \in Int
        BY <1>1, <2>2 DEF NoTimer
      <4>5. Timeout - force + Begun' <= size + 1
        <5>1. Timeout \in Int /\ size \in Int /\ Begun' \in {0, 1}
          BY <1>1, <1>2, <1>3
        <5>. QED
          BY <4>3, <4>4, <5>1, Budget
      <4>. QED
        BY <3>1, <4>2, <4>5
    <3>. QED
      BY <3>3, <3>4 DEF Modules
  <2>6. CASE Signal \/ Raise
    <3>1. UNCHANGED <<standing, wait>> /\ force' \in {force, Timeout}
      BY <1>1, <1>6, <2>6, <2>2 DEF Signal, Raise, shutdownVars, ForceExitTimer, Timeout
    <3>2. size' = size /\ Begun' = Begun
      BY <3>1 DEF size, Begun
    <3>3. CASE force' = force
      BY <1>6, <2>3, <3>2, <3>3
    <3>4. CASE force' = Timeout
      <4>1. Timeout - Timeout + Begun <= size
        BY <1>1, <1>2, <1>3, <1>4
      <4>. QED
        BY <3>2, <3>4, <4>1
    <3>. QED
      BY <3>1, <3>3, <3>4
  <2>7. ASSUME NEW m \in Messaging, WaitEnds(m) PROVE Timeout - force' + Begun' <= size'
    <3>1. force' = force /\ standing' = standing /\ wait' = [wait EXCEPT ![m] = NoTimer]
      BY <2>7 DEF WaitEnds
    <3>2. Begun' <= Begun
      BY <3>1 DEF Begun, NoTimer, CauseInv, LifecycleInv, Types
    <3>3. size' = size
      BY <3>1 DEF size
    <3>4. force \in Int /\ Timeout - force + Begun <= size
      BY <1>6, <2>2, <2>3, <3>1
    <3>5. Timeout - force + Begun' <= size
      <4>1. Timeout \in Int /\ size \in Int /\ Begun \in Int /\ Begun' \in Int
        BY <1>1, <1>2, <1>3
      <4>. QED
        BY <3>2, <3>4, <4>1, Budget
    <3>. QED
      BY <3>1, <3>3, <3>5
  <2>8. CASE UNCHANGED <<standing, force, wait>>
    <3>1. size' = size /\ Begun' = Begun
      BY <2>8 DEF size, Begun
    <3>. QED
      BY <1>6, <2>3, <2>8, <3>1
  <2>. QED
    BY <2>4, <2>5, <2>6, <2>7, <2>8 DEF Next, ProcessStep, ServiceStep, Create, Connect,
       ConnectFails, Listen, ListenFails, NatsConnects, NatsRefuses, NatsBreaks,
       RedisChanges, Subscribe, BeginLoop, EndFetch, Fetch, EndHandler, Arrive, ProbeChecks,
       Answer, DrainEnds, QuitEnds, DrainFails, QuitFails, HookRejects, Disconnect, Dispose,
       CloseServer, Exit, ForceExit, shutdownVars
<1>. QED
  BY <1>1, <1>5, <1>6 DEF Counted, size

\* With any number of MessagingModule instances, any timeout and all faults, the
\* timer of bootstrap() forces the exit only for one of the causes that are named.
THEOREM ForcesForCause == Spec => []ForcedForCause
<1>1. Init => CauseInv
  <2>1. Init => Held
    BY DEF Init, Held
  <2>2. Init => Counted
    BY DEF Init, Counted
  <2>. QED
    BY <2>1, <2>2, InitialState DEF CauseInv
<1>2. CauseInv /\ [Next]_vars => CauseInv'
  <2>1. CauseInv /\ Next => CauseInv'
    <3>1. CauseInv /\ Next => LifecycleInv' /\ Held'
      BY StepKeeps, HeldKeeps DEF CauseInv
    <3>2. Next => Lives
      BY DEF Next
    <3>. QED
      BY <3>1, <3>2, CountKeeps DEF CauseInv
  <2>2. CauseInv /\ UNCHANGED vars => CauseInv'
    <3>. SUFFICES ASSUME CauseInv, UNCHANGED vars PROVE CauseInv'
      OBVIOUS
    <3>1. LifecycleInv'
      BY StepKeeps DEF CauseInv
    <3>2. Held' /\ Cause' = Cause /\ Begun' = Begun /\ Timeout' = Timeout
      BY DEF CauseInv, Held, Cause, Begun, Timeout, settings, vars, shutdownVars, connections, work
    <3>. QED
      BY <3>1, <3>2 DEF CauseInv, Counted, vars, shutdownVars
  <2>. QED
    BY <2>1, <2>2
<1>3. CauseInv => ForcedForCause
  BY DEF CauseInv, Counted, Cause, ForcedForCause, Timeout
<1>. QED
  BY <1>1, <1>2, <1>3, PTL DEF Spec

=============================================================================
