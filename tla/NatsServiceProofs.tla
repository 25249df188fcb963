--------------------------- MODULE NatsServiceProofs ---------------------------
(***************************************************************************)
(* Theorems about NatsService, for any number of calls, connections and    *)
(* outages: a service has one connection at most, the cached clients are   *)
(* that connection's, and calls wait only for an attempt that will end.    *)
(***************************************************************************)
EXTENDS NatsService, TLAPS

\* Where the fields of the service point.
Memoised ==
    /\ \A n \in Conns : conns[n] \in Live => n = connectionPromise
    /\ \A n \in Conns : conns[n] \in Live \ {"connecting"} => n = connection
    /\ \A n \in Conns : conns[n] = "connecting" => connection = None
    /\ connection # None => connection = connectionPromise
    /\ hook = "draining" => connection # None

\* A call that is under way has a connection.
Held == \A c \in Callers : pc[c] # "idle" => on[c] \in Conns

NatsInv == TypeOK /\ Held /\ Memoised /\ ClientsOfTheConnection

LEMMA CallKeeps ==
    ASSUME NatsInv, NEW c \in Callers, NEW kind \in Kinds, Call(c, kind)
    PROVE  NatsInv'
<1>1. CASE UseClient(c, kind)
  <2>1. Client(kind) \in Conns
    BY <1>1 DEF UseClient, Client, NatsInv, TypeOK
  <2>. QED
    BY <1>1, <2>1 DEF UseClient, Await, Call, NatsInv, TypeOK, Held, Memoised,
       ClientsOfTheConnection, environmentVars, serviceVars
<1>2. CASE UseConnection(c, kind)
  BY <1>2 DEF UseConnection, NextPoint, Await, Call, NatsInv, TypeOK, Held, Memoised,
     ClientsOfTheConnection, environmentVars
<1>3. CASE JoinConnect(c, kind)
  BY <1>3 DEF JoinConnect, Await, Report, Call, NatsInv, TypeOK, Held, Memoised,
     ClientsOfTheConnection, environmentVars, serviceVars
<1>4. CASE StartConnect(c, kind)
  <2>1. PICK n \in Conns : /\ Fresh(n)
                          /\ conns' = [conns EXCEPT ![n] = "connecting"]
                          /\ connectionPromise' = n
                          /\ Await(c, kind, "connect", n)
    BY <1>4 DEF StartConnect
  <2>2. \A m \in Conns : conns[m] \notin Live
    BY <1>4, NatsAssumption DEF StartConnect, NatsInv, Memoised
  <2>3. /\ connection = None /\ connection' = None /\ n # None
        /\ UNCHANGED <<environmentVars, hook, jetStream, jetStreamManager>>
    BY <1>4, NatsAssumption DEF StartConnect, Call
  <2>4. TypeOK' /\ Held'
    BY <2>1, <2>3 DEF Await, NatsInv, TypeOK, Held, States, environmentVars
  <2>5. \A m \in Conns : conns'[m] \in Live => m = n /\ conns'[m] = "connecting"
    BY <2>1, <2>2 DEF NatsInv, TypeOK, Live
  <2>6. Memoised'
    BY <2>1, <2>3, <2>5 DEF NatsInv, Memoised
  <2>. QED
    BY <2>3, <2>4, <2>6 DEF NatsInv, ClientsOfTheConnection
<1>. QED
  BY <1>1, <1>2, <1>3, <1>4 DEF Call

LEMMA ConnectKeeps ==
    ASSUME NatsInv, NEW n \in Conns, Connected(n) \/ ConnectFails(n)
    PROVE  NatsInv'
<1>1. /\ conns[n] = "connecting" /\ n = connectionPromise /\ connection = None
      /\ jetStream = None /\ jetStreamManager = None /\ hook # "draining"
      /\ n # None
      /\ \A m \in Conns : conns[m] \in Live => m = n
  BY NatsAssumption DEF Connected, ConnectFails, NatsInv, Memoised, Live, States,
     ClientsOfTheConnection
<1>2. CASE Connected(n)
  <2>0. Held'
    BY <1>2 DEF Connected, Waiting, NatsInv, TypeOK, Held
  <2>1. TypeOK'
    BY <1>1, <1>2 DEF Connected, NextPoint, NatsInv, TypeOK, States, environmentVars
  <2>2. /\ connection' = n /\ connectionPromise' = n /\ hook' = hook
        /\ conns'[n] = "open"
        /\ \A m \in Conns : conns'[m] \in Live => m = n
    BY <1>1, <1>2 DEF Connected, NatsInv, TypeOK
  <2>3. Memoised'
    BY <1>1, <2>2 DEF Memoised, Live, States
  <2>4. ClientsOfTheConnection'
    BY <1>1, <1>2 DEF Connected, ClientsOfTheConnection
  <2>. QED
    BY <2>0, <2>1, <2>3, <2>4 DEF NatsInv
<1>3. CASE ConnectFails(n)
  <2>1. TypeOK' /\ Held'
    BY <1>1, <1>3 DEF ConnectFails, Reject, Report, NatsInv, TypeOK, Held, States,
       environmentVars
  <2>2. \A m \in Conns : conns'[m] \notin Live
    BY <1>1, <1>3 DEF ConnectFails, NatsInv, TypeOK, Live
  <2>3. UNCHANGED <<connection, jetStream, jetStreamManager, hook>>
    BY <1>3 DEF ConnectFails
  <2>4. Memoised'
    BY <1>1, <2>2, <2>3 DEF Memoised, Live, States
  <2>. QED
    BY <1>1, <2>1, <2>3, <2>4 DEF NatsInv, ClientsOfTheConnection
<1>. QED
  BY <1>2, <1>3

LEMMA RequestKeeps ==
    ASSUME NatsInv, NEW c \in Callers, ManagerMade(c) \/ Answered(c) \/ Failed(c)
    PROVE  NatsInv'
<1>1. CASE ManagerMade(c)
  <2>1. on[c] \in Conns /\ on[c] = connection
    BY <1>1 DEF ManagerMade, NatsInv, TypeOK, Held, Memoised, Live, States
  <2>. QED
    BY <1>1, <2>1 DEF ManagerMade, Await, NatsInv, TypeOK, Held, Memoised,
       ClientsOfTheConnection, environmentVars
<1>2. CASE Answered(c) \/ Failed(c)
  BY <1>2 DEF Answered, Failed, Return, Report, NatsInv, TypeOK, Held, Memoised,
     ClientsOfTheConnection, environmentVars, serviceVars
<1>. QED
  BY <1>1, <1>2

LEMMA DestroyKeeps ==
    ASSUME NatsInv, onModuleDestroy \/ Drained \/ DrainFails
    PROVE  NatsInv'
<1>1. CASE onModuleDestroy /\ UNCHANGED conns
  <2>1. hook' # "draining" \/ connection # None
    BY <1>1 DEF onModuleDestroy
  <2>. QED
    BY <1>1, <2>1 DEF onModuleDestroy, NatsInv, TypeOK, Held, Memoised,
       ClientsOfTheConnection, environmentVars, serviceVars, callVars
<1>2. CASE onModuleDestroy /\ hook' = "draining"
  <2>1. /\ connection # None /\ connection \in Conns
        /\ conns[connection] \in Live \ {"connecting"}
        /\ conns' = [conns EXCEPT ![connection] = "draining"]
        /\ UNCHANGED <<environmentVars, serviceVars, callVars>>
    BY <1>2, NatsAssumption DEF onModuleDestroy, NatsInv, TypeOK, Held, Memoised, Live
  <2>. QED
    BY <1>2, <2>1 DEF NatsInv, TypeOK, Held, Memoised, ClientsOfTheConnection, Live,
       States, environmentVars, serviceVars, callVars
<1>3. CASE Drained \/ DrainFails
  <2>1. /\ connection \in Conns /\ connection = connectionPromise
        /\ conns' = [conns EXCEPT ![connection] = "closed"]
    BY <1>3 DEF Drained, DrainFails, NatsInv, TypeOK, Held, Memoised
  <2>2. \A m \in Conns : conns'[m] \notin Live
    BY <2>1 DEF NatsInv, TypeOK, Held, Memoised, Live
  <2>3. TypeOK' /\ Held'
    BY <1>3, <2>1 DEF Drained, DrainFails, NatsInv, TypeOK, Held, States,
       environmentVars, serviceVars, callVars
  <2>4. Memoised' /\ ClientsOfTheConnection'
    BY <1>3, <2>1, <2>2 DEF Drained, DrainFails, NatsInv, Memoised, Live, States,
       ClientsOfTheConnection, serviceVars
  <2>. QED
    BY <2>3, <2>4 DEF NatsInv
<1>. QED
  BY <1>1, <1>2, <1>3 DEF onModuleDestroy

LEMMA EnvironmentKeeps ==
    ASSUME NatsInv,
           \/ Outage \/ Recovery
           \/ \E n \in Conns : Disconnect(n) \/ Reconnect(n) \/ GiveUp(n)
    PROVE  NatsInv'
<1>1. CASE Outage \/ Recovery
  <2>1. outages' \in 0 .. MaxOutages
    BY <1>1, NatsAssumption DEF Outage, Recovery, NatsInv, TypeOK
  <2>2. server' \in BOOLEAN /\ database' \in BOOLEAN
    BY <1>1 DEF Outage, Recovery, NatsInv, TypeOK
  <2>3. UNCHANGED <<conns, serviceVars, hook, callVars>>
    BY <1>1 DEF Outage, Recovery
  <2>. QED
    BY <2>1, <2>2, <2>3 DEF NatsInv, TypeOK, Held, Memoised,
       ClientsOfTheConnection, serviceVars, callVars
<1>2. CASE \E n \in Conns : Disconnect(n) \/ Reconnect(n) \/ GiveUp(n)
  BY <1>2 DEF Disconnect, Reconnect, GiveUp, Becomes, NatsInv, TypeOK, Held, Memoised,
     ClientsOfTheConnection, Live, States, environmentVars, serviceVars, callVars
<1>. QED
  BY <1>1, <1>2

\* The invariant of connections, clients and callers.
THEOREM NatsInvariant == Spec => []NatsInv
<1>1. Init => NatsInv
  BY NatsAssumption DEF Init, NatsInv, TypeOK, Held, Memoised, ClientsOfTheConnection, Live,
     States, Kinds
<1>2. NatsInv /\ [Next]_vars => NatsInv'
  <2> SUFFICES ASSUME NatsInv, [Next]_vars PROVE NatsInv'
    OBVIOUS
  <2>1. CASE UNCHANGED vars
    BY <2>1 DEF vars, NatsInv, TypeOK, Held, Memoised, ClientsOfTheConnection,
       environmentVars, serviceVars, callVars
  <2>2. CASE Next
    BY <2>2, CallKeeps, ConnectKeeps, RequestKeeps, DestroyKeeps, EnvironmentKeeps
       DEF Next
  <2>. QED
    BY <2>1, <2>2
<1>. QED
  BY <1>1, <1>2, PTL DEF Spec

\* However many calls meet getConnection() while a connection is made, lost or
\* drained, the service never has two.
THEOREM OneConnectionAtATime == Spec => []OneConnection
<1>1. NatsInv => OneConnection
  BY DEF NatsInv, Memoised, OneConnection
<1>. QED
  BY <1>1, NatsInvariant, PTL

\* A cached JetStream client or manager is never that of a connection the service
\* has replaced or drained.
THEOREM ClientsMatch == Spec => []ClientsOfTheConnection
<1>1. NatsInv => ClientsOfTheConnection
  BY DEF NatsInv
<1>. QED
  BY <1>1, NatsInvariant, PTL

\* What the steps do to the attempt and to those that wait for it.
LEMMA AttemptKept ==
    ASSUME NatsInv, WaitsForTheAttempt, [Next]_vars
    PROVE  WaitsForTheAttempt'
<1>. USE DEF WaitsForTheAttempt
<1>1. ASSUME NEW c \in Callers, NEW kind \in Kinds, Call(c, kind)
      PROVE  WaitsForTheAttempt'
  <2>1. CASE UseClient(c, kind) \/ UseConnection(c, kind)
    BY <2>1 DEF UseClient, UseConnection, NextPoint, Await, NatsInv, TypeOK, serviceVars
  <2>2. CASE JoinConnect(c, kind)
    <3>1. connectionPromise \notin {None, connection} /\ conns[connectionPromise] = "connecting"
      BY <2>2 DEF JoinConnect
    <3>. QED
      BY <2>2, <3>1 DEF JoinConnect, Await, NatsInv, TypeOK, serviceVars
  <2>3. CASE StartConnect(c, kind)
    <3>1. \A d \in Callers : pc[d] # "connect"
      BY <2>3, NatsAssumption DEF StartConnect, NatsInv, Held
    <3>. QED
      BY <2>3, <3>1 DEF StartConnect, Await, NatsInv, TypeOK
  <2>. QED
    BY <1>1, <2>1, <2>2, <2>3 DEF Call
<1>2. ASSUME NEW n \in Conns, Connected(n) \/ ConnectFails(n)
      PROVE  WaitsForTheAttempt'
  <2>1. n = connectionPromise
    BY <1>2 DEF Connected, ConnectFails, NatsInv, Memoised, Live, States
  <2>2. \A c \in Callers : pc[c] = "connect" => c \in Waiting(n)
    BY <2>1 DEF Waiting
  <2>3. \A c \in Callers : pc'[c] # "connect"
    <3>1. CASE Connected(n)
      BY <2>2, <3>1 DEF Connected, NextPoint
    <3>2. CASE ConnectFails(n)
      BY <2>2, <3>2 DEF ConnectFails, Reject
    <3>. QED
      BY <1>2, <3>1, <3>2
  <2>4. connectionPromise' \in {None, connection'}
    BY <1>2, <2>1 DEF Connected, ConnectFails
  <2>. QED
    BY <2>3, <2>4
<1>3. ASSUME NEW c \in Callers, ManagerMade(c) \/ Answered(c) \/ Failed(c)
      PROVE  WaitsForTheAttempt'
  BY <1>3 DEF ManagerMade, Answered, Failed, Await, Return, NatsInv, TypeOK, serviceVars
<1>4. ASSUME onModuleDestroy \/ Drained \/ DrainFails
      PROVE  WaitsForTheAttempt'
  <2>1. CASE UNCHANGED <<conns, serviceVars, callVars>>
    BY <2>1 DEF serviceVars, callVars
  <2>2. CASE connection # None /\ UNCHANGED callVars
    <3>1. connectionPromise = connection /\ connectionPromise' \in {None, connection'}
      BY <1>4, <2>2 DEF onModuleDestroy, Drained, DrainFails, serviceVars, NatsInv, Memoised
    <3>2. \A n \in Conns : conns[n] # "connecting"
      BY <2>2 DEF NatsInv, Memoised
    <3>3. \A c \in Callers : pc[c] # "connect"
      BY <3>2 DEF NatsInv, Held
    <3>. QED
      BY <2>2, <3>1, <3>3 DEF callVars
  <2>. QED
    BY <1>4, <2>1, <2>2 DEF onModuleDestroy, Drained, DrainFails, NatsInv, Memoised
<1>5. ASSUME \/ Outage \/ Recovery \/ UNCHANGED vars
             \/ \E n \in Conns : Disconnect(n) \/ Reconnect(n) \/ GiveUp(n)
      PROVE  WaitsForTheAttempt'
  BY <1>5 DEF Outage, Recovery, vars, Disconnect, Reconnect, GiveUp, Becomes, serviceVars,
     callVars, NatsInv, TypeOK, Held
<1>. QED
  BY <1>1, <1>2, <1>3, <1>4, <1>5 DEF Next

\* No call waits for an attempt that has ended, and no promise of one stays, over
\* failed attempts, outages and a drain: what ReadyAgain needs besides fairness.
THEOREM WaitsOnlyForAttempts == Spec => []WaitsForTheAttempt
<1>1. Init => WaitsForTheAttempt
  BY DEF Init, WaitsForTheAttempt
<1>2. NatsInv /\ WaitsForTheAttempt /\ [Next]_vars => WaitsForTheAttempt'
  BY AttemptKept
<1>. QED
  BY <1>1, <1>2, NatsInvariant, PTL DEF Spec

\* Types, for any callers, connections and outages.
THEOREM NatsTypeCorrect == Spec => []TypeOK
<1>1. NatsInv => TypeOK
  BY DEF NatsInv
<1>. QED
  BY <1>1, NatsInvariant, PTL

=============================================================================
