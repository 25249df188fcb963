------------------------------ MODULE HttpPipeline ------------------------------
(***************************************************************************)
(* The way of a request through the service as bootstrap() of              *)
(* src/src/main.ts and AppModule set it up: the throttler's guard, the     *)
(* interceptors for request ids, envelopes and metrics, the handler, and   *)
(* the exception filter.  Of the handlers the health probes are modelled   *)
(* with the checks they make while the dependencies come and go; the       *)
(* handlers of tasks, which module Tasks describes, return or throw here.  *)
(***************************************************************************)
EXTENDS Bags, FiniteSets, Integers

CONSTANTS
    Requests,   \* the requests, each made once; the uuid generated for one is itself
    Clients,    \* the addresses they come from
    SentIds,    \* the X-Request-ID headers they come with
    Sent,       \* bound: what they ask for
    Limit,      \* the throttler's limit
    Unreliable, \* the dependencies that come and go
    MaxOutages  \* bound: how often a dependency fails

NoId == "none"

Dependencies == {"memory", "redis", "nats", "database"}

\* The dependencies asked through one connection that the process keeps.
Linked == {"redis", "nats"}

\* What each probe checks.
Checked ==
    [live   |-> {"memory"},
     ready  |-> {"nats", "database"},
     health |-> Dependencies]

Probes == DOMAIN Checked

\* Mutant: the readiness probe catches the failures of NATS, as the general one does.
SoftReadiness == [live |-> {}, ready |-> {"nats"}, health |-> {"redis", "nats"}]

\* The checks whose failures a probe catches itself.
Soft == [live |-> {}, ready |-> {}, health |-> {"redis", "nats"}]

\* The other handlers: the errors each may end with.
Throws ==
    [info    |-> {},
     metrics |-> {},
     create  |-> {"BadRequestException", "P2000"},
     findOne |-> {"NotFoundException", "P2000"}]

AllRoutes == Probes \union DOMAIN Throws \union {"unknown"}

Asked == [client : Clients, route : AllRoutes, sent : SentIds \union {NoId}]

Routes == {asked.route : asked \in Sent}

ASSUME HttpAssumption ==
    /\ IsFiniteSet(Requests)
    /\ Sent \subseteq Asked
    /\ NoId \notin SentIds \union Requests
    /\ Limit \in Nat \ {0}
    /\ Unreliable \subseteq Dependencies
    /\ MaxOutages \in Nat

VARIABLES
    request,   \* what each request asks for, from where, with which id
    phase,     \* how far it got
    context,   \* what the interceptors keep: id, header, meta and the status set so far
    checks,    \* the outcomes of a probe's checks
    answer,    \* the response
    hits,      \* the throttler's count for each client and route
    counter,   \* http_requests_total: a bag of routes with a status
    up,        \* the dependencies that answer in time
    link,      \* the connections to Redis and NATS: "none", "open", "lost" or "closed"
    outages,   \* how often a dependency failed
    fallen,    \* history: the dependencies that have ever been down
    met        \* history: what was away for a request, each time, while it was handled

world == <<up, link, outages, fallen>>

vars == <<request, phase, context, checks, answer, hits, counter, world, met>>

\* What does not answer, and what is out of reach because its connection is.
away ==
    (Dependencies \ up) \union {d \in Linked : link[d] \in {"lost", "closed"}}

\* What of it the request's probe is about to ask.
AwayFor(r) ==
    IF request[r].route \in Probes THEN away \intersect Checked[request[r].route] ELSE {}

NoRequest == [client |-> "none", route |-> "none", sent |-> NoId]

NoContext == [id |-> NoId, header |-> NoId, meta |-> NoId, status |-> 0]

NoChecks == [d \in Dependencies |-> "none"]

NoAnswer == [status |-> 0, header |-> NoId, meta |-> NoId, degraded |-> {}]

Init ==
    /\ request = [r \in Requests |-> NoRequest]
    /\ phase = [r \in Requests |-> "none"]
    /\ context = [r \in Requests |-> NoContext]
    /\ checks = [r \in Requests |-> NoChecks]
    /\ answer = [r \in Requests |-> NoAnswer]
    /\ hits = [p \in Clients \X Routes |-> 0]
    /\ counter = EmptyBag
    /\ up = Dependencies
    /\ link = [d \in Linked |-> IF d = "redis" THEN "lost" ELSE "none"]
    /\ outages = 0
    /\ fallen = {}
    /\ met = [r \in Requests |-> {}]

-----------------------------------------------------------------------------
(* The interceptors *)

\* Mutant: the response is wrapped outside of the request's id.
InterceptorsTransformFirst == <<"Transform", "RequestId", "Metrics">>

\* bootstrap() registers them in this order: what they do before the handler
\* follows it, what they do with its result the reverse order.
Interceptors == <<"RequestId", "Transform", "Metrics">>

\* What an interceptor does to the context before the handler runs.
Intercept(r, c, interceptor) ==
    LET requestId == IF request[r].sent = NoId THEN r ELSE request[r].sent IN
    IF interceptor = "RequestId" THEN [c EXCEPT !.id = requestId, !.header = requestId]
    ELSE IF interceptor = "Transform" THEN [c EXCEPT !.meta = c.id]
    ELSE c

\* Nest sets the status of a handler that succeeds before it calls them.
SuccessStatus(route) == IF route = "create" THEN 201 ELSE 200

Intercepted(r) ==
    LET Pass(c, i) == Intercept(r, c, Interceptors[i])
        called == [NoContext EXCEPT !.status = SuccessStatus(request[r].route)]
    IN  Pass(Pass(Pass(called, 1), 2), 3)

\* http_requests_total counts by route and status.
recordHttpRequest(r) ==
    counter' = counter (+) SetToBag({<<request[r].route, context[r].status>>})

\* MetricsInterceptor records a result with the status that was set,
RecordResult(r) == recordHttpRequest(r)

\* Mutant: there is no callback for errors.
RecordNoError(r) == UNCHANGED counter

\* and an error, too: before the filter gives it a status of its own.
RecordError(r) == recordHttpRequest(r)

-----------------------------------------------------------------------------
(* Answers *)

\* GlobalExceptionFilter: HTTP exceptions have their status, known errors of Prisma
\* the one they are given, all others are internal.
StatusOf(exception) ==
    CASE exception \in {"BadRequestException", "P2003"} -> 400
      [] exception \in {"NotFoundException", "P2025"} -> 404
      [] exception = "P2002" -> 409
      [] exception = "ThrottlerException" -> 429
      [] exception = "ServiceUnavailableException" -> 503
      [] exception \in {"Error", "P2000"} -> 500

\* With the answer the request and what belongs to it are gone.
Respond(r, response) ==
    /\ phase' = [phase EXCEPT ![r] = "answered"]
    /\ context' = [context EXCEPT ![r] = NoContext]
    /\ checks' = [checks EXCEPT ![r] = NoChecks]
    /\ answer' = [answer EXCEPT ![r] = response]

\* Mutant: an error that is no HTTP exception is logged and not answered.
CatchKnown(r, exception) ==
    IF StatusOf(exception) = 500
    THEN phase' = [phase EXCEPT ![r] = "caught"] /\ UNCHANGED <<context, checks, answer>>
    ELSE Respond(r, [NoAnswer EXCEPT !.status = StatusOf(exception),
                                     !.header = context[r].header])

\* The filter answers every exception.
Catch(r, exception) ==
    Respond(r, [NoAnswer EXCEPT !.status = StatusOf(exception),
                                !.header = context[r].header])

\* TransformInterceptor wraps the result.
Envelope(r, degraded) ==
    Respond(r, [status |-> context[r].status, header |-> context[r].header,
                meta |-> context[r].meta, degraded |-> degraded])

-----------------------------------------------------------------------------
(* From the arrival to the handler *)

Arrive(r, asked) ==
    /\ phase[r] = "none"
    /\ phase' = [phase EXCEPT ![r] = "arrived"]
    /\ request' = [request EXCEPT ![r] = asked]
    /\ UNCHANGED <<context, checks, answer, hits, counter, world, met>>

\* No handler has this route: neither guard nor interceptors run.
NoRoute(r) ==
    /\ phase[r] = "arrived"
    /\ request[r].route = "unknown"
    /\ Catch(r, "NotFoundException")
    /\ UNCHANGED <<request, hits, counter, world, met>>

\* Mutant: the throttler counts the requests of all clients together.
KeyOfRoute(r) == <<CHOOSE c \in Clients : TRUE, request[r].route>>

\* The throttler counts by client and handler, probes and metrics included.
Key(r) == <<request[r].client, request[r].route>>

\* Mutant: the request after the last one is let through, too.
AllowedOneMore(r) == hits[Key(r)] <= Limit

Allowed(r) == hits[Key(r)] < Limit

Throttle(r) ==
    /\ phase[r] = "arrived"
    /\ request[r].route # "unknown"
    /\ ~Allowed(r)
    /\ Catch(r, "ThrottlerException")
    /\ UNCHANGED <<request, hits, counter, world, met>>

Admit(r) ==
    /\ phase[r] = "arrived"
    /\ request[r].route # "unknown"
    /\ Allowed(r)
    /\ hits' = [hits EXCEPT ![Key(r)] = @ + 1]
    /\ context' = [context EXCEPT ![r] = Intercepted(r)]
    /\ phase' = [phase EXCEPT ![r] = "handling"]
    /\ checks' = [checks EXCEPT ![r] =
                    IF request[r].route \in Probes
                    THEN [d \in Dependencies |->
                            IF d \in Checked[request[r].route] THEN "called" ELSE "none"]
                    ELSE @]
    /\ met' = [met EXCEPT ![r] = {AwayFor(r)}]
    /\ UNCHANGED <<request, answer, counter, world>>

\* A hit counts for the time of the throttler's window.
HitExpires(p) ==
    /\ hits[p] > 0
    /\ hits' = [hits EXCEPT ![p] = @ - 1]
    /\ UNCHANGED <<request, phase, context, checks, answer, counter, world, met>>

-----------------------------------------------------------------------------
(* The handlers *)

\* A failed check of NATS or Redis throws an Error, that of memory or the database
\* reports "down"; a failure the probe catches itself is reported as degraded.
Failure(r, d) ==
    IF d \in Soft[request[r].route] THEN "degraded"
    ELSE IF d \in {"redis", "nats"} THEN "rejected" ELSE "down"

\* The first check of NATS connects, the others wait with it.
Connecting(d) == d = "nats" /\ link[d] = "none" /\ d \in up

\* The checks of a probe run together, each at its own pace.  That of Redis asks for
\* the status of the client before it pings, that of NATS asks through the connection
\* getConnection() keeps: whatever became of it, no check makes another one.
Check(r, d) ==
    /\ checks[r][d] = "called"
    /\ ~Connecting(d)
    /\ checks' = [checks EXCEPT ![r][d] = IF d \in away THEN Failure(r, d) ELSE "up"]
    /\ UNCHANGED <<request, phase, context, answer, hits, counter, world, met>>

Outcomes(r) == {checks[r][d] : d \in Dependencies}

Probing(r) == request[r].route \in Probes

\* HealthCheckService: when all checks have ended, one that threw makes the probe
\* throw the same, and one that is down makes it unavailable.
Thrown(r) ==
    IF ~Probing(r) THEN Throws[request[r].route]
    ELSE IF "rejected" \in Outcomes(r) THEN {"Error"}
    ELSE IF "down" \in Outcomes(r) THEN {"ServiceUnavailableException"} ELSE {}

Handled(r) == phase[r] = "handling" /\ "called" \notin Outcomes(r)

Return(r) ==
    /\ Handled(r)
    /\ Probing(r) => Thrown(r) = {}
    /\ RecordResult(r)
    /\ Envelope(r, {d \in Dependencies : checks[r][d] = "degraded"})
    /\ UNCHANGED <<request, hits, world, met>>

Throw(r) ==
    /\ Handled(r)
    /\ \E exception \in Thrown(r) : Catch(r, exception)
    /\ RecordError(r)
    /\ UNCHANGED <<request, hits, world, met>>

-----------------------------------------------------------------------------
(* The dependencies and the connections to them *)

\* The requests being handled meet the dependencies as they are now.
Meet ==
    /\ UNCHANGED <<request, phase, context, checks, answer, hits, counter>>
    /\ met' = [r \in Requests |->
                 IF phase[r] = "handling" THEN met[r] \union {AwayFor(r)'} ELSE met[r]]

Fail(d) ==
    /\ d \in up
    /\ outages < MaxOutages
    /\ up' = up \ {d}
    /\ outages' = outages + 1
    /\ fallen' = fallen \union {d}
    /\ UNCHANGED link
    /\ Meet

Recover(d) ==
    /\ d \notin up
    /\ up' = up \union {d}
    /\ UNCHANGED <<link, outages, fallen>>
    /\ Meet

\* The one way a connection changes.
Relink(d, from, to) ==
    /\ link[d] = from
    /\ link' = [link EXCEPT ![d] = to]
    /\ UNCHANGED <<up, outages, fallen>>
    /\ Meet

\* connect() of getConnection(), which a check of NATS waits for.
Connect ==
    /\ Connecting("nats")
    /\ \E r \in Requests : checks[r]["nats"] = "called"
    /\ Relink("nats", "none", "open")

\* The client notices that the server is gone, and tries to connect again.
Lose(d) == d \notin up /\ Relink(d, "open", "lost")

\* It succeeds some time after the server is back; ioredis begins like this, too.
Regain(d) == d \in up /\ Relink(d, "lost", "open")

\* The NATS client ends its attempts: the connection is closed for good.
GiveUp == "nats" \notin up /\ Relink("nats", "lost", "closed")

-----------------------------------------------------------------------------
Progress(r) ==
    \/ NoRoute(r) \/ Throttle(r) \/ Admit(r)
    \/ \E d \in Dependencies : Check(r, d)
    \/ Return(r) \/ Throw(r)

Next ==
    \/ \E r \in Requests : (\E asked \in Sent : Arrive(r, asked)) \/ Progress(r)
    \/ \E p \in Clients \X Routes : HitExpires(p)
    \/ \E d \in Unreliable : Fail(d) \/ Recover(d)
    \/ \E d \in Linked : Lose(d) \/ Regain(d)
    \/ Connect \/ GiveUp

Spec == Init /\ [][Next]_vars

\* The guard, the handler and the checks of a request go on, each with a result or an
\* error, and so does the attempt to connect a check waits for.
FairSpec ==
    /\ Spec
    /\ \A r \in Requests : WF_vars(Progress(r))
    /\ WF_vars(Connect)

-----------------------------------------------------------------------------
(* What the pipeline guarantees *)

\* The type invariant.
TypeOK ==
    /\ request \in [Requests -> Sent \union {NoRequest}]
    /\ phase \in [Requests -> {"none", "arrived", "handling", "answered"}]
    /\ \A r \in Requests :
         LET ids == SentIds \union {NoId, r} IN
         /\ context[r] \in [id : ids, header : ids, meta : ids, status : {0, 200, 201}]
         /\ answer[r] \in
              [status : {0, 200, 201, 400, 404, 429, 500, 503}, header : ids,
               meta : ids, degraded : SUBSET {"redis", "nats"}]
    /\ checks \in [Requests ->
         [Dependencies ->
            {"none", "called", "up", "down", "rejected", "degraded"}]]
    /\ hits \in [Clients \X Routes -> 0 .. Limit]
    /\ BagToSet(counter) \subseteq Routes \X {200, 201}
    /\ up \in SUBSET Dependencies /\ fallen \in SUBSET Unreliable
    /\ link \in [Linked -> {"none", "open", "lost", "closed"}]
    /\ outages \in 0 .. MaxOutages
    /\ met \in [Requests -> SUBSET SUBSET Dependencies]

Admitted(r) == met[r] # {}

Answered(r) == phase[r] = "answered"

\* Every request that got past the guard carries its id back, the one it came with
\* or its own: in the header whatever became of it, and in the envelope if it
\* succeeded.
Traceable ==
    \A r \in Requests :
        Admitted(r) /\ Answered(r) =>
            /\ answer[r].header = IF request[r].sent = NoId THEN r ELSE request[r].sent
            /\ answer[r].status < 400 => answer[r].meta = answer[r].header

\* The copies of a route's entries in the counter, told apart by their numbers.
Recorded(route) ==
    UNION {{e} \X (1 .. counter[e]) : e \in {e \in BagToSet(counter) : e[1] = route}}

\* The requests the counter has to have.
Finished(route) ==
    {r \in Requests : request[r].route = route /\ Admitted(r) /\ Answered(r)}

\* The request counter has each answered request that got past the guard once,
\* whether it succeeded or failed, and none that is still being handled.
CountedOnce ==
    \A route \in Routes : Cardinality(Recorded(route)) = Cardinality(Finished(route))

\* The dependencies a probe insists on.
Needed(r) ==
    Checked[request[r].route] \ (IF request[r].route = "health" THEN Linked ELSE {})

\* A probe tells what was the case while it ran, though dependencies and connections
\* come and go between its checks: it succeeds only if each dependency it insists on
\* was in reach at some time, and calls degraded what was not.  It fails only for a
\* dependency that was out of reach, and that has been down at some time: maybe long
\* before, when its connection was lost for it.
ProbesAreTrue ==
    \A r \in Requests :
        Probing(r) /\ Admitted(r) /\ Answered(r) =>
            /\ answer[r].status = 200 =>
                 \A d \in Needed(r) : \E a \in met[r] : d \notin a
            /\ answer[r].status # 200 =>
                 \E d \in Needed(r) \intersect fallen, a \in met[r] : d \in a
            /\ \A d \in answer[r].degraded : \E a \in met[r] : d \in a

\* A request is refused for the requests of its own client to its own handler, and
\* for none of others: who floods the tasks does not starve the probes.
ThrottledAlone ==
    \A r \in Requests :
        answer[r].status = 429 =>
          Cardinality({q \in Requests :
                         request[q].client = request[r].client
                           /\ request[q].route = request[r].route}) > Limit

\* In the end every request that arrived has its answer, also if its handler threw what
\* nobody expects, and none waits for a check or for a connection for ever.
EveryRequestAnswered ==
    <>[](\A r \in Requests : phase[r] \in {"none", "answered"})

\* The status in the counter is the one the request was answered with.
RecordedAsAnswered ==
    \A e \in BagToSet(counter) :
        \E r \in Requests :
            Answered(r) /\ request[r].route = e[1] /\ answer[r].status = e[2]

=============================================================================
