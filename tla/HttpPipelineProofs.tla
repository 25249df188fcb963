--------------------------- MODULE HttpPipelineProofs ---------------------------
(***************************************************************************)
(* Theorems about HttpPipeline for any requests, clients, limits and       *)
(* dependencies that fail any number of times.                             *)
(***************************************************************************)
EXTENDS HttpPipeline, FiniteSetTheorems, TLAPS

Ids(r) == SentIds \union {NoId, r}

Contexts(r) == [id : Ids(r), header : Ids(r), meta : Ids(r), status : {0, 200, 201}]

Answers(r) ==
    [status : {0, 200, 201, 400, 404, 429, 500, 503}, header : Ids(r), meta : Ids(r),
     degraded : SUBSET {"redis", "nats"}]

Results == {"none", "called", "up", "down", "rejected", "degraded"}

WorldShapes ==
    /\ up \in SUBSET Dependencies /\ fallen \in SUBSET Unreliable
    /\ link \in [Linked -> {"none", "open", "lost", "closed"}]
    /\ outages \in 0 .. MaxOutages

Shapes ==
    /\ request \in [Requests -> Sent \union {NoRequest}]
    /\ phase \in [Requests -> {"none", "arrived", "handling", "answered"}]
    /\ context = [r \in Requests |-> context[r]]
    /\ \A r \in Requests : context[r] \in Contexts(r)
    /\ checks \in [Requests -> [Dependencies -> Results]]
    /\ answer = [r \in Requests |-> answer[r]]
    /\ \A r \in Requests : answer[r] \in Answers(r)
    /\ hits \in [Clients \X Routes -> 0 .. Limit]
    /\ BagToSet(counter) \subseteq Routes \X {200, 201}
    /\ met \in [Requests -> SUBSET SUBSET Dependencies]
    /\ WorldShapes

\* The id that identifies a request.
RequestId(r) == IF request[r].sent = NoId THEN r ELSE request[r].sent

\* The dependency was in reach while the request was handled, or out of reach.
Met(r, d) == \E a \in met[r] : d \notin a
Missed(r, d) == \E a \in met[r] : d \in a

\* Only the connection to Redis can be missing without an outage: until it is made.
WorldInv ==
    /\ Dependencies \ up \subseteq fallen
    /\ link["nats"] \in {"lost", "closed"} => "nats" \in fallen

\* What is known of a request whose handler runs,
HandlingInv(r) ==
    /\ request[r].route # "unknown"
    /\ AwayFor(r) \in met[r]
    /\ context[r].header = RequestId(r)
    /\ context[r].meta = RequestId(r)
    /\ context[r].status = SuccessStatus(request[r].route)
    /\ \A d \in Dependencies :
         /\ Probing(r) =>
              (checks[r][d] = "none" <=> d \notin Checked[request[r].route])
         /\ ~Probing(r) => checks[r][d] = "none"
         /\ checks[r][d] = "up" => Met(r, d)
         /\ checks[r][d] \in {"down", "rejected", "degraded"} => Missed(r, d)
         /\ checks[r][d] = "degraded" => d \in Soft[request[r].route]
         /\ checks[r][d] \in {"down", "rejected"} =>
              d \notin Soft[request[r].route] /\ d \in fallen

\* and of one that was answered.
AnsweredInv(r) ==
    /\ met[r] # {}
    /\ answer[r].header = RequestId(r)
    /\ answer[r].status < 400 => answer[r].meta = RequestId(r)
    /\ Probing(r) =>
         /\ answer[r].status = 200 => \A d \in Needed(r) : Met(r, d)
         /\ answer[r].status # 200 => \E d \in Needed(r) \intersect fallen : Missed(r, d)
         /\ \A d \in answer[r].degraded : Missed(r, d)

RequestInv(r) ==
    /\ phase[r] # "none" => request[r] \in Sent
    /\ phase[r] \in {"none", "arrived"} => met[r] = {}
    /\ phase[r] # "handling" => checks[r] = NoChecks
    /\ phase[r] = "handling" => HandlingInv(r)
    /\ phase[r] = "answered" => met[r] = {} \/ AnsweredInv(r)

PipelineInv ==
    /\ Shapes
    /\ WorldInv
    /\ \A r \in Requests : RequestInv(r)

LEMMA AskedIsAsked ==
    ASSUME PipelineInv, NEW r \in Requests, phase[r] # "none"
    PROVE  /\ request[r] \in Sent /\ request[r] \in Asked
           /\ request[r].client \in Clients /\ request[r].route \in Routes
           /\ request[r].route \in AllRoutes
           /\ Key(r) \in Clients \X Routes
           /\ RequestId(r) \in Ids(r)
<1>1. request[r] \in Sent /\ request[r] \in Asked
  BY HttpAssumption DEF PipelineInv, RequestInv
<1>2. request[r].client \in Clients /\ request[r].route \in Routes
      /\ request[r].sent \in SentIds \union {NoId} /\ request[r].route \in AllRoutes
  BY <1>1 DEF Asked, Routes
<1>. QED
  BY <1>1, <1>2 DEF Key, RequestId, Ids

\* The three interceptors, in their order.
LEMMA InterceptorsPass ==
    ASSUME PipelineInv, NEW r \in Requests, phase[r] # "none"
    PROVE  /\ Intercepted(r).header = RequestId(r)
           /\ Intercepted(r).meta = RequestId(r)
           /\ Intercepted(r).status = SuccessStatus(request[r].route)
           /\ Intercepted(r) \in Contexts(r)
<1>. DEFINE called == [NoContext EXCEPT !.status = SuccessStatus(request[r].route)]
            first == Intercept(r, called, "RequestId")
            second == Intercept(r, first, "Transform")
<1>1. called = [id |-> NoId, header |-> NoId, meta |-> NoId,
                status |-> SuccessStatus(request[r].route)]
  BY DEF NoContext
<1>2. first = [id |-> RequestId(r), header |-> RequestId(r), meta |-> NoId,
               status |-> SuccessStatus(request[r].route)]
  BY <1>1 DEF Intercept, RequestId
<1>3. second = [id |-> RequestId(r), header |-> RequestId(r), meta |-> RequestId(r),
                status |-> SuccessStatus(request[r].route)]
  BY <1>2 DEF Intercept
<1>4. Intercepted(r) = second
  BY <1>3 DEF Intercepted, Intercept, Interceptors
<1>. QED
  BY <1>3, <1>4, AskedIsAsked DEF Contexts, Ids, SuccessStatus

-----------------------------------------------------------------------------
(* What a step leaves alone *)

SameRequest(r) ==
    /\ request'[r] = request[r]
    /\ phase'[r] = phase[r]
    /\ context'[r] = context[r]
    /\ checks'[r] = checks[r]
    /\ answer'[r] = answer[r]

\* What is known of a request lasts while dependencies come and go.
LEMMA RequestKept ==
    ASSUME PipelineInv, NEW r \in Requests, SameRequest(r),
           fallen \subseteq fallen', met[r] \subseteq met'[r],
           phase[r] # "handling" => met'[r] = met[r],
           phase[r] = "handling" => AwayFor(r)' \in met'[r]
    PROVE  RequestInv(r)'
<1>. USE DEF SameRequest
<1>1. RequestId(r)' = RequestId(r) /\ Probing(r)' = Probing(r) /\ Needed(r)' = Needed(r)
  BY DEF RequestId, Probing, Needed
<1>2. \A d : (Met(r, d) => Met(r, d)') /\ (Missed(r, d) => Missed(r, d)')
  BY DEF Met, Missed
<1>3. CASE phase[r] = "handling"
  <2>1. HandlingInv(r)
    BY <1>3 DEF PipelineInv, RequestInv
  <2>2. HandlingInv(r)'
    BY <1>1, <1>2, <1>3, <2>1 DEF HandlingInv
  <2>. QED
    BY <1>3, <2>2 DEF PipelineInv, RequestInv
<1>4. CASE phase[r] = "answered" /\ AnsweredInv(r)
  <2>1. AnsweredInv(r)'
    BY <1>1, <1>2, <1>4 DEF AnsweredInv
  <2>. QED
    BY <1>4, <2>1 DEF PipelineInv, RequestInv
<1>5. CASE phase[r] # "handling" /\ ~(phase[r] = "answered" /\ AnsweredInv(r))
  BY <1>5 DEF PipelineInv, RequestInv
<1>. QED
  BY <1>3, <1>4, <1>5

\* A step of one request leaves the dependencies and the other requests alone.
LEMMA OthersKept ==
    ASSUME PipelineInv, NEW r, UNCHANGED world,
           \A q \in Requests \ {r} : SameRequest(q) /\ met'[q] = met[q],
           r \in Requests => RequestInv(r)'
    PROVE  WorldInv' /\ \A q \in Requests : RequestInv(q)'
<1>1. WorldInv'
  BY DEF PipelineInv, WorldInv, world
<1>2. ASSUME NEW q \in Requests \ {r}
      PROVE  RequestInv(q)'
  <2>1. SameRequest(q) /\ met'[q] = met[q] /\ fallen' = fallen
    BY DEF world
  <2>2. AwayFor(q)' = AwayFor(q)
    BY <2>1 DEF AwayFor, away, world, SameRequest
  <2>3. phase[q] = "handling" => AwayFor(q)' \in met'[q]
    BY <2>1, <2>2 DEF PipelineInv, RequestInv, HandlingInv
  <2>. QED
    BY <2>1, <2>3, RequestKept
<1>. QED
  BY <1>1, <1>2

\* An answer and what it does to the types.
LEMMA Responds ==
    ASSUME PipelineInv, NEW r \in Requests, NEW response \in Answers(r), Respond(r, response)
    PROVE  /\ phase'[r] = "answered" /\ answer'[r] = response /\ checks'[r] = NoChecks
           /\ phase' \in [Requests -> {"none", "arrived", "handling", "answered"}]
           /\ context' = [q \in Requests |-> context'[q]]
           /\ \A q \in Requests : context'[q] \in Contexts(q)
           /\ checks' \in [Requests -> [Dependencies -> Results]]
           /\ answer' = [q \in Requests |-> answer'[q]]
           /\ \A q \in Requests : answer'[q] \in Answers(q)
           /\ \A q \in Requests \ {r} :
                /\ phase'[q] = phase[q] /\ context'[q] = context[q]
                /\ checks'[q] = checks[q] /\ answer'[q] = answer[q]
<1>. USE DEF PipelineInv, Shapes, Respond
<1>1. phase'[r] = "answered" /\ answer'[r] = response /\ checks'[r] = NoChecks
  OBVIOUS
<1>2. phase' \in [Requests -> {"none", "arrived", "handling", "answered"}]
  OBVIOUS
<1>3. NoContext \in Contexts(r)
  BY DEF NoContext, Contexts, Ids
<1>. HIDE DEF NoContext
<1>4. /\ context' = [q \in Requests |-> context'[q]]
      /\ \A q \in Requests : context'[q] \in Contexts(q)
  BY <1>3
<1>5. checks' \in [Requests -> [Dependencies -> Results]]
  BY DEF NoChecks, Results
<1>6. /\ answer' = [q \in Requests |-> answer'[q]]
      /\ \A q \in Requests : answer'[q] \in Answers(q)
  OBVIOUS
<1>. QED
  BY <1>1, <1>2, <1>4, <1>5, <1>6

\* What the filter answers.
ErrorResponse(status, header) == [NoAnswer EXCEPT !.status = status, !.header = header]

LEMMA ErrorAnswer ==
    ASSUME NEW r \in Requests, NEW status \in {400, 404, 429, 500, 503}, NEW header \in Ids(r)
    PROVE  /\ ErrorResponse(status, header) \in Answers(r)
           /\ ErrorResponse(status, header).status = status
           /\ ErrorResponse(status, header).header = header
           /\ ErrorResponse(status, header).degraded = {}
<1>. DEFINE response == [NoAnswer EXCEPT !.status = status, !.header = header]
<1>1. DOMAIN response = {"status", "header", "meta", "degraded"}
  BY DEF NoAnswer
<1>2. /\ response.status = status /\ response.header = header
      /\ response.meta = NoId /\ response.degraded = {}
  BY DEF NoAnswer
<1>3. response = [field \in {"status", "header", "meta", "degraded"} |-> response[field]]
  BY DEF NoAnswer
<1>. HIDE DEF response
<1>4. response = [status |-> status, header |-> header, meta |-> NoId, degraded |-> {}]
  BY <1>2, <1>3
<1>5. response \in Answers(r)
  BY <1>4 DEF Answers, Ids
<1>. QED
  BY <1>2, <1>5 DEF response, ErrorResponse

-----------------------------------------------------------------------------
(* From the arrival to the handler *)

LEMMA ArriveKeeps ==
    ASSUME PipelineInv, NEW r \in Requests, NEW asked \in Sent, Arrive(r, asked)
    PROVE  PipelineInv'
<1>. USE DEF Arrive
<1>1. Shapes'
  BY DEF PipelineInv, Shapes, WorldShapes, world
<1>2. RequestInv(r)'
  BY DEF PipelineInv, Shapes, RequestInv
<1>3. \A q \in Requests \ {r} : SameRequest(q) /\ met'[q] = met[q]
  BY DEF PipelineInv, Shapes, SameRequest
<1>. QED
  BY <1>1, <1>2, <1>3, OthersKept DEF PipelineInv

\* An answer before the handler.
LEMMA RefusalKeeps ==
    ASSUME PipelineInv, NEW r \in Requests,
           NEW exception \in {"NotFoundException", "ThrottlerException"},
           phase[r] = "arrived", Catch(r, exception),
           UNCHANGED <<request, hits, counter, world, met>>
    PROVE  PipelineInv'
<1>. DEFINE response == ErrorResponse(StatusOf(exception), context[r].header)
<1>1. response \in Answers(r)
  <2>1. StatusOf(exception) \in {404, 429}
    BY DEF StatusOf
  <2>2. context[r].header \in Ids(r)
    BY DEF PipelineInv, Shapes, Contexts
  <2>. QED
    BY <2>1, <2>2, ErrorAnswer
<1>2. Respond(r, response)
  BY DEF Catch, ErrorResponse
<1>. HIDE DEF response
<1>3. Shapes'
  BY <1>1, <1>2, Responds DEF PipelineInv, Shapes, WorldShapes, world
<1>4. RequestInv(r)'
  BY <1>1, <1>2, Responds DEF PipelineInv, RequestInv
<1>5. \A q \in Requests \ {r} : SameRequest(q) /\ met'[q] = met[q]
  BY <1>1, <1>2, Responds DEF SameRequest
<1>. QED
  BY <1>3, <1>4, <1>5, OthersKept DEF PipelineInv

LEMMA AdmitKeeps ==
    ASSUME PipelineInv, NEW r \in Requests, Admit(r)
    PROVE  PipelineInv'
<1>. USE DEF Admit
<1>1. /\ Key(r) \in Clients \X Routes /\ Intercepted(r) \in Contexts(r)
      /\ request[r].route \in AllRoutes
  BY AskedIsAsked, InterceptorsPass
<1>2. Limit \in Nat /\ AwayFor(r) \in SUBSET Dependencies
  BY HttpAssumption DEF AwayFor, away, Linked, Dependencies
<1>3. /\ checks'[r] \in [Dependencies -> Results]
      /\ checks' \in [Requests -> [Dependencies -> Results]]
  BY DEF PipelineInv, Shapes, Results
<1>4. hits' \in [Clients \X Routes -> 0 .. Limit]
  BY <1>1, <1>2 DEF PipelineInv, Shapes, Allowed
<1>5. Shapes'
  BY <1>1, <1>2, <1>3, <1>4 DEF PipelineInv, Shapes, WorldShapes, world
<1>6. RequestInv(r)'
  <2>1. /\ phase'[r] = "handling" /\ met'[r] = {AwayFor(r)}
        /\ context'[r] = Intercepted(r)
    BY DEF PipelineInv, Shapes
  <2>2. RequestId(r)' = RequestId(r) /\ Probing(r)' = Probing(r) /\ AwayFor(r)' = AwayFor(r)
    BY DEF RequestId, Probing, AwayFor, away, world
  <2>3. /\ context'[r].header = RequestId(r)
        /\ context'[r].meta = RequestId(r)
        /\ context'[r].status = SuccessStatus(request[r].route)
    BY <2>1, InterceptorsPass
  <2>4. ASSUME NEW d \in Dependencies
        PROVE  /\ Probing(r) =>
                    /\ checks'[r][d] \in {"none", "called"}
                    /\ checks'[r][d] = "none" <=> d \notin Checked[request[r].route]
               /\ ~Probing(r) => checks'[r][d] = "none"
    <3>1. checks[r] = NoChecks
      BY DEF PipelineInv, RequestInv
    <3>2. checks'[r] = IF Probing(r)
                       THEN [e \in Dependencies |->
                               IF e \in Checked[request[r].route] THEN "called" ELSE "none"]
                       ELSE NoChecks
      BY <3>1 DEF Probing, PipelineInv, Shapes
    <3>. QED
      BY <3>2 DEF NoChecks
  <2>. QED
    BY <2>1, <2>2, <2>3, <2>4, AskedIsAsked DEF RequestInv, HandlingInv
<1>7. \A q \in Requests \ {r} : SameRequest(q) /\ met'[q] = met[q]
  BY DEF PipelineInv, Shapes, SameRequest
<1>. QED
  BY <1>5, <1>6, <1>7, OthersKept DEF PipelineInv

-----------------------------------------------------------------------------
(* The handlers *)

LEMMA CheckKeeps ==
    ASSUME PipelineInv, NEW r \in Requests, NEW d \in Dependencies, Check(r, d)
    PROVE  PipelineInv'
<1>. DEFINE outcome == IF d \in away THEN Failure(r, d) ELSE "up"
<1>1. phase[r] = "handling" /\ HandlingInv(r) /\ Probing(r)
  <2>1. phase[r] = "handling"
    BY DEF Check, PipelineInv, RequestInv, NoChecks
  <2>. QED
    BY <2>1 DEF Check, PipelineInv, RequestInv, HandlingInv
<1>2. /\ checks[r] \in [Dependencies -> Results]
      /\ checks'[r] = [checks[r] EXCEPT ![d] = outcome]
      /\ \A q \in Requests \ {r} : checks'[q] = checks[q]
  BY DEF Check, PipelineInv, Shapes
<1>3. outcome \in {"up", "down", "rejected", "degraded"}
  BY DEF Failure
<1>4. checks' \in [Requests -> [Dependencies -> Results]]
  BY <1>3 DEF Check, PipelineInv, Shapes, Results
<1>5. Shapes'
  BY <1>4 DEF Check, PipelineInv, Shapes, WorldShapes, world
<1>6. d \in Checked[request[r].route]
  BY <1>1 DEF Check, HandlingInv
<1>7. AwayFor(r) \in met[r] /\ (d \in AwayFor(r) <=> d \in away)
  BY <1>1, <1>6 DEF HandlingInv, AwayFor, Probing
<1>8. /\ outcome = "up" => Met(r, d)
      /\ outcome \in {"down", "rejected", "degraded"} => Missed(r, d)
      /\ outcome = "degraded" => d \in Soft[request[r].route]
      /\ outcome \in {"down", "rejected"} =>
           d \notin Soft[request[r].route] /\ d \in fallen
  <2>1. /\ outcome = "up" => d \notin away
        /\ outcome \in {"down", "rejected", "degraded"} => d \in away
        /\ outcome = "degraded" => d \in Soft[request[r].route]
        /\ outcome \in {"down", "rejected"} => d \notin Soft[request[r].route]
    BY DEF Failure
  <2>2. d \in away /\ d \notin Soft[request[r].route] => d \in fallen
    <3>1. d \notin Soft[request[r].route] => d # "redis"
      BY <1>1, <1>6 DEF Probing, Probes, Checked, Soft
    <3>2. d \in away /\ d # "redis" => d \in fallen
      BY DEF away, Linked, PipelineInv, WorldInv
    <3>. QED
      BY <3>1, <3>2
  <2>3. (d \notin away => Met(r, d)) /\ (d \in away => Missed(r, d))
    BY <1>7 DEF Met, Missed
  <2>. HIDE DEF outcome
  <2>. QED
    BY <2>1, <2>2, <2>3
<1>. HIDE DEF outcome
<1>9. ASSUME NEW e \in Dependencies
      PROVE  /\ checks'[r][e] = "none" <=> e \notin Checked[request[r].route]
             /\ checks'[r][e] = "up" => Met(r, e)
             /\ checks'[r][e] \in {"down", "rejected", "degraded"} => Missed(r, e)
             /\ checks'[r][e] = "degraded" => e \in Soft[request[r].route]
             /\ checks'[r][e] \in {"down", "rejected"} =>
                  e \notin Soft[request[r].route] /\ e \in fallen
  <2>1. CASE e = d
    BY <2>1, <1>2, <1>3, <1>6, <1>8
  <2>2. CASE e # d
    BY <2>2, <1>1, <1>2 DEF HandlingInv
  <2>. QED
    BY <2>1, <2>2
<1>10. HandlingInv(r)'
  <2>1. /\ Probing(r)' = Probing(r) /\ RequestId(r)' = RequestId(r)
        /\ AwayFor(r)' = AwayFor(r) /\ UNCHANGED <<met, fallen>>
        /\ \A e : Met(r, e)' = Met(r, e)
        /\ \A e : Missed(r, e)' = Missed(r, e)
    BY DEF Check, Probing, RequestId, Met, Missed, AwayFor, away, world
  <2>. QED
    BY <2>1, <1>1, <1>9 DEF Check, HandlingInv
<1>11. RequestInv(r)'
  BY <1>1, <1>10 DEF Check, PipelineInv, RequestInv
<1>12. \A q \in Requests \ {r} : SameRequest(q) /\ met'[q] = met[q]
  BY <1>2 DEF Check, SameRequest
<1>. QED
  BY <1>5, <1>11, <1>12, OthersKept DEF Check, PipelineInv

\* A request that was answered after its handler.
LEMMA OutcomeKeeps ==
    ASSUME PipelineInv, NEW r \in Requests, Handled(r), NEW response \in Answers(r),
           Respond(r, response),
           UNCHANGED <<request, hits, world, met>>,
           BagToSet(counter') \subseteq Routes \X {200, 201},
           response.header = RequestId(r),
           response.status < 400 => response.meta = RequestId(r),
           Probing(r) =>
             /\ response.status = 200 => \A d \in Needed(r) : Met(r, d)
             /\ response.status # 200 =>
                  \E d \in Needed(r) \intersect fallen : Missed(r, d)
             /\ \A d \in response.degraded : Missed(r, d)
    PROVE  PipelineInv'
<1>1. Shapes'
  BY Responds DEF PipelineInv, Shapes, WorldShapes, world
<1>2. /\ RequestId(r)' = RequestId(r) /\ Probing(r)' = Probing(r)
      /\ Needed(r)' = Needed(r) /\ UNCHANGED <<met, fallen>>
      /\ \A d : Met(r, d)' = Met(r, d)
      /\ \A d : Missed(r, d)' = Missed(r, d)
  BY DEF RequestId, Probing, Needed, Met, Missed, world
<1>3. answer'[r] = response /\ phase'[r] = "answered" /\ checks'[r] = NoChecks
  BY Responds
<1>4. met[r] # {}
  BY DEF Handled, PipelineInv, RequestInv, HandlingInv
<1>5. AnsweredInv(r)'
  BY <1>2, <1>3, <1>4 DEF AnsweredInv
<1>6. RequestInv(r)'
  BY <1>3, <1>5 DEF PipelineInv, RequestInv, Handled
<1>7. \A q \in Requests \ {r} : SameRequest(q) /\ met'[q] = met[q]
  BY Responds DEF SameRequest
<1>. QED
  BY <1>1, <1>6, <1>7, OthersKept DEF PipelineInv

\* The counter grows by one entry.
LEMMA RecordCounts ==
    ASSUME NEW r \in Requests, recordHttpRequest(r),
           BagToSet(counter) \subseteq Routes \X {200, 201},
           request[r].route \in Routes, context[r].status \in {200, 201}
    PROVE  BagToSet(counter') \subseteq Routes \X {200, 201}
<1>. DEFINE e == <<request[r].route, context[r].status>>
<1>1. BagToSet(counter') = BagToSet(counter) \union {e}
  BY DEF recordHttpRequest, BagToSet, SetToBag, (+)
<1>. QED
  BY <1>1

LEMMA ReturnKeeps ==
    ASSUME PipelineInv, NEW r \in Requests, Return(r)
    PROVE  PipelineInv'
<1>. DEFINE degraded == {d \in Dependencies : checks[r][d] = "degraded"}
            response == [status |-> context[r].status, header |-> context[r].header,
                         meta |-> context[r].meta, degraded |-> degraded]
<1>1. /\ phase[r] = "handling" /\ HandlingInv(r) /\ request[r].route \in AllRoutes
      /\ request[r].route \in Routes /\ RequestId(r) \in Ids(r)
  BY AskedIsAsked DEF Return, Handled, PipelineInv, RequestInv
<1>2. context[r].status \in {200, 201} /\ (Probing(r) => context[r].status = 200)
  BY <1>1 DEF HandlingInv, SuccessStatus, Probing, Probes, Checked
<1>3. degraded \subseteq {"redis", "nats"}
  <2>1. request[r].route \in {"live", "ready", "health"} \/ ~Probing(r)
    BY DEF Probing, Probes, Checked
  <2>. QED
    BY <1>1, <2>1 DEF HandlingInv, Soft
<1>4. response \in Answers(r)
  BY <1>1, <1>2, <1>3 DEF HandlingInv, Answers
<1>5. BagToSet(counter') \subseteq Routes \X {200, 201}
  <2>1. recordHttpRequest(r) /\ BagToSet(counter) \subseteq Routes \X {200, 201}
    BY DEF Return, RecordResult, PipelineInv, Shapes
  <2>. QED
    BY <1>1, <1>2, <2>1, RecordCounts
<1>6. ASSUME Probing(r)
      PROVE  /\ \A d \in Needed(r) : Met(r, d)
             /\ \A d \in degraded : Missed(r, d)
  <2>1. \A d \in Dependencies : checks[r][d] \notin {"called", "rejected", "down"}
    BY <1>6 DEF Return, Thrown, Handled, Outcomes
  <2>2. \A d \in Needed(r) : d \in Dependencies /\ d \notin Soft[request[r].route]
    BY <1>6 DEF Needed, Linked, Probing, Probes, Checked, Soft, Dependencies
  <2>3. ASSUME NEW d \in Needed(r)
        PROVE  checks[r][d] = "up"
    <3>1. d \in Dependencies /\ checks[r][d] \in Results
      BY <2>2 DEF PipelineInv, Shapes
    <3>2. checks[r][d] \notin {"none", "degraded"}
      BY <1>1, <1>6, <2>2, <3>1 DEF HandlingInv, Needed
    <3>. QED
      BY <2>1, <3>1, <3>2 DEF Results
  <2>. QED
    BY <1>1, <2>2, <2>3 DEF HandlingInv
<1>. QED
  <2>1. Respond(r, response)
    BY DEF Return, Envelope
  <2>2. response.header = RequestId(r) /\ response.meta = RequestId(r)
        /\ response.status = context[r].status /\ response.degraded = degraded
    BY <1>1 DEF HandlingInv
  <2>. HIDE DEF response, degraded
  <2>. QED
    BY <1>2, <1>4, <1>5, <1>6, <2>1, <2>2, OutcomeKeeps DEF Return

LEMMA ThrownStatus ==
    ASSUME PipelineInv, NEW r \in Requests, phase[r] = "handling", NEW exception \in Thrown(r)
    PROVE  StatusOf(exception) \in {400, 404, 500, 503}
<1>1. HandlingInv(r) /\ request[r].route \in AllRoutes
  BY AskedIsAsked DEF PipelineInv, RequestInv
<1>2. exception \in {"BadRequestException", "NotFoundException", "P2000", "Error",
                    "ServiceUnavailableException"}
  BY <1>1 DEF HandlingInv, Thrown, Throws, Probing, Probes, Checked, AllRoutes
<1>. QED
  BY <1>2 DEF StatusOf

LEMMA ThrowKeeps ==
    ASSUME PipelineInv, NEW r \in Requests, Throw(r)
    PROVE  PipelineInv'
<1>1. /\ phase[r] = "handling" /\ HandlingInv(r) /\ request[r].route \in AllRoutes
      /\ request[r].route \in Routes /\ RequestId(r) \in Ids(r)
  BY AskedIsAsked DEF Throw, Handled, PipelineInv, RequestInv
<1>2. PICK exception \in Thrown(r) : Catch(r, exception)
  BY DEF Throw
<1>3. context[r].status \in {200, 201}
  BY <1>1 DEF HandlingInv, SuccessStatus
<1>4. BagToSet(counter') \subseteq Routes \X {200, 201}
  <2>1. recordHttpRequest(r) /\ BagToSet(counter) \subseteq Routes \X {200, 201}
    BY DEF Throw, RecordError, PipelineInv, Shapes
  <2>. QED
    BY <1>1, <1>3, <2>1, RecordCounts
<1>6. StatusOf(exception) \in {400, 404, 500, 503}
  BY <1>1, ThrownStatus
<1>7. ASSUME Probing(r)
      PROVE  \E d \in Needed(r) \intersect fallen : Missed(r, d)
  <2>1. PICK d \in Dependencies : checks[r][d] \in {"rejected", "down"}
    BY <1>7 DEF Thrown, Outcomes
  <2>2. d \in Checked[request[r].route] /\ d \notin Soft[request[r].route]
        /\ d \in fallen /\ Missed(r, d)
    BY <1>1, <1>7, <2>1 DEF HandlingInv
  <2>3. d \in Needed(r)
    BY <1>7, <2>2 DEF Needed, Linked, Probing, Probes, Checked, Soft
  <2>. QED
    BY <2>2, <2>3
<1>. DEFINE response == ErrorResponse(StatusOf(exception), context[r].header)
<1>8. /\ response \in Answers(r)
      /\ response.status = StatusOf(exception) /\ response.header = RequestId(r)
      /\ response.degraded = {}
  BY <1>1, <1>6, ErrorAnswer DEF HandlingInv
<1>9. Respond(r, response)
  BY <1>2 DEF Catch, ErrorResponse
<1>. HIDE DEF response
<1>. QED
  <2>1. Handled(r) /\ UNCHANGED <<request, hits, world, met>>
    BY DEF Throw
  <2>2. ~(response.status < 400) /\ response.status # 200
    BY <1>6, <1>8
  <2>3. Probing(r) =>
          /\ response.status = 200 => \A d \in Needed(r) : Met(r, d)
          /\ response.status # 200 => \E d \in Needed(r) \intersect fallen : Missed(r, d)
          /\ \A d \in response.degraded : Missed(r, d)
    BY <1>7, <1>8, <2>2
  <2>. QED
    BY <1>4, <1>8, <1>9, <2>1, <2>2, <2>3, OutcomeKeeps

-----------------------------------------------------------------------------
(* The dependencies and the connections to them *)

LEMMA MeetKeeps ==
    ASSUME PipelineInv, Meet, WorldShapes', WorldInv', fallen \subseteq fallen'
    PROVE  PipelineInv'
<1>1. ASSUME NEW r \in Requests
      PROVE  /\ met'[r] = IF phase[r] = "handling" THEN met[r] \union {AwayFor(r)'} ELSE met[r]
             /\ AwayFor(r)' \in SUBSET Dependencies
             /\ SameRequest(r)
  BY DEF Meet, SameRequest, AwayFor, away, Linked, Dependencies
<1>2. met' \in [Requests -> SUBSET SUBSET Dependencies]
  <2>1. ASSUME NEW r \in Requests
        PROVE  met'[r] \in SUBSET SUBSET Dependencies
    <3>1. PICK next \in SUBSET Dependencies : next = AwayFor(r)'
      BY <1>1
    <3>2. met'[r] = IF phase[r] = "handling" THEN met[r] \union {next} ELSE met[r]
      BY <1>1, <3>1
    <3>3. met[r] \in SUBSET SUBSET Dependencies
      BY DEF PipelineInv, Shapes
    <3>. QED
      BY <3>2, <3>3
  <2>2. DOMAIN met' = Requests /\ met' = [r \in DOMAIN met' |-> met'[r]]
    BY DEF Meet
  <2>. QED
    BY <2>1, <2>2
<1>3. Shapes'
  BY <1>2 DEF Meet, PipelineInv, Shapes
<1>4. \A r \in Requests : RequestInv(r)'
  BY <1>1, RequestKept
<1>. QED
  BY <1>3, <1>4 DEF PipelineInv

LEMMA FailKeeps ==
    ASSUME PipelineInv, NEW d \in Unreliable, Fail(d)
    PROVE  PipelineInv'
<1>1. MaxOutages \in Nat /\ Unreliable \subseteq Dependencies
  BY HttpAssumption
<1>2. WorldShapes'
  BY <1>1 DEF Fail, PipelineInv, Shapes, WorldShapes
<1>3. WorldInv' /\ fallen \subseteq fallen'
  BY DEF Fail, PipelineInv, WorldInv
<1>. QED
  BY <1>2, <1>3, MeetKeeps DEF Fail

LEMMA RecoverKeeps ==
    ASSUME PipelineInv, NEW d \in Unreliable, Recover(d)
    PROVE  PipelineInv'
<1>1. WorldShapes'
  BY HttpAssumption DEF Recover, PipelineInv, Shapes, WorldShapes
<1>2. WorldInv' /\ fallen \subseteq fallen'
  BY DEF Recover, PipelineInv, WorldInv
<1>. QED
  BY <1>1, <1>2, MeetKeeps DEF Recover

\* A connection changes, and that to NATS is lost only in an outage.
LEMMA RelinkKeeps ==
    ASSUME PipelineInv, NEW d \in Linked, NEW from,
           NEW to \in {"none", "open", "lost", "closed"}, Relink(d, from, to),
           d = "nats" /\ to \in {"lost", "closed"} => "nats" \notin up
    PROVE  PipelineInv'
<1>1. WorldShapes'
  BY DEF Relink, PipelineInv, Shapes, WorldShapes
<1>2. WorldInv'
  <2>1. link'["nats"] = IF d = "nats" THEN to ELSE link["nats"]
    BY DEF Relink, Linked, PipelineInv, Shapes, WorldShapes
  <2>2. "nats" \notin up => "nats" \in fallen
    BY DEF PipelineInv, WorldInv, Dependencies
  <2>. QED
    BY <2>1, <2>2 DEF Relink, PipelineInv, WorldInv
<1>3. fallen \subseteq fallen' /\ Meet
  BY DEF Relink
<1>. QED
  BY <1>1, <1>2, <1>3, MeetKeeps

LEMMA LinkKeeps ==
    ASSUME PipelineInv, (\E d \in Linked : Lose(d) \/ Regain(d)) \/ Connect \/ GiveUp
    PROVE  PipelineInv'
<1>1. "nats" \in Linked
  BY DEF Linked
<1>2. ASSUME NEW d \in Linked, Lose(d)
      PROVE  PipelineInv'
  BY <1>2, RelinkKeeps DEF Lose
<1>3. ASSUME NEW d \in Linked, Regain(d)
      PROVE  PipelineInv'
  BY <1>3, RelinkKeeps DEF Regain
<1>4. ASSUME Connect
      PROVE  PipelineInv'
  BY <1>1, <1>4, RelinkKeeps DEF Connect
<1>5. ASSUME GiveUp
      PROVE  PipelineInv'
  BY <1>1, <1>5, RelinkKeeps DEF GiveUp
<1>. QED
  BY <1>2, <1>3, <1>4, <1>5

\* A step that changes no request.
LEMMA NoneChanged ==
    ASSUME PipelineInv, UNCHANGED world,
           \A r \in Requests : SameRequest(r) /\ met'[r] = met[r]
    PROVE  WorldInv' /\ \A r \in Requests : RequestInv(r)'
<1>1. PICK r : r \notin Requests
  BY NoSetContainsEverything
<1>. QED
  BY <1>1, OthersKept

LEMMA HitExpiresKeeps ==
    ASSUME PipelineInv, NEW p \in Clients \X Routes, HitExpires(p)
    PROVE  PipelineInv'
<1>1. Shapes'
  <2>1. hits \in [Clients \X Routes -> 0 .. Limit] /\ Limit \in Nat
    BY HttpAssumption DEF PipelineInv, Shapes
  <2>2. hits' \in [Clients \X Routes -> 0 .. Limit]
    BY <2>1 DEF HitExpires
  <2>. QED
    BY <2>2 DEF HitExpires, PipelineInv, Shapes, WorldShapes, world
<1>2. UNCHANGED world /\ \A r \in Requests : SameRequest(r) /\ met'[r] = met[r]
  BY DEF HitExpires, SameRequest
<1>. QED
  BY <1>1, <1>2, NoneChanged DEF PipelineInv

LEMMA PipelineInit ==
    ASSUME Init
    PROVE  PipelineInv
<1>. USE DEF Init
<1>1. \A r \in Requests : NoContext \in Contexts(r) /\ NoAnswer \in Answers(r)
  BY DEF NoContext, NoAnswer, Contexts, Answers, Ids
<1>2. NoChecks \in [Dependencies -> Results]
  BY DEF NoChecks, Results
<1>3. BagToSet(counter) = {}
  BY DEF EmptyBag, SetToBag, BagToSet
<1>4. WorldShapes /\ WorldInv
  BY HttpAssumption DEF WorldShapes, WorldInv, Linked
<1>5. Shapes
  <2>1. hits \in [Clients \X Routes -> 0 .. Limit]
    BY HttpAssumption
  <2>2. /\ context = [r \in Requests |-> context[r]] /\ answer = [r \in Requests |-> answer[r]]
        /\ \A r \in Requests : context[r] \in Contexts(r) /\ answer[r] \in Answers(r)
    BY <1>1
  <2>3. checks \in [Requests -> [Dependencies -> Results]]
    BY <1>2
  <2>4. /\ request \in [Requests -> Sent \union {NoRequest}]
        /\ phase \in [Requests -> {"none", "arrived", "handling", "answered"}]
        /\ met \in [Requests -> SUBSET SUBSET Dependencies]
    OBVIOUS
  <2>. QED
    BY <1>3, <1>4, <2>1, <2>2, <2>3, <2>4 DEF Shapes
<1>6. \A r \in Requests : RequestInv(r)
  BY DEF RequestInv
<1>. QED
  BY <1>4, <1>5, <1>6 DEF PipelineInv

-----------------------------------------------------------------------------
(* The specification *)

LEMMA PipelineNext ==
    ASSUME PipelineInv, [Next]_vars
    PROVE  PipelineInv'
<1>1. ASSUME NEW r \in Requests, NoRoute(r)
      PROVE  PipelineInv'
  BY <1>1, RefusalKeeps DEF NoRoute
<1>2. ASSUME NEW r \in Requests, Throttle(r)
      PROVE  PipelineInv'
  BY <1>2, RefusalKeeps DEF Throttle
<1>3. CASE UNCHANGED vars
  <2>1. UNCHANGED world /\ \A r \in Requests : SameRequest(r) /\ met'[r] = met[r]
    BY <1>3 DEF vars, SameRequest
  <2>2. Shapes'
    BY <1>3 DEF vars, PipelineInv, Shapes, WorldShapes, world
  <2>. QED
    BY <2>1, <2>2, NoneChanged DEF PipelineInv
<1>. QED
  BY <1>1, <1>2, <1>3, ArriveKeeps, AdmitKeeps, CheckKeeps, ReturnKeeps, ThrowKeeps,
     HitExpiresKeeps, FailKeeps, RecoverKeeps, LinkKeeps DEF Next, Progress

\* What is known of a request at every stage of its way: the ids the interceptors of
\* bootstrap() gave it, and for every check of a probe that ended that it has met its
\* dependency in reach, or out of reach.
THEOREM PipelineInvariant == Spec => []PipelineInv
<1>. QED
  BY PipelineInit, PipelineNext, PTL DEF Spec

\* The types: what the interceptors keep of a request is its own, a status of the
\* response is one the filter or Nest gives, no count of the throttler passes the limit.
THEOREM HttpTypeCorrect == Spec => []TypeOK
<1>1. PipelineInv => TypeOK
  <2>. SUFFICES ASSUME PipelineInv
                PROVE  TypeOK
    OBVIOUS
  <2>1. \A r \in Requests : context[r] \in Contexts(r) /\ answer[r] \in Answers(r)
    BY DEF PipelineInv, Shapes
  <2>. QED
    BY <2>1 DEF PipelineInv, Shapes, WorldShapes, TypeOK, Contexts, Answers, Ids, Results
<1>. QED
  BY <1>1, PipelineInvariant, PTL

\* Every response to a request that passed the guard carries the id of RequestIdInterceptor
\* in its header, also from GlobalExceptionFilter, and the same id in its envelope.
THEOREM RequestsAreTraceable == Spec => []Traceable
<1>1. PipelineInv => Traceable
  BY DEF PipelineInv, Traceable, RequestInv, AnsweredInv, Admitted, Answered, RequestId
<1>. QED
  BY <1>1, PipelineInvariant, PTL

\* However often dependencies and connections fail and return between the checks of
\* HealthController, a probe succeeds only after it has met each dependency it needs in
\* reach.  It fails only for one it has met out of reach, through a connection that an
\* outage cost if not in an outage.
THEOREM ProbesTellTheTruth == Spec => []ProbesAreTrue
<1>1. PipelineInv => ProbesAreTrue
  <2>. SUFFICES ASSUME PipelineInv, NEW r \in Requests,
                       Probing(r), Admitted(r), Answered(r)
                PROVE  /\ answer[r].status = 200 =>
                            \A d \in Needed(r) : \E a \in met[r] : d \notin a
                       /\ answer[r].status # 200 =>
                            \E d \in Needed(r) \intersect fallen, a \in met[r] : d \in a
                       /\ \A d \in answer[r].degraded : \E a \in met[r] : d \in a
    BY DEF ProbesAreTrue
  <2>1. AnsweredInv(r)
    BY DEF PipelineInv, RequestInv, Admitted, Answered
  <2>. QED
    BY <2>1 DEF AnsweredInv, Met, Missed
<1>. QED
  BY <1>1, PipelineInvariant, PTL

-----------------------------------------------------------------------------
(* The throttler *)

\* The requests that were let through under a key, and those that would have one key.
AdmittedOf(p) == {q \in Requests : Admitted(q) /\ Key(q) = p}

Alike(r) ==
    {q \in Requests : request[q].client = request[r].client
                        /\ request[q].route = request[r].route}

\* Each hit was one request's, so that a count at the limit means that many requests.
QuotaInv ==
    /\ \A p \in Clients \X Routes : hits[p] <= Cardinality(AdmittedOf(p))
    /\ \A r \in Requests :
         /\ phase[r] = "none" => request[r] = NoRequest
         /\ answer[r].status = 429 => phase[r] = "answered" /\ Cardinality(Alike(r)) > Limit

LEMMA Finite ==
    /\ \A p : IsFiniteSet(AdmittedOf(p)) /\ Cardinality(AdmittedOf(p)) \in Nat
    /\ \A r : IsFiniteSet(Alike(r)) /\ Cardinality(Alike(r)) \in Nat
<1>1. /\ \A p : AdmittedOf(p) \subseteq Requests
      /\ \A r : Alike(r) \subseteq Requests
  BY DEF AdmittedOf, Alike
<1>. QED
  BY <1>1, HttpAssumption, FS_Subset, FS_CardinalityType

LEMMA LargerSet ==
    ASSUME NEW S \in SUBSET Requests, NEW T \in SUBSET Requests, S \subseteq T
    PROVE  /\ Cardinality(S) \in Nat /\ Cardinality(T) \in Nat
           /\ Cardinality(S) <= Cardinality(T)
<1>1. IsFiniteSet(T) /\ IsFiniteSet(S)
  BY HttpAssumption, FS_Subset
<1>. QED
  BY <1>1, FS_Subset, FS_CardinalityType

\* A step that lets no request through.
LEMMA HitsCovered ==
    ASSUME PipelineInv, PipelineInv', QuotaInv,
           \A p \in Clients \X Routes : hits'[p] <= hits[p],
           \A q \in Requests : Admitted(q) => Admitted(q)' /\ request'[q] = request[q]
    PROVE  \A p \in Clients \X Routes : hits'[p] <= Cardinality(AdmittedOf(p)')
<1>1. TAKE p \in Clients \X Routes
<1>2. hits[p] \in Int /\ hits'[p] \in Int /\ hits[p] <= Cardinality(AdmittedOf(p))
  BY HttpAssumption DEF PipelineInv, Shapes, QuotaInv
<1>3. AdmittedOf(p) \subseteq AdmittedOf(p)' /\ AdmittedOf(p)' \subseteq Requests
  BY DEF AdmittedOf, Key
<1>4. Cardinality(AdmittedOf(p)) \in Nat /\ Cardinality(AdmittedOf(p)') \in Nat
      /\ Cardinality(AdmittedOf(p)) <= Cardinality(AdmittedOf(p)')
  BY <1>3, LargerSet
<1>. QED
  BY <1>2, <1>4

\* A refusal stays justified: the requests of one key become more.
LEMMA RefusalsCovered ==
    ASSUME PipelineInv, QuotaInv,
           \A q \in Requests : phase[q] # "none" => request'[q] = request[q],
           \A q \in Requests :
             phase'[q] = "none" => phase[q] = "none" /\ request'[q] = request[q],
           \A q \in Requests :
             answer'[q].status = 429 =>
               /\ phase'[q] = "answered" /\ phase[q] # "none"
               /\ answer[q].status = 429 \/ Cardinality(Alike(q)) > Limit
    PROVE  \A r \in Requests :
             /\ phase'[r] = "none" => request'[r] = NoRequest
             /\ answer'[r].status = 429 =>
                  phase'[r] = "answered" /\ Cardinality(Alike(r)') > Limit
<1>1. TAKE r \in Requests
<1>2. phase'[r] = "none" => request'[r] = NoRequest
  BY DEF QuotaInv
<1>3. ASSUME answer'[r].status = 429
      PROVE  phase'[r] = "answered" /\ Cardinality(Alike(r)') > Limit
  <2>1. phase[r] # "none" /\ phase'[r] = "answered" /\ Cardinality(Alike(r)) > Limit
    BY <1>3 DEF QuotaInv
  <2>2. request[r].route \in AllRoutes /\ request'[r] = request[r]
    BY <2>1, AskedIsAsked
  <2>3. NoRequest.route \notin AllRoutes
    BY DEF NoRequest, AllRoutes, Probes, Checked, Throws
  <2>4. \A q \in Alike(r) : phase[q] # "none"
    BY <2>2, <2>3 DEF QuotaInv, Alike
  <2>5. Alike(r) \subseteq Alike(r)' /\ Alike(r)' \subseteq Requests
    BY <2>2, <2>4 DEF Alike
  <2>6. /\ Cardinality(Alike(r)) \in Nat /\ Cardinality(Alike(r)') \in Nat
        /\ Cardinality(Alike(r)) <= Cardinality(Alike(r)')
    BY <2>5, LargerSet
  <2>. QED
    BY <2>1, <2>6, HttpAssumption
<1>. QED
  BY <1>2, <1>3

\* An answer is a refusal only if the key's requests are too many.
LEMMA AnswerCovered ==
    ASSUME PipelineInv, PipelineInv', QuotaInv, NEW r \in Requests, phase[r] # "none",
           NEW response, Respond(r, response), UNCHANGED <<request, hits>>,
           UNCHANGED met,
           response.status = 429 => Cardinality(Alike(r)) > Limit
    PROVE  QuotaInv'
<1>1. \A p \in Clients \X Routes : hits'[p] <= Cardinality(AdmittedOf(p)')
  <2>1. \A p \in Clients \X Routes : hits'[p] <= hits[p]
    BY HttpAssumption DEF PipelineInv, Shapes
  <2>. QED
    BY <2>1, HitsCovered DEF Admitted
<1>2. /\ phase'[r] = "answered" /\ answer'[r] = response
      /\ \A q \in Requests \ {r} : phase'[q] = phase[q] /\ answer'[q] = answer[q]
  BY DEF Respond, PipelineInv, Shapes
<1>3. \A q \in Requests :
        answer'[q].status = 429 =>
          /\ phase'[q] = "answered" /\ phase[q] # "none"
          /\ answer[q].status = 429 \/ Cardinality(Alike(q)) > Limit
  BY <1>2 DEF QuotaInv
<1>4. \A q \in Requests : phase'[q] = "none" => phase[q] = "none"
  BY <1>2
<1>. QED
  BY <1>1, <1>3, <1>4, RefusalsCovered DEF QuotaInv

LEMMA ErrorCovered ==
    ASSUME PipelineInv, PipelineInv', QuotaInv, NEW r \in Requests, phase[r] # "none",
           NEW exception, Catch(r, exception), UNCHANGED <<request, hits>>,
           UNCHANGED met,
           StatusOf(exception) = 429 => Cardinality(Alike(r)) > Limit
    PROVE  QuotaInv'
<1>. DEFINE response == [NoAnswer EXCEPT !.status = StatusOf(exception),
                                         !.header = context[r].header]
<1>1. response.status = StatusOf(exception)
  BY DEF NoAnswer
<1>2. Respond(r, response)
  BY DEF Catch
<1>. HIDE DEF response
<1>. QED
  BY <1>1, <1>2, AnswerCovered

LEMMA ThrottleCovered ==
    ASSUME PipelineInv, PipelineInv', QuotaInv, NEW r \in Requests, Throttle(r)
    PROVE  QuotaInv'
<1>1. phase[r] = "arrived" /\ Key(r) \in Clients \X Routes /\ ~Admitted(r)
  BY AskedIsAsked DEF Throttle, PipelineInv, RequestInv, Admitted
<1>2. Cardinality(Alike(r)) > Limit
  <2>1. /\ AdmittedOf(Key(r)) \union {r} \subseteq Alike(r)
        /\ AdmittedOf(Key(r)) \union {r} \in SUBSET Requests /\ Alike(r) \in SUBSET Requests
        /\ r \notin AdmittedOf(Key(r))
    BY <1>1 DEF AdmittedOf, Alike, Key
  <2>2. Cardinality(AdmittedOf(Key(r)) \union {r}) = Cardinality(AdmittedOf(Key(r))) + 1
    BY <2>1, Finite, FS_AddElement
  <2>3. Limit <= hits[Key(r)] /\ hits[Key(r)] \in Int /\ Limit \in Nat
        /\ hits[Key(r)] <= Cardinality(AdmittedOf(Key(r)))
    BY <1>1, HttpAssumption DEF Throttle, Allowed, PipelineInv, Shapes, QuotaInv
  <2>4. Cardinality(AdmittedOf(Key(r)) \union {r}) <= Cardinality(Alike(r))
    BY <2>1, LargerSet
  <2>. QED
    BY <2>2, <2>3, <2>4, Finite
<1>. QED
  BY <1>1, <1>2, ErrorCovered DEF Throttle

LEMMA AdmitCovered ==
    ASSUME PipelineInv, PipelineInv', QuotaInv, NEW r \in Requests, Admit(r)
    PROVE  QuotaInv'
<1>1. /\ phase[r] = "arrived" /\ Key(r) \in Clients \X Routes /\ ~Admitted(r)
  BY AskedIsAsked DEF Admit, PipelineInv, Shapes, RequestInv, Admitted
<1>2. Admitted(r)' /\ \A q \in Requests \ {r} : Admitted(q)' = Admitted(q)
  BY <1>1 DEF Admit, Admitted, PipelineInv, Shapes
<1>3. \A q \in Requests : Key(q)' = Key(q)
  BY DEF Admit, Key
<1>4. ASSUME NEW p \in Clients \X Routes
      PROVE  hits'[p] <= Cardinality(AdmittedOf(p)')
  <2>1. hits[p] \in Int /\ hits[p] <= Cardinality(AdmittedOf(p))
    BY HttpAssumption DEF PipelineInv, Shapes, QuotaInv
  <2>2. CASE p = Key(r)
    <3>1. AdmittedOf(p)' = AdmittedOf(p) \union {r} /\ r \notin AdmittedOf(p)
      BY <1>1, <1>2, <1>3, <2>2 DEF AdmittedOf
    <3>2. Cardinality(AdmittedOf(p)') = Cardinality(AdmittedOf(p)) + 1
      BY <3>1, Finite, FS_AddElement
    <3>3. hits'[p] = hits[p] + 1
      BY <1>1, <2>2 DEF Admit, PipelineInv, Shapes
    <3>. QED
      BY <2>1, <3>2, <3>3, Finite
  <2>3. CASE p # Key(r)
    <3>1. AdmittedOf(p)' = AdmittedOf(p)
      BY <1>1, <1>2, <1>3, <2>3 DEF AdmittedOf
    <3>2. hits'[p] = hits[p]
      BY <2>3 DEF Admit, PipelineInv, Shapes
    <3>. QED
      BY <2>1, <3>1, <3>2
  <2>. QED
    BY <2>2, <2>3
<1>5. /\ UNCHANGED <<request, answer>> /\ phase'[r] = "handling"
      /\ \A q \in Requests \ {r} : phase'[q] = phase[q]
  BY DEF Admit, PipelineInv, Shapes
<1>6. \A q \in Requests :
        answer'[q].status = 429 =>
          /\ phase'[q] = "answered" /\ phase[q] # "none" /\ answer[q].status = 429
  BY <1>1, <1>5 DEF QuotaInv
<1>7. \A q \in Requests : phase'[q] = "none" => phase[q] = "none"
  BY <1>5
<1>. QED
  BY <1>4, <1>5, <1>6, <1>7, RefusalsCovered DEF QuotaInv

LEMMA ArriveCovered ==
    ASSUME PipelineInv, PipelineInv', QuotaInv, NEW r \in Requests, NEW asked \in Sent,
           Arrive(r, asked)
    PROVE  QuotaInv'
<1>1. /\ phase[r] = "none" /\ phase'[r] = "arrived" /\ ~Admitted(r)
      /\ \A q \in Requests \ {r} : phase'[q] = phase[q] /\ request'[q] = request[q]
      /\ UNCHANGED <<answer, hits, met>>
  BY DEF Arrive, PipelineInv, Shapes, RequestInv, Admitted
<1>2. \A p \in Clients \X Routes : hits'[p] <= Cardinality(AdmittedOf(p)')
  <2>1. \A p \in Clients \X Routes : hits'[p] <= hits[p]
    BY <1>1, HttpAssumption DEF PipelineInv, Shapes
  <2>2. \A q \in Requests : Admitted(q) => Admitted(q)' /\ request'[q] = request[q]
    BY <1>1 DEF Admitted
  <2>. QED
    BY <2>1, <2>2, HitsCovered
<1>3. \A q \in Requests :
        answer'[q].status = 429 =>
          /\ phase'[q] = "answered" /\ phase[q] # "none" /\ answer[q].status = 429
  BY <1>1 DEF QuotaInv
<1>. QED
  BY <1>1, <1>2, <1>3, RefusalsCovered DEF QuotaInv

LEMMA OthersCovered ==
    ASSUME PipelineInv, PipelineInv', QuotaInv, UNCHANGED <<request, phase, answer>>,
           \A q \in Requests : Admitted(q) => Admitted(q)',
           \A p \in Clients \X Routes : hits'[p] <= hits[p]
    PROVE  QuotaInv'
<1>1. \A p \in Clients \X Routes : hits'[p] <= Cardinality(AdmittedOf(p)')
  BY HitsCovered
<1>2. \A r \in Requests : Alike(r)' = Alike(r)
  BY DEF Alike
<1>. QED
  BY <1>1, <1>2 DEF QuotaInv

WorldStep ==
    \/ \E d \in Unreliable : Fail(d) \/ Recover(d)
    \/ \E d \in Linked : Lose(d) \/ Regain(d)
    \/ Connect \/ GiveUp

\* All that happens to dependencies and connections, the requests just meet.
LEMMA WorldMeets == WorldStep => Meet
<1>. QED
  BY DEF WorldStep, Fail, Recover, Lose, Regain, Connect, GiveUp, Relink

LEMMA QuotaNext ==
    ASSUME PipelineInv, PipelineInv', QuotaInv, [Next]_vars
    PROVE  QuotaInv'
<1>1. \A p \in Clients \X Routes : hits[p] \in Int
  BY HttpAssumption DEF PipelineInv, Shapes
<1>2. ASSUME NEW r \in Requests, NoRoute(r)
      PROVE  QuotaInv'
  <2>1. StatusOf("NotFoundException") # 429
    BY DEF StatusOf
  <2>. QED
    BY <1>2, <2>1, ErrorCovered DEF NoRoute
<1>3. ASSUME NEW r \in Requests, Return(r)
      PROVE  QuotaInv'
  <2>1. phase[r] = "handling" /\ HandlingInv(r)
    BY <1>3 DEF Return, Handled, PipelineInv, RequestInv
  <2>2. context[r].status # 429
    BY <2>1 DEF HandlingInv, SuccessStatus
  <2>. QED
    BY <1>3, <2>1, <2>2, AnswerCovered DEF Return, Envelope
<1>4. ASSUME NEW r \in Requests, Throw(r)
      PROVE  QuotaInv'
  <2>1. PICK exception \in Thrown(r) : Catch(r, exception)
    BY <1>4 DEF Throw
  <2>2. phase[r] = "handling" /\ UNCHANGED <<request, hits, met>>
    BY <1>4 DEF Throw, Handled
  <2>3. StatusOf(exception) # 429
    BY <2>2, ThrownStatus
  <2>. QED
    BY <2>1, <2>2, <2>3, ErrorCovered
<1>5. ASSUME NEW r \in Requests, NEW d \in Dependencies, Check(r, d)
      PROVE  QuotaInv'
  BY <1>1, <1>5, OthersCovered DEF Check, Admitted
<1>6. ASSUME NEW p \in Clients \X Routes, HitExpires(p)
      PROVE  QuotaInv'
  <2>1. \A q \in Clients \X Routes : hits'[q] <= hits[q]
    BY <1>1, <1>6 DEF HitExpires, PipelineInv, Shapes
  <2>. QED
    BY <1>6, <2>1, OthersCovered DEF HitExpires, Admitted
<1>7. ASSUME Meet
      PROVE  QuotaInv'
  <2>1. \A q \in Requests : Admitted(q) => Admitted(q)'
    BY <1>7 DEF Meet, Admitted
  <2>. QED
    BY <1>1, <1>7, <2>1, OthersCovered DEF Meet
<1>8. CASE UNCHANGED vars
  BY <1>1, <1>8, OthersCovered DEF vars, Admitted
<1>. QED
  BY <1>2, <1>3, <1>4, <1>5, <1>6, <1>7, <1>8, WorldMeets, ArriveCovered, ThrottleCovered,
     AdmitCovered DEF Next, Progress, WorldStep

\* ThrottlerGuard refuses a request only when the requests of its client to its handler
\* are more than the limit.
THEOREM RefusedForItsOwn == Spec => []ThrottledAlone
<1>1. Init => QuotaInv
  <2>. SUFFICES ASSUME Init
                PROVE  QuotaInv
    OBVIOUS
  <2>1. \A p : Cardinality(AdmittedOf(p)) \in Nat
    BY Finite
  <2>. QED
    BY <2>1 DEF Init, QuotaInv, NoAnswer
<1>2. PipelineInv /\ PipelineInv' /\ QuotaInv /\ [Next]_vars => QuotaInv'
  BY QuotaNext
<1>3. QuotaInv => ThrottledAlone
  BY DEF QuotaInv, ThrottledAlone, Alike
<1>. QED
  BY <1>1, <1>2, <1>3, PipelineInvariant, PTL DEF Spec

-----------------------------------------------------------------------------
(* The request counter *)

\* The counter's entries and the requests it has to have, which are as many.
CountInv ==
    /\ counter \in [DOMAIN counter -> Nat \ {0}]
    /\ \A route \in Routes :
         /\ IsFiniteSet(Recorded(route))
         /\ Cardinality(Recorded(route)) = Cardinality(Finished(route))

LEMMA FinishedFinite == \A route : IsFiniteSet(Finished(route))
<1>1. \A route : Finished(route) \subseteq Requests
  BY DEF Finished
<1>. QED
  BY <1>1, HttpAssumption, FS_Subset

\* recordHttpRequest adds one copy, to the entries of the request's route alone.
LEMMA RecordAdds ==
    ASSUME CountInv, NEW r \in Requests, recordHttpRequest(r), NEW route
    PROVE  /\ counter' \in [DOMAIN counter' -> Nat \ {0}]
           /\ IF route = request[r].route
              THEN \E copy : /\ copy \notin Recorded(route)
                            /\ Recorded(route)' = Recorded(route) \union {copy}
              ELSE Recorded(route)' = Recorded(route)
<1>. DEFINE e == <<request[r].route, context[r].status>>
            count == IF e \in DOMAIN counter THEN counter[e] ELSE 0
<1>1. /\ DOMAIN counter' = DOMAIN counter \union {e}
      /\ counter'[e] = count + 1
      /\ \A f \in DOMAIN counter \ {e} : counter'[f] = counter[f]
      /\ counter' = [f \in DOMAIN counter' |-> counter'[f]]
  <2>. DEFINE one == SetToBag({e})
  <2>1. DOMAIN one = {e} /\ one[e] = 1
    BY DEF SetToBag
  <2>2. counter' = counter (+) one
    BY DEF recordHttpRequest
  <2>. HIDE DEF e, count, one
  <2>3. counter' = [f \in DOMAIN counter \union DOMAIN one |->
                      (IF f \in DOMAIN counter THEN counter[f] ELSE 0)
                        + (IF f \in DOMAIN one THEN one[f] ELSE 0)]
    BY <2>2 DEF (+)
  <2>4. counter' = [f \in DOMAIN counter \union {e} |->
                      (IF f \in DOMAIN counter THEN counter[f] ELSE 0)
                        + (IF f = e THEN 1 ELSE 0)]
    BY <2>1, <2>3
  <2>5. \A f \in DOMAIN counter : counter[f] \in Nat
    BY DEF CountInv
  <2>. QED
    BY <2>4, <2>5 DEF count
<1>2. count \in Nat /\ \A f \in DOMAIN counter : counter[f] \in Nat \ {0}
  BY DEF CountInv
<1>3. e[1] = request[r].route
  OBVIOUS
<1>. HIDE DEF e, count
<1>4. counter' \in [DOMAIN counter' -> Nat \ {0}]
  BY <1>1, <1>2
<1>5. \A c : c \in Recorded(route) <=>
        \E f \in DOMAIN counter : f[1] = route /\ c \in {f} \X (1 .. counter[f])
  BY DEF Recorded, BagToSet
<1>6. \A c : c \in Recorded(route)' <=>
        \E f \in DOMAIN counter' : f[1] = route /\ c \in {f} \X (1 .. counter'[f])
  BY DEF Recorded, BagToSet
<1>7. CASE route # request[r].route
  <2>1. \A f : f[1] = route => (f \in DOMAIN counter' <=> f \in DOMAIN counter)
    BY <1>1, <1>3, <1>7
  <2>2. \A f \in DOMAIN counter : f[1] = route => counter'[f] = counter[f]
    BY <1>1, <1>3, <1>7
  <2>3. \A c : c \in Recorded(route)' <=> c \in Recorded(route)
    BY <1>5, <1>6, <2>1, <2>2
  <2>4. Recorded(route)' = Recorded(route)
    BY <2>3 DEF Recorded
  <2>. QED
    BY <1>4, <1>7, <2>4
<1>8. CASE route = request[r].route
  <2>1. <<e, count + 1>> \notin Recorded(route)
    BY <1>2, <1>5 DEF count
  <2>2. Recorded(route)' = Recorded(route) \union {<<e, count + 1>>}
    <3>1. ASSUME NEW c, c \in Recorded(route)'
          PROVE  c \in Recorded(route) \union {<<e, count + 1>>}
      <4>1. PICK f \in DOMAIN counter' : f[1] = route /\ c \in {f} \X (1 .. counter'[f])
        BY <1>6, <3>1
      <4>2. PICK i \in 1 .. counter'[f] : c = <<f, i>>
        BY <4>1
      <4>3. CASE f = e
        <5>1. i = count + 1 \/ i \in 1 .. count
          BY <1>1, <1>2, <4>2, <4>3
        <5>2. i \in 1 .. count => e \in DOMAIN counter /\ count = counter[e]
          BY <1>2 DEF count
        <5>. QED
          BY <1>5, <4>1, <4>2, <4>3, <5>1, <5>2
      <4>4. CASE f # e
        BY <1>1, <1>5, <4>1, <4>2, <4>4
      <4>. QED
        BY <4>3, <4>4
    <3>2. ASSUME NEW c, c \in Recorded(route)
          PROVE  c \in Recorded(route)'
      <4>1. PICK f \in DOMAIN counter : f[1] = route /\ c \in {f} \X (1 .. counter[f])
        BY <1>5, <3>2
      <4>2. PICK i \in 1 .. counter[f] : c = <<f, i>>
        BY <4>1
      <4>3. i \in 1 .. counter'[f]
        BY <1>1, <1>2, <4>2 DEF count
      <4>4. c \in {f} \X (1 .. counter'[f]) /\ f \in DOMAIN counter'
        BY <1>1, <4>2, <4>3
      <4>. QED
        BY <1>6, <4>1, <4>4
    <3>3. <<e, count + 1>> \in Recorded(route)'
      <4>1. count + 1 \in 1 .. counter'[e] /\ e \in DOMAIN counter'
        BY <1>1, <1>2
      <4>2. <<e, count + 1>> \in {e} \X (1 .. counter'[e])
        BY <4>1
      <4>. QED
        BY <1>3, <1>6, <1>8, <4>1, <4>2
    <3>. QED
      BY <3>1, <3>2, <3>3
  <2>. QED
    BY <1>4, <1>8, <2>1, <2>2
<1>. QED
  BY <1>7, <1>8

\* A handler that ended, with a result or an error.
LEMMA OutcomeCounted ==
    ASSUME PipelineInv, CountInv, NEW r \in Requests, Handled(r), recordHttpRequest(r),
           phase' = [phase EXCEPT ![r] = "answered"],
           UNCHANGED <<request, met>>
    PROVE  CountInv'
<1>1. /\ phase[r] = "handling" /\ Admitted(r)
      /\ \A q \in Requests : Admitted(q)' = Admitted(q)
  BY DEF Handled, PipelineInv, RequestInv, HandlingInv, Admitted
<1>2. /\ Answered(r)' /\ ~Answered(r)
      /\ \A q \in Requests \ {r} : Answered(q)' = Answered(q)
  BY <1>1 DEF Answered, PipelineInv, Shapes
<1>3. counter' \in [DOMAIN counter' -> Nat \ {0}]
  BY RecordAdds
<1>4. ASSUME NEW route \in Routes
      PROVE  /\ IsFiniteSet(Recorded(route)')
             /\ Cardinality(Recorded(route)') = Cardinality(Finished(route)')
  <2>1. IsFiniteSet(Recorded(route)) /\ IsFiniteSet(Finished(route))
        /\ Cardinality(Recorded(route)) = Cardinality(Finished(route))
    BY FinishedFinite DEF CountInv
  <2>2. CASE route = request[r].route
    <3>1. Finished(route)' = Finished(route) \union {r} /\ r \notin Finished(route)
      BY <1>1, <1>2, <2>2 DEF Finished
    <3>2. PICK copy : /\ copy \notin Recorded(route)
                      /\ Recorded(route)' = Recorded(route) \union {copy}
      BY <2>2, RecordAdds
    <3>3. /\ IsFiniteSet(Recorded(route)')
          /\ Cardinality(Recorded(route)') = Cardinality(Recorded(route)) + 1
      BY <2>1, <3>2, FS_AddElement
    <3>4. Cardinality(Finished(route)') = Cardinality(Finished(route)) + 1
      BY <2>1, <3>1, FS_AddElement
    <3>. QED
      BY <2>1, <3>3, <3>4
  <2>3. CASE route # request[r].route
    <3>1. Finished(route)' = Finished(route)
      BY <1>1, <1>2, <2>3 DEF Finished
    <3>2. Recorded(route)' = Recorded(route)
      BY <2>3, RecordAdds
    <3>. QED
      BY <2>1, <3>1, <3>2
  <2>. QED
    BY <2>2, <2>3
<1>. QED
  BY <1>3, <1>4 DEF CountInv

\* A step of requests that do not finish.
LEMMA NoneCounted ==
    ASSUME CountInv, UNCHANGED counter,
           \A r \in Requests :
             /\ (Admitted(r) /\ Answered(r))' <=> Admitted(r) /\ Answered(r)
             /\ Admitted(r) /\ Answered(r) => request'[r] = request[r]
    PROVE  CountInv'
<1>1. \A route : Finished(route)' = Finished(route)
  BY DEF Finished
<1>2. \A route : Recorded(route)' = Recorded(route)
  BY DEF Recorded
<1>. QED
  BY <1>1, <1>2 DEF CountInv

LEMMA CountNext ==
    ASSUME PipelineInv, CountInv, [Next]_vars
    PROVE  CountInv'
<1>1. ASSUME NEW r \in Requests, NEW asked \in Sent, Arrive(r, asked)
      PROVE  CountInv'
  <2>1. /\ ~Answered(r) /\ ~Answered(r)' /\ UNCHANGED <<met, counter>>
        /\ \A q \in Requests \ {r} : phase'[q] = phase[q] /\ request'[q] = request[q]
    BY <1>1 DEF Arrive, Answered, PipelineInv, Shapes
  <2>. QED
    BY <2>1, NoneCounted DEF Admitted, Answered
<1>2. ASSUME NEW r \in Requests, NoRoute(r) \/ Throttle(r)
      PROVE  CountInv'
  <2>1. /\ phase[r] = "arrived" /\ ~Admitted(r) /\ UNCHANGED <<met, counter, request>>
    BY <1>2 DEF NoRoute, Throttle, PipelineInv, RequestInv, Admitted
  <2>2. \A q \in Requests \ {r} : phase'[q] = phase[q]
    BY <1>2 DEF NoRoute, Throttle, Catch, Respond, PipelineInv, Shapes
  <2>. QED
    BY <2>1, <2>2, NoneCounted DEF Admitted, Answered
<1>3. ASSUME NEW r \in Requests, Admit(r)
      PROVE  CountInv'
  <2>1. /\ ~Answered(r) /\ ~Answered(r)' /\ UNCHANGED <<request, counter>>
        /\ \A q \in Requests \ {r} : phase'[q] = phase[q] /\ met'[q] = met[q]
    BY <1>3 DEF Admit, Answered, PipelineInv, Shapes
  <2>. QED
    BY <2>1, NoneCounted DEF Admitted, Answered
<1>4. ASSUME NEW r \in Requests, Return(r)
      PROVE  CountInv'
  <2>1. /\ Handled(r) /\ recordHttpRequest(r) /\ phase' = [phase EXCEPT ![r] = "answered"]
        /\ UNCHANGED <<request, met>>
    BY <1>4 DEF Return, RecordResult, Envelope, Respond
  <2>. QED
    BY <2>1, OutcomeCounted
<1>5. ASSUME NEW r \in Requests, Throw(r)
      PROVE  CountInv'
  <2>1. /\ Handled(r) /\ recordHttpRequest(r) /\ phase' = [phase EXCEPT ![r] = "answered"]
        /\ UNCHANGED <<request, met>>
    BY <1>5 DEF Throw, RecordError, Catch, Respond
  <2>. QED
    BY <2>1, OutcomeCounted
<1>6. ASSUME UNCHANGED <<request, phase, met, counter>>
      PROVE  CountInv'
  BY <1>6, NoneCounted DEF Admitted, Answered
<1>7. ASSUME NEW r \in Requests, NEW d \in Dependencies, Check(r, d)
      PROVE  CountInv'
  BY <1>6, <1>7 DEF Check
<1>8. ASSUME NEW p \in Clients \X Routes, HitExpires(p)
      PROVE  CountInv'
  BY <1>6, <1>8 DEF HitExpires
<1>9. ASSUME Meet
      PROVE  CountInv'
  <2>1. /\ UNCHANGED <<request, counter>>
        /\ \A q \in Requests : Answered(q)' = Answered(q)
        /\ \A q \in Requests : Answered(q) => Admitted(q)' = Admitted(q)
    BY <1>9 DEF Meet, Answered, Admitted
  <2>. QED
    BY <2>1, NoneCounted
<1>10. CASE UNCHANGED vars
  BY <1>6, <1>10 DEF vars
<1>. QED
  BY <1>1, <1>2, <1>3, <1>4, <1>5, <1>7, <1>8, <1>9, <1>10, WorldMeets
     DEF Next, Progress, WorldStep

\* The callbacks of MetricsInterceptor for a result and for an error count every request
\* that got past the guard once between them, and none before its answer.
THEOREM RequestsCountedOnce == Spec => []CountedOnce
<1>1. Init => CountInv
  <2>. SUFFICES ASSUME Init
                PROVE  CountInv
    OBVIOUS
  <2>1. counter \in [DOMAIN counter -> Nat \ {0}] /\ BagToSet(counter) = {}
    BY DEF Init, EmptyBag, SetToBag, BagToSet
  <2>2. \A route : Recorded(route) = {} /\ Finished(route) = {}
    BY <2>1 DEF Init, Recorded, Finished, Answered
  <2>. QED
    BY <2>1, <2>2, FS_EmptySet DEF CountInv
<1>2. PipelineInv /\ CountInv /\ [Next]_vars => CountInv'
  BY CountNext
<1>3. CountInv => CountedOnce
  BY DEF CountInv, CountedOnce
<1>. QED
  BY <1>1, <1>2, <1>3, PipelineInvariant, PTL DEF Spec

=============================================================================
