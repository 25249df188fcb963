-------------------------------- MODULE TaskApi --------------------------------
(***************************************************************************)
(* What the tasks API promises its clients: every request is answered as   *)
(* if it had been executed at one instant between its arrival and its      *)
(* answer.  Module Tasks, which takes several database calls for some      *)
(* requests, implements this specification.                                *)
(*                                                                         *)
(* Of a task's columns the model keeps one that is required (title) and    *)
(* one with a default (status); priority behaves as status does.           *)
(***************************************************************************)
EXTENDS Naturals

CONSTANTS
    Clients,        \* the callers, one request at a time each
    TaskIds,        \* bound: the ids tasks ever get; an id is given once
    Titles,         \* the titles a request can carry
    Sent,           \* bound: the requests clients make
    DatabaseFails   \* whether database calls may fail

TaskStatus == {"PENDING", "COMPLETED"}

\* A field of a body: a value, no such field, null, or what validation refuses.
Unset == {"absent", "null"}
FieldsOf(values) == values \union Unset \union {"invalid"}

AllBodies == [title : FieldsOf(Titles), status : FieldsOf(TaskStatus)]

Task == [title : Titles, status : TaskStatus]

NoTask == [title |-> "absent", status |-> "absent"]

Ops == {"create", "findAll", "findOne", "update", "remove"}

\* A list request carries its status filter in the body.
Requests == [op : Ops, id : TaskIds, body : AllBodies]

ASSUME TaskAssumption ==
    /\ Titles \intersect {"absent", "null", "invalid"} = {}
    /\ Sent \subseteq Requests
    /\ DatabaseFails \in BOOLEAN

NoRequest == [op |-> "none"]

Replies == [status : {200, 201, 400, 404, 500}, tasks : SUBSET (TaskIds \X Task)]

NoReply == [status |-> 0, tasks |-> {}]

VARIABLES
    tasks,     \* the table: a task or NoTask for every id
    created,   \* the ids that were given to tasks
    call,      \* the request each client has made last
    reply      \* the answer to it, or NoReply

apiVars == <<tasks, created, call, reply>>

TypeOK ==
    /\ tasks \in [TaskIds -> Task \union {NoTask}]
    /\ created \subseteq TaskIds
    /\ call \in [Clients -> Sent \union {NoRequest}]
    /\ reply \in [Clients -> Replies \union {NoReply}]

Init ==
    /\ tasks = [id \in TaskIds |-> NoTask]
    /\ created = {}
    /\ call = [c \in Clients |-> NoRequest]
    /\ reply = [c \in Clients |-> NoReply]

Pending(c) == call[c] # NoRequest /\ reply[c] = NoReply

Answer(c, status, found) ==
    /\ reply' = [reply EXCEPT ![c] = [status |-> status, tasks |-> found]]
    /\ UNCHANGED call

Store == <<tasks, created>>

\* A client that waits for no answer makes a request.
Request(c, r) ==
    /\ ~Pending(c)
    /\ call' = [call EXCEPT ![c] = r]
    /\ reply' = [reply EXCEPT ![c] = NoReply]
    /\ UNCHANGED Store

\* A new task needs a title; an update may leave any field out, or null.
Acceptable(r) ==
    /\ r.op = "create" => r.body.title \in Titles /\ r.body.status # "invalid"
    /\ r.op = "update" => "invalid" \notin {r.body.title, r.body.status}

\* What the database refuses although validation does not.
Refused(r) ==
    \/ r.op = "update" /\ "null" \in {r.body.title, r.body.status}
    \/ r.op = "findAll" /\ r.body.status \notin TaskStatus \union {"absent"}

Updated(task, body) ==
    [title  |-> IF body.title = "absent" THEN task.title ELSE body.title,
     status |-> IF body.status = "absent" THEN task.status ELSE body.status]

\* The effect of a request that succeeds, and the tasks it answers with.
Creates(r, id, task) ==
    /\ r.op = "create"
    /\ id \in TaskIds \ created
    /\ task = [title |-> r.body.title,
               status |-> IF r.body.status \in Unset THEN "PENDING"
                          ELSE r.body.status]
    /\ tasks' = [tasks EXCEPT ![id] = task]
    /\ created' = created \union {id}

Changes(r, task) ==
    /\ tasks[r.id] # NoTask
    /\ \/ /\ r.op = "update"
          /\ task = Updated(tasks[r.id], r.body)
          /\ tasks' = [tasks EXCEPT ![r.id] = task]
       \/ /\ r.op = "remove"
          /\ task = tasks[r.id]
          /\ tasks' = [tasks EXCEPT ![r.id] = NoTask]
    /\ UNCHANGED created

Succeed(c) ==
    LET r == call[c] IN
    /\ Acceptable(r)
    /\ ~Refused(r)
    /\ \/ \E id \in TaskIds, task \in Task :
            Creates(r, id, task) /\ Answer(c, 201, {<<id, task>>})
       \/ \E task \in Task :
            Changes(r, task) /\ Answer(c, 200, {<<r.id, task>>})
       \/ /\ r.op = "findOne"
          /\ tasks[r.id] # NoTask
          /\ Answer(c, 200, {<<r.id, tasks[r.id]>>})
          /\ UNCHANGED Store
       \/ /\ r.op = "findAll"
          /\ Answer(c, 200, {p \in TaskIds \X Task :
                               /\ tasks[p[1]] = p[2]
                               /\ r.body.status \in {"absent", p[2].status}})
          /\ UNCHANGED Store

Refuse(c) ==
    /\ ~Acceptable(call[c])
    /\ Answer(c, 400, {})
    /\ UNCHANGED Store

Miss(c) ==
    /\ Acceptable(call[c])
    /\ call[c].op \in {"findOne", "update", "remove"}
    /\ tasks[call[c].id] = NoTask
    /\ Answer(c, 404, {})
    /\ UNCHANGED Store

\* An internal error: the database refused the request, or its call failed, which
\* leaves open whether it was executed.
Fail(c) ==
    /\ Acceptable(call[c])
    /\ \/ Refused(call[c]) /\ UNCHANGED Store
       \/ DatabaseFails /\ UNCHANGED Store
       \/ /\ DatabaseFails /\ ~Refused(call[c])
          /\ \/ \E id \in TaskIds, task \in Task : Creates(call[c], id, task)
             \/ \E task \in Task : Changes(call[c], task)
    /\ Answer(c, 500, {})

Next ==
    \E c \in Clients :
        \/ \E r \in Sent : Request(c, r)
        \/ Pending(c) /\ (Succeed(c) \/ Refuse(c) \/ Miss(c) \/ Fail(c))

Spec == Init /\ [][Next]_apiVars

\* A task is removed once: of two concurrent removals that both passed the check
\* of TasksService.remove only one is answered with the removed task.
RemovedOnce ==
    \A c, d \in Clients :
        /\ call[c].op = "remove" /\ reply[c].status = 200
        /\ call[d].op = "remove" /\ reply[d].status = 200
        /\ call[c].id = call[d].id
        => c = d

=============================================================================
