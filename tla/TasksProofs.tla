------------------------------ MODULE TasksProofs ------------------------------
(***************************************************************************)
(* Theorems about module Tasks, for any clients, ids, titles and requests: *)
(* its type invariant, that a task is removed once, and that the handling  *)
(* of a request in several database calls implements TaskApi.              *)
(***************************************************************************)
EXTENDS Tasks, TLAPS

-----------------------------------------------------------------------------
(* Types and the place a request has reached *)

\* What a request's place in the code says about it.
Placed(c) ==
    /\ pc[c] # "idle" <=> Pending(c)
    /\ pc[c] \in {"find", "list", "write"} => Passes(call[c])
    /\ pc[c] = "find" => call[c].op \in {"findOne", "update", "remove"}
    /\ pc[c] = "list" => call[c].op = "findAll"
    /\ pc[c] = "write" => call[c].op \in {"create", "update", "remove"}

TasksInv == TasksTypeOK /\ \A c \in Clients : Placed(c)

\* The checks of the DTOs are those the API promises.
LEMMA PassesIsAcceptable ==
    ASSUME NEW r \in Requests
    PROVE  Passes(r) <=> Acceptable(r)
BY TaskAssumption DEF Passes, Acceptable, PassesCreateDto, PassesUpdateDto,
                      Requests, AllBodies, FieldsOf, Unset, TaskStatus

\* A pending request is one that a client sent.
LEMMA PendingIsSent ==
    ASSUME TypeOK, NEW c \in Clients, Pending(c)
    PROVE  call[c] \in Sent /\ call[c] \in Requests
BY TaskAssumption DEF TypeOK, Pending

\* Nothing answered is the missing answer.
LEMMA AnswersAreReplies ==
    ASSUME NEW status \in {200, 201, 400, 404, 500},
           NEW found \in SUBSET (TaskIds \X Task)
    PROVE  /\ [status |-> status, tasks |-> found] \in Replies
           /\ [status |-> status, tasks |-> found] # NoReply
BY DEF Replies, NoReply

LEMMA TasksAreNotNoTask == NoTask \notin Task
BY TaskAssumption DEF NoTask, Task

\* A row after an update is a task, unless a field was null or invalid.
LEMMA PatchedIsTask ==
    ASSUME NEW r \in Requests, NEW task \in Task,
           r.op = "update", Passes(r), ~HasNull(r.body)
    PROVE  Patch(task, r.body) \in Task /\ Patch(task, r.body) = Updated(task, r.body)
BY DEF Requests, AllBodies, FieldsOf, Passes, PassesUpdateDto, HasNull, Unset,
       Patch, Updated, Task

\* The row create() inserts.
LEMMA InsertedIsTask ==
    ASSUME NEW r \in Requests, r.op = "create", Passes(r)
    PROVE  [title |-> r.body.title,
            status |-> IF r.body.status \in Unset THEN "PENDING"
                       ELSE r.body.status] \in Task
BY DEF Requests, AllBodies, FieldsOf, Passes, PassesCreateDto, Unset, Task,
       TaskStatus

-----------------------------------------------------------------------------
(* Each step keeps the invariant and is a step of TaskApi, or none of its *)

LEMMA RespondKeeps ==
    ASSUME TasksInv, NEW c \in Clients, pc[c] # "idle",
           NEW status \in {200, 201, 400, 404, 500},
           NEW found \in SUBSET (TaskIds \X Task),
           tasks' \in [TaskIds -> Task \union {NoTask}], created' \subseteq TaskIds,
           Respond(c, status, found)
    PROVE  TasksInv'
<1> DEFINE answer == [status |-> status, tasks |-> found]
<1>1. answer \in Replies /\ answer # NoReply
  BY AnswersAreReplies
<1>2. TasksTypeOK'
  BY <1>1 DEF TasksInv, TasksTypeOK, TypeOK, Respond, Answer, Points
<1>3. ASSUME NEW d \in Clients PROVE Placed(d)'
  <2>1. CASE d = c
    BY <1>1, <2>1 DEF TasksInv, TasksTypeOK, TypeOK, Placed, Pending, Respond, Answer
  <2>2. CASE d # c
    <3>1. reply'[d] = reply[d] /\ pc'[d] = pc[d] /\ call' = call
      BY <2>2 DEF TasksInv, TasksTypeOK, TypeOK, Respond, Answer
    <3>. QED
      BY <3>1 DEF TasksInv, Placed, Pending
  <2>. QED
    BY <2>1, <2>2
<1>. QED
  BY <1>2, <1>3 DEF TasksInv

LEMMA GoToKeeps ==
    ASSUME TasksInv, NEW c \in Clients, pc[c] # "idle",
           NEW point \in {"find", "list", "write"},
           Passes(call[c]),
           point = "find" => call[c].op \in {"findOne", "update", "remove"},
           point = "list" => call[c].op = "findAll",
           point = "write" => call[c].op \in {"create", "update", "remove"},
           GoTo(c, point), UNCHANGED Store
    PROVE  TasksInv' /\ UNCHANGED apiVars
<1>1. UNCHANGED apiVars
  BY DEF GoTo, Store, apiVars
<1>2. TasksTypeOK'
  BY <1>1 DEF TasksInv, TasksTypeOK, TypeOK, GoTo, apiVars, Points
<1>3. ASSUME NEW d \in Clients PROVE Placed(d)'
  BY <1>1 DEF TasksInv, TasksTypeOK, TypeOK, Placed, Pending, GoTo, apiVars
<1>. QED
  BY <1>1, <1>2, <1>3 DEF TasksInv

\* What the invariant says of the request a step handles.
LEMMA HandledRequest ==
    ASSUME TasksInv, NEW c \in Clients, pc[c] # "idle"
    PROVE  /\ Pending(c)
           /\ call[c] \in Sent /\ call[c] \in Requests
           /\ call[c].id \in TaskIds /\ call[c].op \in Ops
           /\ Passes(call[c]) <=> Acceptable(call[c])
           /\ pc[c] \in {"find", "list", "write"} => Passes(call[c])
<1>1. Pending(c)
  BY DEF TasksInv, Placed
<1>2. call[c] \in Sent /\ call[c] \in Requests
  BY <1>1, PendingIsSent DEF TasksInv, TasksTypeOK
<1>. QED
  BY <1>1, <1>2, PassesIsAcceptable DEF TasksInv, Placed, Requests

LEMMA ReceiveStep ==
    ASSUME TasksInv, NEW c \in Clients, NEW r \in Sent, Receive(c, r)
    PROVE  TasksInv' /\ Next
<1>1. r \in Requests /\ r # NoRequest /\ ~Pending(c)
  BY TaskAssumption DEF Requests, NoRequest, Ops, TasksInv, Placed, Receive
<1>2. Next
  BY <1>1 DEF Next, Request, Receive
<1>3. TasksTypeOK'
  BY DEF TasksInv, TasksTypeOK, TypeOK, Receive, Store, Points
<1>4. ASSUME NEW d \in Clients PROVE Placed(d)'
  <2>1. CASE d = c
    BY <1>1, <2>1 DEF TasksInv, TasksTypeOK, TypeOK, Placed, Pending, Receive
  <2>2. CASE d # c
    <3>1. reply'[d] = reply[d] /\ pc'[d] = pc[d] /\ call'[d] = call[d]
      BY <2>2 DEF TasksInv, TasksTypeOK, TypeOK, Receive
    <3>. QED
      BY <3>1 DEF TasksInv, Placed, Pending
  <2>. QED
    BY <2>1, <2>2
<1>. QED
  BY <1>2, <1>3, <1>4 DEF TasksInv

LEMMA ValidationPipeStep ==
    ASSUME TasksInv, NEW c \in Clients, ValidationPipe(c)
    PROVE  TasksInv' /\ (Next \/ UNCHANGED apiVars)
<1>1. pc[c] = "pipe" /\ UNCHANGED Store
  BY DEF ValidationPipe
<1>2. CASE Passes(call[c])
  <2>1. GoTo(c, FirstCall(call[c].op))
    BY <1>2 DEF ValidationPipe
  <2>2. call[c].op \in Ops
    BY <1>1, HandledRequest
  <2>. QED
    BY <1>1, <1>2, <2>1, <2>2, GoToKeeps DEF FirstCall, Ops
<1>3. CASE ~Passes(call[c])
  <2>1. Respond(c, 400, {}) /\ {} \in SUBSET (TaskIds \X Task)
    BY <1>3 DEF ValidationPipe, Catch, HttpStatus
  <2>2. TasksInv'
    BY <1>1, <2>1, RespondKeeps DEF TasksInv, TasksTypeOK, TypeOK, Store
  <2>3. Pending(c) /\ Refuse(c)
    BY <1>1, <1>3, <2>1, HandledRequest DEF Refuse, Respond
  <2>. QED
    BY <2>2, <2>3 DEF Next
<1>. QED
  BY <1>2, <1>3

LEMMA FindOneStep ==
    ASSUME TasksInv, NEW c \in Clients, findOne(c)
    PROVE  TasksInv' /\ (Next \/ UNCHANGED apiVars)
<1> DEFINE id == call[c].id
           task == tasks[id]
<1>1. pc[c] = "find" /\ UNCHANGED Store
  BY DEF findOne
<1>2. /\ Pending(c) /\ id \in TaskIds /\ Passes(call[c]) /\ Acceptable(call[c])
      /\ call[c].op \in {"findOne", "update", "remove"}
  BY <1>1, HandledRequest DEF TasksInv, Placed
<1>3. task \in Task \union {NoTask}
  BY <1>2 DEF TasksInv, TasksTypeOK, TypeOK
<1>4. CASE task = NoTask
  <2>1. Respond(c, 404, {}) /\ {} \in SUBSET (TaskIds \X Task)
    BY <1>4 DEF findOne, Catch, HttpStatus
  <2>2. TasksInv'
    BY <1>1, <2>1, RespondKeeps DEF TasksInv, TasksTypeOK, TypeOK, Store
  <2>3. Miss(c)
    BY <1>1, <1>2, <1>4, <2>1 DEF Miss, Respond
  <2>. QED
    BY <1>2, <2>2, <2>3 DEF Next
<1>5. CASE task # NoTask /\ call[c].op = "findOne"
  <2>1. Respond(c, 200, {<<id, task>>}) /\ {<<id, task>>} \in SUBSET (TaskIds \X Task)
    BY <1>2, <1>3, <1>5 DEF findOne
  <2>2. TasksInv'
    BY <1>1, <2>1, RespondKeeps DEF TasksInv, TasksTypeOK, TypeOK, Store
  <2>3. Succeed(c)
    BY <1>1, <1>2, <1>5, <2>1 DEF Succeed, Refused, Respond
  <2>. QED
    BY <1>2, <2>2, <2>3 DEF Next
<1>6. CASE task # NoTask /\ call[c].op # "findOne"
  <2>1. GoTo(c, "write")
    BY <1>6 DEF findOne
  <2>. QED
    BY <1>1, <1>2, <1>6, <2>1, GoToKeeps
<1>. QED
  BY <1>4, <1>5, <1>6

LEMMA FindAllStep ==
    ASSUME TasksInv, NEW c \in Clients, findAll(c)
    PROVE  TasksInv' /\ Next
<1> DEFINE status == call[c].body.status
           found == {p \in TaskIds \X Task :
                       /\ tasks[p[1]] = p[2]
                       /\ status # "absent" => p[2].status = status}
<1>1. pc[c] = "list" /\ UNCHANGED Store
  BY DEF findAll
<1>2. Pending(c) /\ Acceptable(call[c]) /\ call[c].op = "findAll"
  BY <1>1, HandledRequest DEF TasksInv, Placed
<1>3. CASE status \in TaskStatus \union {"absent"}
  <2>1. Respond(c, 200, found) /\ found \in SUBSET (TaskIds \X Task)
    BY <1>3 DEF findAll
  <2>2. TasksInv'
    <3> HIDE DEF found
    <3>. QED
      BY <1>1, <2>1, RespondKeeps DEF TasksInv, TasksTypeOK, TypeOK, Store
  <2>3. found = {p \in TaskIds \X Task :
                   /\ tasks[p[1]] = p[2]
                   /\ call[c].body.status \in {"absent", p[2].status}}
    OBVIOUS
  <2>4. Answer(c, 200, {p \in TaskIds \X Task :
                         /\ tasks[p[1]] = p[2]
                         /\ call[c].body.status \in {"absent", p[2].status}})
    BY <2>1, <2>3 DEF Respond
  <2>5. Succeed(c)
    BY <1>1, <1>2, <1>3, <2>4 DEF Succeed, Refused
  <2>. QED
    BY <1>2, <2>2, <2>5 DEF Next
<1>4. CASE status \notin TaskStatus \union {"absent"}
  <2>1. Respond(c, 500, {}) /\ {} \in SUBSET (TaskIds \X Task)
    BY <1>4 DEF findAll, Catch, HttpStatus
  <2>2. TasksInv'
    BY <1>1, <2>1, RespondKeeps DEF TasksInv, TasksTypeOK, TypeOK, Store
  <2>3. Fail(c)
    BY <1>1, <1>2, <1>4, <2>1 DEF Fail, Refused, Respond
  <2>. QED
    BY <1>2, <2>2, <2>3 DEF Next
<1>. QED
  BY <1>3, <1>4

-----------------------------------------------------------------------------
(* The writes *)

\* An insertion is the creation of the API.
LEMMA InsertCreates ==
    ASSUME TasksInv, NEW c \in Clients, pc[c] = "write", call[c].op = "create",
           NEW id \in TaskIds, Insert(c, id)
    PROVE  /\ tasks'[id] \in Task
           /\ Creates(call[c], id, tasks'[id])
           /\ tasks' \in [TaskIds -> Task \union {NoTask}]
           /\ created' \subseteq TaskIds
<1> DEFINE row == [title |-> call[c].body.title,
                   status |-> IF call[c].body.status \in Unset THEN "PENDING"
                              ELSE call[c].body.status]
<1>1. row \in Task
  BY HandledRequest, InsertedIsTask
<1>2. tasks' = [tasks EXCEPT ![id] = row] /\ id \in TaskIds \ created
      /\ created' = created \union {id}
  BY DEF Insert
<1>3. tasks \in [TaskIds -> Task \union {NoTask}] /\ created \subseteq TaskIds
  BY DEF TasksInv, TasksTypeOK, TypeOK
<1>4. tasks'[id] = row
  BY <1>2, <1>3
<1>5. Creates(call[c], id, tasks'[id])
  BY <1>2, <1>4 DEF Creates
<1>. QED
  BY <1>1, <1>2, <1>3, <1>4, <1>5

\* An update or a removal the database executes is the change of the API.
LEMMA WriteChanges ==
    ASSUME TasksInv, NEW c \in Clients, pc[c] = "write",
           tasks[call[c].id] # NoTask, UNCHANGED created,
           \/ /\ call[c].op = "update" /\ ~HasNull(call[c].body)
              /\ tasks' = [tasks EXCEPT ![call[c].id] =
                              Patch(tasks[call[c].id], call[c].body)]
           \/ /\ call[c].op = "remove"
              /\ tasks' = [tasks EXCEPT ![call[c].id] = NoTask]
    PROVE  /\ tasks[call[c].id] \in Task
           /\ Acceptable(call[c]) /\ ~Refused(call[c])
           /\ call[c].op = "update" =>
                /\ Patch(tasks[call[c].id], call[c].body) \in Task
                /\ Changes(call[c], Patch(tasks[call[c].id], call[c].body))
           /\ call[c].op = "remove" => Changes(call[c], tasks[call[c].id])
           /\ tasks' \in [TaskIds -> Task \union {NoTask}]
           /\ created' \subseteq TaskIds
<1>1. /\ tasks \in [TaskIds -> Task \union {NoTask}] /\ created \subseteq TaskIds
      /\ call[c] \in Requests /\ call[c].id \in TaskIds
      /\ Passes(call[c]) /\ Acceptable(call[c])
  BY HandledRequest DEF TasksInv, TasksTypeOK, TypeOK
<1>2. tasks[call[c].id] \in Task
  BY <1>1
<1>3. ~Refused(call[c])
  BY DEF Refused, HasNull
<1>4. CASE call[c].op = "update"
  <2>1. ~HasNull(call[c].body)
    BY <1>4
  <2>2. /\ Patch(tasks[call[c].id], call[c].body) \in Task
        /\ Patch(tasks[call[c].id], call[c].body)
             = Updated(tasks[call[c].id], call[c].body)
    BY <1>1, <1>2, <1>4, <2>1, PatchedIsTask
  <2>3. Changes(call[c], Patch(tasks[call[c].id], call[c].body))
    BY <1>4, <2>2 DEF Changes
  <2>. QED
    BY <1>1, <1>2, <1>3, <1>4, <2>2, <2>3
<1>5. CASE call[c].op = "remove"
  <2>1. Changes(call[c], tasks[call[c].id])
    BY <1>5 DEF Changes
  <2>. QED
    BY <1>1, <1>2, <1>3, <1>5, <2>1
<1>. QED
  BY <1>4, <1>5

LEMMA CreateStep ==
    ASSUME TasksInv, NEW c \in Clients, create(c)
    PROVE  TasksInv' /\ Next
<1>1. pc[c] = "write" /\ call[c].op = "create"
  BY DEF create
<1>2. PICK id \in TaskIds : Insert(c, id) /\ Respond(c, 201, {<<id, tasks'[id]>>})
  BY DEF create
<1>3. /\ tasks'[id] \in Task
      /\ Creates(call[c], id, tasks'[id])
      /\ tasks' \in [TaskIds -> Task \union {NoTask}]
      /\ created' \subseteq TaskIds
  BY <1>1, <1>2, InsertCreates
<1>4. {<<id, tasks'[id]>>} \in SUBSET (TaskIds \X Task)
  BY <1>3
<1>5. TasksInv'
  BY <1>1, <1>2, <1>3, <1>4, RespondKeeps
<1>6. Pending(c) /\ Acceptable(call[c]) /\ ~Refused(call[c])
  BY <1>1, HandledRequest DEF Refused
<1>7. Succeed(c)
  BY <1>2, <1>3, <1>6 DEF Succeed, Respond
<1>. QED
  BY <1>5, <1>6, <1>7 DEF Next

LEMMA UpdateStep ==
    ASSUME TasksInv, NEW c \in Clients, update(c)
    PROVE  TasksInv' /\ Next
<1> DEFINE id == call[c].id
           task == Patch(tasks[id], call[c].body)
<1>1. pc[c] = "write" /\ call[c].op = "update"
  BY DEF update
<1>2. Pending(c) /\ Acceptable(call[c]) /\ id \in TaskIds
  BY <1>1, HandledRequest
<1>3. CASE HasNull(call[c].body)
  <2>1. /\ Respond(c, 500, {}) /\ {} \in SUBSET (TaskIds \X Task)
        /\ UNCHANGED Store
    BY <1>3 DEF update, Catch, HttpStatus
  <2>2. TasksInv'
    BY <1>1, <2>1, RespondKeeps DEF TasksInv, TasksTypeOK, TypeOK, Store
  <2>3. Fail(c)
    BY <1>1, <1>2, <1>3, <2>1 DEF Fail, Refused, HasNull, Respond
  <2>. QED
    BY <1>2, <2>2, <2>3 DEF Next
<1>4. CASE ~HasNull(call[c].body) /\ tasks[id] = NoTask
  <2>1. /\ Respond(c, 404, {}) /\ {} \in SUBSET (TaskIds \X Task)
        /\ UNCHANGED Store
    BY <1>4 DEF update, Catch, HttpStatus
  <2>2. TasksInv'
    BY <1>1, <2>1, RespondKeeps DEF TasksInv, TasksTypeOK, TypeOK, Store
  <2>3. Miss(c)
    BY <1>1, <1>2, <1>4, <2>1 DEF Miss, Respond
  <2>. QED
    BY <1>2, <2>2, <2>3 DEF Next
<1>5. CASE ~HasNull(call[c].body) /\ tasks[id] # NoTask
  <2>1. /\ tasks' = [tasks EXCEPT ![id] = task] /\ UNCHANGED created
        /\ Respond(c, 200, {<<id, task>>})
    BY <1>5 DEF update
  <2>2. /\ task \in Task /\ Changes(call[c], task) /\ ~Refused(call[c])
        /\ tasks' \in [TaskIds -> Task \union {NoTask}]
        /\ created' \subseteq TaskIds
    BY <1>1, <1>5, <2>1, WriteChanges
  <2>3. {<<id, task>>} \in SUBSET (TaskIds \X Task)
    BY <1>2, <2>2
  <2>4. TasksInv'
    BY <1>1, <2>1, <2>2, <2>3, RespondKeeps
  <2>5. Succeed(c)
    BY <1>2, <2>1, <2>2 DEF Succeed, Respond
  <2>. QED
    BY <1>2, <2>4, <2>5 DEF Next
<1>. QED
  BY <1>3, <1>4, <1>5

LEMMA RemoveStep ==
    ASSUME TasksInv, NEW c \in Clients, remove(c)
    PROVE  TasksInv' /\ Next
<1> DEFINE id == call[c].id
<1>1. pc[c] = "write" /\ call[c].op = "remove"
  BY DEF remove
<1>2. Pending(c) /\ Acceptable(call[c]) /\ id \in TaskIds
  BY <1>1, HandledRequest
<1>3. CASE tasks[id] = NoTask
  <2>1. /\ Respond(c, 404, {}) /\ {} \in SUBSET (TaskIds \X Task)
        /\ UNCHANGED Store
    BY <1>3 DEF remove, Catch, HttpStatus
  <2>2. TasksInv'
    BY <1>1, <2>1, RespondKeeps DEF TasksInv, TasksTypeOK, TypeOK, Store
  <2>3. Miss(c)
    BY <1>1, <1>2, <1>3, <2>1 DEF Miss, Respond
  <2>. QED
    BY <1>2, <2>2, <2>3 DEF Next
<1>4. CASE tasks[id] # NoTask
  <2>1. /\ tasks' = [tasks EXCEPT ![id] = NoTask] /\ UNCHANGED created
        /\ Respond(c, 200, {<<id, tasks[id]>>})
    BY <1>4 DEF remove
  <2>2. /\ tasks[id] \in Task /\ Changes(call[c], tasks[id]) /\ ~Refused(call[c])
        /\ tasks' \in [TaskIds -> Task \union {NoTask}]
        /\ created' \subseteq TaskIds
    BY <1>1, <1>4, <2>1, WriteChanges
  <2>3. {<<id, tasks[id]>>} \in SUBSET (TaskIds \X Task)
    BY <1>2, <2>2
  <2>4. TasksInv'
    BY <1>1, <2>1, <2>2, <2>3, RespondKeeps
  <2>5. Succeed(c)
    BY <1>2, <2>1, <2>2 DEF Succeed, Respond
  <2>. QED
    BY <1>2, <2>4, <2>5 DEF Next
<1>. QED
  BY <1>3, <1>4

LEMMA DatabaseErrorStep ==
    ASSUME TasksInv, NEW c \in Clients, DatabaseError(c)
    PROVE  TasksInv' /\ Next
<1>1. /\ DatabaseFails /\ pc[c] \in {"find", "list", "write"}
      /\ Respond(c, 500, {}) /\ {} \in SUBSET (TaskIds \X Task)
  BY DEF DatabaseError, Catch, HttpStatus
<1>2. Pending(c) /\ Acceptable(call[c])
  BY <1>1, HandledRequest
<1>3. CASE UNCHANGED Store
  <2>1. TasksInv'
    BY <1>1, <1>3, RespondKeeps DEF TasksInv, TasksTypeOK, TypeOK, Store
  <2>2. Fail(c)
    BY <1>1, <1>2, <1>3 DEF Fail, Respond
  <2>. QED
    BY <1>2, <2>1, <2>2 DEF Next
<1>4. CASE Executed(c) /\ call[c].op = "create"
  <2>1. PICK id \in TaskIds : Insert(c, id)
    BY <1>4 DEF Executed
  <2>2. /\ tasks'[id] \in Task /\ Creates(call[c], id, tasks'[id])
        /\ tasks' \in [TaskIds -> Task \union {NoTask}]
        /\ created' \subseteq TaskIds
    BY <1>4, <2>1, InsertCreates DEF Executed
  <2>3. TasksInv'
    BY <1>1, <2>2, RespondKeeps
  <2>4. Fail(c)
    BY <1>1, <1>2, <1>4, <2>2 DEF Fail, Refused, Respond
  <2>. QED
    BY <1>2, <2>3, <2>4 DEF Next
<1>5. CASE Executed(c) /\ call[c].op # "create"
  <2> DEFINE id == call[c].id
             task == IF call[c].op = "update" THEN Patch(tasks[id], call[c].body)
                     ELSE tasks[id]
  <2>1. /\ call[c].op \in {"update", "remove"} /\ tasks[id] # NoTask
        /\ pc[c] = "write" /\ UNCHANGED created
        /\ call[c].op = "update" => ~HasNull(call[c].body)
        /\ tasks' = [tasks EXCEPT ![id] = IF call[c].op = "remove" THEN NoTask
                                          ELSE Patch(tasks[id], call[c].body)]
    BY <1>5 DEF Executed
  <2>2. /\ task \in Task /\ Changes(call[c], task) /\ ~Refused(call[c])
        /\ tasks' \in [TaskIds -> Task \union {NoTask}]
        /\ created' \subseteq TaskIds
    <3>1. CASE call[c].op = "update"
      BY <2>1, <3>1, WriteChanges
    <3>2. CASE call[c].op = "remove"
      BY <2>1, <3>2, WriteChanges
    <3>. QED
      BY <2>1, <3>1, <3>2
  <2>3. TasksInv'
    BY <1>1, <2>2, RespondKeeps
  <2>4. Fail(c)
    BY <1>1, <1>2, <2>2 DEF Fail, Respond
  <2>. QED
    BY <1>2, <2>3, <2>4 DEF Next
<1>. QED
  BY <1>3, <1>4, <1>5 DEF DatabaseError

-----------------------------------------------------------------------------
(* Theorems *)

LEMMA TasksInitially == TasksInit => TasksInv /\ Init
<1> SUFFICES ASSUME TasksInit PROVE TasksInv
  BY DEF TasksInit
<1>1. TasksTypeOK
  BY DEF TasksInit, Init, TasksTypeOK, TypeOK, Points
<1>2. ASSUME NEW c \in Clients PROVE Placed(c)
  BY DEF TasksInit, Init, Placed, Pending
<1>. QED
  BY <1>1, <1>2 DEF TasksInv

LEMMA EachStep ==
    ASSUME TasksInv, [TasksNext]_vars
    PROVE  TasksInv' /\ [Next]_apiVars
<1>1. CASE UNCHANGED vars
  <2>1. UNCHANGED apiVars /\ pc' = pc
    BY <1>1 DEF vars, apiVars
  <2>. QED
    BY <2>1 DEF TasksInv, TasksTypeOK, TypeOK, Placed, Pending, apiVars
<1>2. ASSUME NEW c \in Clients, NEW r \in Sent, Receive(c, r)
      PROVE  TasksInv' /\ [Next]_apiVars
  BY <1>2, ReceiveStep
<1>3. ASSUME NEW c \in Clients, Handle(c)
      PROVE  TasksInv' /\ [Next]_apiVars
  BY <1>3, ValidationPipeStep, FindOneStep, FindAllStep, CreateStep, UpdateStep,
     RemoveStep, DatabaseErrorStep DEF Handle
<1>. QED
  BY <1>1, <1>2, <1>3 DEF TasksNext

\* The type invariant and what a request's place in the code says about it hold of
\* every reachable state of the tasks module.
THEOREM TasksInvariant == TasksSpec => []TasksInv
<1>1. TasksInit => TasksInv
  BY TasksInitially
<1>2. TasksInv /\ [TasksNext]_vars => TasksInv'
  BY EachStep
<1>. QED
  BY <1>1, <1>2, PTL DEF TasksSpec

\* Only tasks the schema allows are ever stored, whatever clients send.
THEOREM TasksTypeCorrect == TasksSpec => []TasksTypeOK
<1>1. TasksInv => TasksTypeOK
  BY DEF TasksInv
<1>. QED
  BY <1>1, TasksInvariant, PTL

\* The handling of a request in several database calls, interleaved with that of
\* others and with failing calls, implements the API in which each request is
\* executed at one instant.
THEOREM TasksImplementTheApi == TasksSpec => ImplementsApi
<1>1. TasksInit => Init
  BY TasksInitially
<1>2. TasksInv /\ [TasksNext]_vars => [Next]_apiVars
  BY EachStep
<1>. QED
  BY <1>1, <1>2, TasksInvariant, PTL DEF TasksSpec, ImplementsApi, Spec

-----------------------------------------------------------------------------
(* What every implementation of the API inherits *)

\* Ids of stored tasks were given, and what was removed stays away.
RemovedIsGone ==
    /\ \A id \in TaskIds : tasks[id] # NoTask => id \in created
    /\ \A c \in Clients :
         call[c].op = "remove" /\ reply[c].status = 200
         => call[c].id \in created /\ tasks[call[c].id] = NoTask

ApiInv == TypeOK /\ RemovedIsGone /\ RemovedOnce

\* A request that is answered with something else than a removed task.
LEMMA OtherAnswerKeeps ==
    ASSUME ApiInv, NEW c \in Clients, Pending(c),
           NEW status \in {200, 201, 400, 404, 500},
           NEW found \in SUBSET (TaskIds \X Task),
           Answer(c, status, found),
           ~(call[c].op = "remove" /\ status = 200),
           tasks' \in [TaskIds -> Task \union {NoTask}], created' \subseteq TaskIds,
           created \subseteq created',
           \A id \in TaskIds : tasks'[id] # NoTask => id \in created',
           \A id \in created : tasks[id] = NoTask => tasks'[id] = NoTask
    PROVE  ApiInv'
<1>1. [status |-> status, tasks |-> found] \in Replies
  BY AnswersAreReplies
<1>2. TypeOK'
  BY <1>1 DEF ApiInv, TypeOK, Answer
<1>3. ASSUME NEW d \in Clients, call'[d].op = "remove", reply'[d].status = 200
      PROVE  d # c /\ call'[d] = call[d] /\ reply'[d] = reply[d]
  BY <1>1, <1>3 DEF ApiInv, TypeOK, Answer
<1>4. RemovedIsGone'
  BY <1>3 DEF ApiInv, RemovedIsGone
<1>5. RemovedOnce'
  BY <1>3 DEF ApiInv, RemovedOnce
<1>. QED
  BY <1>2, <1>4, <1>5 DEF ApiInv

\* What an executed creation or change does to the table.
LEMMA EffectTypes ==
    ASSUME ApiInv, NEW c \in Clients, Pending(c), NEW task \in Task,
           \/ \E id \in TaskIds : Creates(call[c], id, task)
           \/ Changes(call[c], task)
    PROVE  /\ tasks' \in [TaskIds -> Task \union {NoTask}]
           /\ created' \subseteq TaskIds /\ created \subseteq created'
           /\ \A id \in TaskIds : tasks'[id] # NoTask => id \in created'
           /\ \A id \in created : tasks[id] = NoTask => tasks'[id] = NoTask
<1>1. call[c].id \in TaskIds
  BY PendingIsSent DEF ApiInv, Requests
<1>2. CASE \E id \in TaskIds : Creates(call[c], id, task)
  BY <1>2 DEF ApiInv, TypeOK, RemovedIsGone, Creates
<1>3. CASE Changes(call[c], task)
  BY <1>1, <1>3 DEF ApiInv, TypeOK, RemovedIsGone, Changes
<1>. QED
  BY <1>2, <1>3

LEMMA SucceedKeeps ==
    ASSUME ApiInv, NEW c \in Clients, Pending(c), Succeed(c)
    PROVE  ApiInv'
<1> DEFINE r == call[c]
           found == {p \in TaskIds \X Task :
                       /\ tasks[p[1]] = p[2]
                       /\ r.body.status \in {"absent", p[2].status}}
<1>0. r.id \in TaskIds
  BY PendingIsSent DEF ApiInv, Requests
<1>1. CASE \E id \in TaskIds, task \in Task :
              Creates(r, id, task) /\ Answer(c, 201, {<<id, task>>})
  <2>1. PICK id \in TaskIds, task \in Task :
              Creates(r, id, task) /\ Answer(c, 201, {<<id, task>>})
    BY <1>1
  <2>2. {<<id, task>>} \in SUBSET (TaskIds \X Task)
    OBVIOUS
  <2>3. 201 \in {200, 201, 400, 404, 500} /\ 201 # 200
    OBVIOUS
  <2>. QED
    BY <2>1, <2>2, <2>3, EffectTypes, OtherAnswerKeeps
<1>2. CASE \E task \in Task : Changes(r, task) /\ Answer(c, 200, {<<r.id, task>>})
  <2>1. PICK task \in Task : Changes(r, task) /\ Answer(c, 200, {<<r.id, task>>})
    BY <1>2
  <2>2. {<<r.id, task>>} \in SUBSET (TaskIds \X Task)
    BY <1>0
  <2>3. CASE r.op # "remove"
    BY <2>1, <2>2, <2>3, EffectTypes, OtherAnswerKeeps
  <2>4. CASE r.op = "remove"
    <3>1. /\ tasks[r.id] # NoTask /\ tasks' = [tasks EXCEPT ![r.id] = NoTask]
          /\ created' = created
      BY <2>1, <2>4 DEF Changes
    <3>2. [status |-> 200, tasks |-> {<<r.id, task>>}] \in Replies
      BY <2>2, AnswersAreReplies
    <3>3. TypeOK'
      BY <2>1, <3>1, <3>2 DEF ApiInv, TypeOK, Answer
    <3>4. /\ call' = call /\ r.id \in created
          /\ \A d \in Clients : d # c => reply'[d] = reply[d]
      BY <2>1, <3>1, <1>0 DEF ApiInv, TypeOK, RemovedIsGone, Answer
    <3>5. RemovedIsGone'
      BY <1>0, <2>1, <3>1, <3>4 DEF ApiInv, TypeOK, RemovedIsGone
    <3>6. \A d \in Clients : d # c /\ call[d].op = "remove" /\ reply[d].status = 200
                             => call[d].id # r.id
      BY <3>1 DEF ApiInv, RemovedIsGone
    <3>7. RemovedOnce'
      BY <3>4, <3>6 DEF ApiInv, RemovedOnce
    <3>. QED
      BY <3>3, <3>5, <3>7 DEF ApiInv
  <2>. QED
    BY <2>3, <2>4
<1>3. CASE /\ r.op = "findOne" /\ tasks[r.id] # NoTask
           /\ Answer(c, 200, {<<r.id, tasks[r.id]>>}) /\ UNCHANGED Store
  <2>1. {<<r.id, tasks[r.id]>>} \in SUBSET (TaskIds \X Task)
    BY <1>0, <1>3 DEF ApiInv, TypeOK
  <2>. QED
    BY <1>3, <2>1, OtherAnswerKeeps DEF ApiInv, TypeOK, RemovedIsGone, Store
<1>4. CASE r.op = "findAll" /\ Answer(c, 200, found) /\ UNCHANGED Store
  <2>1. found \in SUBSET (TaskIds \X Task)
    OBVIOUS
  <2> HIDE DEF found
  <2>. QED
    BY <1>4, <2>1, OtherAnswerKeeps DEF ApiInv, TypeOK, RemovedIsGone, Store
<1>. QED
  BY <1>1, <1>2, <1>3, <1>4 DEF Succeed

LEMMA RefusalsKeep ==
    ASSUME ApiInv, NEW c \in Clients, Pending(c), Refuse(c) \/ Miss(c) \/ Fail(c)
    PROVE  ApiInv'
<1>1. {} \in SUBSET (TaskIds \X Task)
  OBVIOUS
<1>2. CASE Answer(c, 400, {}) /\ UNCHANGED Store
  BY <1>1, <1>2, OtherAnswerKeeps DEF ApiInv, TypeOK, RemovedIsGone, Store
<1>3. CASE Answer(c, 404, {}) /\ UNCHANGED Store
  BY <1>1, <1>3, OtherAnswerKeeps DEF ApiInv, TypeOK, RemovedIsGone, Store
<1>4. CASE Answer(c, 500, {}) /\ UNCHANGED Store
  BY <1>1, <1>4, OtherAnswerKeeps DEF ApiInv, TypeOK, RemovedIsGone, Store
<1>5. CASE /\ Answer(c, 500, {})
           /\ \/ \E id \in TaskIds, task \in Task : Creates(call[c], id, task)
              \/ \E task \in Task : Changes(call[c], task)
  BY <1>1, <1>5, EffectTypes, OtherAnswerKeeps
<1>. QED
  BY <1>2, <1>3, <1>4, <1>5 DEF Refuse, Miss, Fail

LEMMA RequestKeeps ==
    ASSUME ApiInv, NEW c \in Clients, NEW r \in Sent, Request(c, r)
    PROVE  ApiInv'
<1>1. TypeOK'
  BY DEF ApiInv, TypeOK, Request, Store
<1>2. /\ UNCHANGED <<tasks, created>> /\ reply'[c] = NoReply
      /\ \A d \in Clients : d # c => call'[d] = call[d] /\ reply'[d] = reply[d]
  BY DEF ApiInv, TypeOK, Request, Store
<1>3. \A d \in Clients : reply'[d].status = 200 => d # c
  BY <1>2 DEF NoReply
<1>. QED
  BY <1>1, <1>2, <1>3 DEF ApiInv, RemovedIsGone, RemovedOnce

\* A task is removed once, in every implementation of the API.
THEOREM ApiRemovesOnce == Spec => []RemovedOnce
<1>1. Init => ApiInv
  BY DEF Init, ApiInv, TypeOK, RemovedIsGone, RemovedOnce, NoReply
<1>2. ApiInv /\ [Next]_apiVars => ApiInv'
  <2> SUFFICES ASSUME ApiInv, [Next]_apiVars PROVE ApiInv'
    OBVIOUS
  <2>1. CASE UNCHANGED apiVars
    BY <2>1 DEF apiVars, ApiInv, TypeOK, RemovedIsGone, RemovedOnce
  <2>2. CASE Next
    BY <2>2, SucceedKeeps, RefusalsKeep, RequestKeeps DEF Next
  <2>. QED
    BY <2>1, <2>2
<1>3. ApiInv => RemovedOnce
  BY DEF ApiInv
<1>. QED
  BY <1>1, <1>2, <1>3, PTL DEF Spec

\* Of the clients whose removals of a task pass the existence check together, one
\* at most is answered with the removed task.
THEOREM TasksAreRemovedOnce == TasksSpec => []RemovedOnce
BY TasksImplementTheApi, ApiRemovesOnce, PTL DEF ImplementsApi

=============================================================================
