--------------------------------- MODULE Tasks ---------------------------------
(***************************************************************************)
(* The tasks module of src/src/modules/tasks on top of the database:       *)
(* TasksController, the validation of the request bodies, TasksService and *)
(* the exception filter that turns errors into answers.  Requests          *)
(* interleave at every database call.                                      *)
(***************************************************************************)
EXTENDS TaskApi, FiniteSets

VARIABLE pc    \* the await the handling of a client's request is at

vars == <<tasks, created, call, reply, pc>>

Points == {"idle", "pipe", "find", "list", "write"}

TasksInit ==
    /\ Init
    /\ pc = [c \in Clients |-> "idle"]

GoTo(c, point) ==
    /\ pc' = [pc EXCEPT ![c] = point]
    /\ UNCHANGED <<call, reply>>

Respond(c, status, found) ==
    /\ Answer(c, status, found)
    /\ pc' = [pc EXCEPT ![c] = "idle"]

\* The rules of CreateTaskDto and UpdateTaskDto; null passes IsOptional.
PassesCreateDto(body) ==
    /\ body.title \in Titles
    /\ body.status \in TaskStatus \union Unset

\* Mutant: an UpdateTaskDto without its decorators.
PassesUndecoratedDto(body) == TRUE

PassesUpdateDto(body) ==
    /\ body.title \in Titles \union Unset
    /\ body.status \in TaskStatus \union Unset

Passes(r) ==
    /\ r.op = "create" => PassesCreateDto(r.body)
    /\ r.op = "update" => PassesUpdateDto(r.body)

\* The service's first database call for a request.
FirstCall(op) ==
    IF op = "create" THEN "write" ELSE IF op = "findAll" THEN "list" ELSE "find"

\* GlobalExceptionFilter: exceptions of Nest have their status, errors of Prisma
\* one by their code, and the others 500.  No query on tasks ends in P2002 or P2003.
HttpStatus(error) ==
    CASE error \in {"NotFoundException", "P2025"} -> 404
      [] error \in {"BadRequestException", "P2003"} -> 400
      [] error = "P2002" -> 409
      [] OTHER -> 500

\* Mutant: a filter that logs unknown errors and answers nothing.
CatchKnown(c, error) ==
    IF HttpStatus(error) = 500 THEN GoTo(c, "idle")
    ELSE Respond(c, HttpStatus(error), {})

Catch(c, error) == Respond(c, HttpStatus(error), {})

\* Bound: no more creations than there are ids.
IdsLeft ==
    Cardinality(created) + Cardinality({c \in Clients : pc[c] # "idle"
                                          /\ call[c].op = "create"})
        < Cardinality(TaskIds)

Receive(c, r) ==
    /\ pc[c] = "idle"
    /\ r.op = "create" => IdsLeft
    /\ call' = [call EXCEPT ![c] = r]
    /\ reply' = [reply EXCEPT ![c] = NoReply]
    /\ pc' = [pc EXCEPT ![c] = "pipe"]
    /\ UNCHANGED Store

ValidationPipe(c) ==
    /\ pc[c] = "pipe"
    /\ IF Passes(call[c])
       THEN GoTo(c, FirstCall(call[c].op))
       ELSE Catch(c, "BadRequestException")
    /\ UNCHANGED Store

\* findOne(), which update() and remove() call before their own work.
findOne(c) ==
    /\ pc[c] = "find"
    /\ LET task == tasks[call[c].id] IN
       IF task = NoTask THEN Catch(c, "NotFoundException")
       ELSE IF call[c].op = "findOne" THEN Respond(c, 200, {<<call[c].id, task>>})
       ELSE GoTo(c, "write")
    /\ UNCHANGED Store

\* The query of findAll(): no filter without a status, and Prisma refuses one
\* that is no TaskStatus, since query parameters are not validated.
findAll(c) ==
    /\ pc[c] = "list"
    /\ LET status == call[c].body.status IN
       IF status \in TaskStatus \union {"absent"}
       THEN Respond(c, 200, {p \in TaskIds \X Task :
                               /\ tasks[p[1]] = p[2]
                               /\ status # "absent" => p[2].status = status})
       ELSE Catch(c, "PrismaClientValidationError")
    /\ UNCHANGED Store

\* prisma.task.create with the defaults of create() for null and absent fields.
Insert(c, id) ==
    /\ id \in TaskIds \ created
    /\ created' = created \union {id}
    /\ tasks' = [tasks EXCEPT ![id] =
                   [title |-> call[c].body.title,
                    status |-> IF call[c].body.status \in Unset THEN "PENDING"
                               ELSE call[c].body.status]]

create(c) ==
    /\ pc[c] = "write"
    /\ call[c].op = "create"
    /\ \E id \in TaskIds :
         Insert(c, id) /\ Respond(c, 201, {<<id, tasks'[id]>>})

\* Mutant: a missing field gets its default, as in create().
PatchWithDefaults(task, body) ==
    [title  |-> IF body.title # "absent" THEN body.title ELSE task.title,
     status |-> IF body.status # "absent" THEN body.status ELSE "PENDING"]

\* prisma.task.update writes the fields of the body and no other.
Patch(task, body) ==
    [title  |-> IF body.title # "absent" THEN body.title ELSE task.title,
     status |-> IF body.status # "absent" THEN body.status ELSE task.status]

\* Prisma refuses null for a required column before it asks the database.
HasNull(body) == "null" \in {body.title, body.status}

update(c) ==
    /\ pc[c] = "write"
    /\ call[c].op = "update"
    /\ LET id == call[c].id
           task == Patch(tasks[id], call[c].body) IN
       IF HasNull(call[c].body)
       THEN Catch(c, "PrismaClientValidationError") /\ UNCHANGED Store
       ELSE IF tasks[id] = NoTask
       THEN Catch(c, "P2025") /\ UNCHANGED Store
       ELSE /\ tasks' = [tasks EXCEPT ![id] = task]
            /\ Respond(c, 200, {<<id, task>>})
            /\ UNCHANGED created

\* Mutant: the task read by findOne() is returned whether or not the row is there.
RemoveMany(c) ==
    /\ pc[c] = "write"
    /\ call[c].op = "remove"
    /\ tasks' = [tasks EXCEPT ![call[c].id] = NoTask]
    /\ Respond(c, 200, {})
    /\ UNCHANGED created

remove(c) ==
    /\ pc[c] = "write"
    /\ call[c].op = "remove"
    /\ IF tasks[call[c].id] = NoTask
       THEN Catch(c, "P2025") /\ UNCHANGED Store
       ELSE /\ tasks' = [tasks EXCEPT ![call[c].id] = NoTask]
            /\ Respond(c, 200, {<<call[c].id, tasks[call[c].id]>>})
            /\ UNCHANGED created

\* The writes the database executes before the connection to it is lost.
Executed(c) ==
    /\ pc[c] = "write"
    /\ \/ call[c].op = "create" /\ \E id \in TaskIds : Insert(c, id)
       \/ /\ call[c].op \in {"update", "remove"}
          /\ tasks[call[c].id] # NoTask
          /\ call[c].op = "update" => ~HasNull(call[c].body)
          /\ tasks' = [tasks EXCEPT ![call[c].id] =
                         IF call[c].op = "remove" THEN NoTask
                         ELSE Patch(@, call[c].body)]
          /\ UNCHANGED created

DatabaseError(c) ==
    /\ DatabaseFails
    /\ pc[c] \in {"find", "list", "write"}
    /\ UNCHANGED Store \/ Executed(c)
    /\ Catch(c, "PrismaClientUnknownRequestError")

Handle(c) ==
    ValidationPipe(c) \/ findOne(c) \/ findAll(c)
    \/ create(c) \/ update(c) \/ remove(c) \/ DatabaseError(c)

TasksNext == \E c \in Clients : Handle(c) \/ \E r \in Sent : Receive(c, r)

TasksSpec == TasksInit /\ [][TasksNext]_vars

\* Database calls return or fail; the event loop runs what comes after them.
FairTasksSpec == TasksSpec /\ \A c \in Clients : WF_vars(Handle(c))

-----------------------------------------------------------------------------
(* Properties *)

\* Whatever clients send, the table holds tasks the schema allows: what the DTO
\* rules and Prisma let through never writes null or an unknown status.
TasksTypeOK == TypeOK /\ pc \in [Clients -> Points]

\* Requests whose handling interleaves between the existence check and the write
\* of TasksService.update and remove are answered as if each ran at one instant.
ImplementsApi == Spec

\* Every request is answered, those that end in an error of the database, too.
Answered == \A c \in Clients : Pending(c) ~> ~Pending(c)

=============================================================================
