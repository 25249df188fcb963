-------------------------------- MODULE MCTasks --------------------------------
(* Two clients, and requests that reach every branch of Tasks. *)
EXTENDS Tasks

CONSTANTS t1, t2, a, b

A(op, id, title, status) ==
    [op |-> op, id |-> id, body |-> [title |-> title, status |-> status]]

FewRequests ==
    {A("create", a, t1, "COMPLETED"), A("create", a, t2, "null"),
     A("create", a, "null", "absent"),
     A("findAll", a, "absent", "absent"), A("findAll", a, "absent", "COMPLETED"),
     A("findAll", a, "absent", "invalid"),
     A("findOne", a, "absent", "absent"),
     A("update", a, t2, "absent"), A("update", a, "absent", "COMPLETED"),
     A("update", a, "absent", "null"), A("update", a, "absent", "invalid"),
     A("remove", a, "absent", "absent"), A("remove", b, "absent", "absent")}

=============================================================================
