------------------------------ MODULE MCLifecycle ------------------------------
(* Instances of Lifecycle for TLC: the environments a process is started in. *)
EXTENDS Lifecycle

CONSTANTS m1, m2

Absent == [form |-> "absent", value |-> 0]
Exponent(n) == [form |-> "exponent", value |-> n]

Default ==
    [NODE_ENV |-> "absent", DATABASE_URL |-> "url", NATS_URL |-> "absent",
     CORS_ORIGIN |-> "absent", PORT |-> Absent, SHUTDOWN_TIMEOUT |-> Absent,
     place |-> "process"]

Staging ==
    [Default EXCEPT !.NODE_ENV = "staging", !.NATS_URL = "url",
                    !.CORS_ORIGIN = "origin", !.place = "file",
                    !.SHUTDOWN_TIMEOUT = Exponent(3)]

\* A service with the defaults.
Defaults == {Default}

\* A longer and a shorter timeout, texts that are read in different ways, and
\* environments that are refused.
Varied ==
    {Staging,
     [Staging EXCEPT !.CORS_ORIGIN = "*"],
     [Staging EXCEPT !.DATABASE_URL = "empty"],
     [Default EXCEPT !.NODE_ENV = "other"],
     [Default EXCEPT !.SHUTDOWN_TIMEOUT = [form |-> "word", value |-> 0]],
     [Default EXCEPT !.SHUTDOWN_TIMEOUT = Exponent(3)],
     [Default EXCEPT !.PORT = [form |-> "blank", value |-> 0]]}

=============================================================================
