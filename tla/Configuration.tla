----------------------------- MODULE Configuration -----------------------------
(***************************************************************************)
(* How the service reads its environment: validate() of                    *)
(* src/src/config/validation.ts decides whether the process may start, and *)
(* src/src/config/environment.ts reads the settings it then uses.  The two *)
(* convert the same texts differently.                                     *)
(*                                                                         *)
(* Times are counted in units of five seconds.  Of the numbers the model   *)
(* keeps PORT and SHUTDOWN_TIMEOUT; the others are read as these are.      *)
(***************************************************************************)
EXTENDS Integers

\* What a numeric variable can hold: nothing, "", white space, decimal digits,
\* digits with an exponent ("1e4"), or something that is no number.
NumericForms == {"absent", "empty", "blank", "digits", "exponent", "word"}

Numeric == [form : NumericForms, value : Nat]

Unset == {"absent", "empty"}

Environment == {"development", "production", "test", "staging"}

\* place: whether the variables come from the process or from an .env file.
AllEnvironments ==
    [NODE_ENV : Environment \union {"absent", "other"},
     DATABASE_URL : Unset \union {"url"},
     NATS_URL : Unset \union {"url"},
     CORS_ORIGIN : Unset \union {"*", "origin"},
     PORT : Numeric,
     SHUTDOWN_TIMEOUT : Numeric,
     place : {"process", "file"}]

NaN == -1

\* Number(text), which class-transformer applies to a field of type number.
AsNumber(t) ==
    IF t.form \in {"digits", "exponent"} THEN t.value
    ELSE IF t.form = "word" THEN NaN ELSE 0

\* Number.parseInt(text || fallback, 10).  It stops at the e of an exponent: what
\* is left of "1e4" is 1, which is no unit of the model at all.
ParseInt(t, fallback) ==
    IF t.form \in {"absent", "empty"} THEN fallback
    ELSE IF t.form = "digits" THEN t.value
    ELSE IF t.form = "exponent" THEN 0 ELSE NaN

\* @IsOptional() @IsNumber()
IsNumber(t) == t.form = "absent" \/ AsNumber(t) # NaN

ProductionLike(env) == env.NODE_ENV \in {"production", "staging"}

\* Mutant: the checks of production-like environments leave staging out.
validateLenient(env) ==
    /\ env.NODE_ENV \in Environment \union {"absent"}
    /\ IsNumber(env.PORT)
    /\ IsNumber(env.SHUTDOWN_TIMEOUT)
    /\ env.NODE_ENV = "production" =>
         /\ env.DATABASE_URL \notin Unset
         /\ env.NATS_URL \notin Unset
         /\ env.CORS_ORIGIN \notin Unset \union {"*"}

\* Whether validate returns.
validate(env) ==
    /\ env.NODE_ENV \in Environment \union {"absent"}
    /\ IsNumber(env.PORT)
    /\ IsNumber(env.SHUTDOWN_TIMEOUT)
    /\ ProductionLike(env) =>
         /\ env.DATABASE_URL \notin Unset
         /\ env.NATS_URL \notin Unset
         /\ env.CORS_ORIGIN \notin Unset \union {"*"}

\* ConfigModule writes the validated variables of an .env file back into the
\* process's environment, where a number has its digits.
Assigned(t, place) ==
    IF place = "file" /\ t.form # "absent"
    THEN [form |-> "digits", value |-> AsNumber(t)] ELSE t

DefaultTimeout == 2     \* ten seconds
DefaultPort == 3000

\* The settings the process works with.
environmentConfig(env) ==
    [port |-> ParseInt(Assigned(env.PORT, env.place), DefaultPort),
     shutdownTimeout |->
        ParseInt(Assigned(env.SHUTDOWN_TIMEOUT, env.place), DefaultTimeout),
     origin |-> IF env.CORS_ORIGIN \in Unset THEN "*" ELSE env.CORS_ORIGIN,
     databaseUrl |-> env.DATABASE_URL]

\* setTimeout takes what is no number, and anything below one, for one
\* millisecond.
TimerOf(ms) == IF ms = NaN THEN 0 ELSE ms

=============================================================================
