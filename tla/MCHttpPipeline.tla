----------------------------- MODULE MCHttpPipeline -----------------------------
(* Instances of HttpPipeline for TLC: what the requests ask for. *)
EXTENDS HttpPipeline

CONSTANTS r1, r2, c1, c2

Ask(client, route, sent) == [client |-> client, route |-> route, sent |-> sent]

\* Probes whose checks fail in different ways, a handler that succeeds or throws and a
\* route without one, with an id and without, from one client and from two.
Mixed ==
    {Ask(c1, "ready", NoId), Ask(c1, "health", "sent"), Ask(c1, "create", NoId),
     Ask(c2, "create", "sent"), Ask(c2, "unknown", "sent")}

\* One task to create.
Tasks == {Ask(c1, "create", NoId)}

=============================================================================
