----------------------------- MODULE MCOutside ------------------------------
(* The parts outside of the runtime on small instances.                     *)
EXTENDS Outside

Kind(f, inline, by, count, redirect) ==
    [function : {f}, inline : {inline}, by : {by}, count : {count}, redirect : {redirect},
     timed : BOOLEAN, retried : BOOLEAN]
SomeCalls == UNION {Kind("http", TRUE, "http", 1, r) : r \in BOOLEAN}
        \cup UNION {Kind(f, TRUE, "http", 1, FALSE) : f \in {"openapi", "mcp", "a2a", "grpc", "native"}}
        \cup Kind("asyncapi", FALSE, "http", 1, FALSE) \cup Kind("asyncapi", TRUE, "publish", 1, FALSE)
        \cup Kind("asyncapi", TRUE, "subscribe", 2, FALSE)
Says(status, body) == [status |-> status, body |-> body]
SomeAnswers == {Says(200, "json"), Says(200, "text"), Says(200, "error"), Says(302, "json"), Says(404, "text")}

=============================================================================
