-------------------------------- MODULE McpGates --------------------------------
(***************************************************************************)
(* What a client gets from the gates before rmcp (external) dispatches its *)
(* message: the layers of mcp_router, from the outermost, with auth.rs and *)
(* jsonrpc_http.rs.  A message is what the gates look at.                  *)
(***************************************************************************)

EXTENDS Integers

VARIABLE exchange   \* the message sent last, and what became of it

Body   == {"late", "large", "garbage", "array", "scalar", "object"}
Params == {"missing", "scalar", "noName", "argsNotObject", "pageOutOfRange", "custom", "good"}

Http == [origin : {"none", "local", "foreign"}, bearer : BOOLEAN, post : BOOLEAN,
         json : BOOLEAN, accepts : BOOLEAN]

\* tools/call or another method, "2.0" or not, with an id that is absent, a string or
\* number, or something else.
Rpc == [v2 : BOOLEAN, id : {"absent", "valid", "other"}, call : BOOLEAN, params : Params]
Bare == [v2 |-> TRUE, id |-> "absent", call |-> FALSE, params |-> "good"]

Message ==
    [http : Http, body : Body \ {"object"}, rpc : {Bare}]
        \cup [http : Http, body : {"object"}, rpc : {m \in Rpc : m.call \/ m.params = "good"}]

\* A status with no body, or a JSON-RPC error that echoes the id or has none.
Empty(code)      == [to |-> "client", code |-> code, error |-> "none"]
Failure(code, e) == [to |-> "client", code |-> code, error |-> e]
Passed           == [to |-> "rmcp", code |-> 0, error |-> "none"]

\* tools_call_shape_error, with list_tasks_arguments_invalid.
BadCall(rpc) == rpc.call /\ rpc.params # "good"

\* GateError::into_response for an object that is rejected.
Rejected(rpc) ==
    CASE rpc.id = "absent" -> Empty(202)
      [] rpc.id = "valid"  -> Failure(200, "echoed")
      [] OTHER             -> Failure(400, "null")

\* Mutant of GateCheck: a message without a usable id is a notification.
GateCheckById(m) ==
    IF m.body # "object" THEN Failure(400, "null")
    ELSE IF ~m.rpc.v2 \/ BadCall(m.rpc)
         THEN IF m.rpc.id = "valid" THEN Failure(200, "echoed") ELSE Empty(202)
         ELSE Passed

GateCheck(m) ==
    IF m.body # "object" THEN Failure(400, "null")
    ELSE IF ~m.rpc.v2 \/ BadCall(m.rpc) THEN Rejected(m.rpc) ELSE Passed

\* rmcp refuses a POST that does not accept its answers; the refusal is made JSON-RPC.
Rewritten(m) == IF m.http.post /\ ~m.http.accepts THEN Failure(406, "null") ELSE Passed

\* Only POSTs are read and checked.
Dispatch(m) ==
    IF ~m.http.post THEN Rewritten(m)
    ELSE CASE m.body = "late"  -> Failure(408, "null")
           [] m.body = "large" -> Failure(413, "null")
           [] m.body \notin {"late", "large"} /\ ~m.http.json -> Failure(415, "null")
           [] m.body \notin {"late", "large"} /\ m.http.json ->
                IF GateCheck(m) = Passed THEN Rewritten(m) ELSE GateCheck(m)

Reply(m) ==
    CASE m.http.origin = "foreign" -> Empty(403)
      [] m.http.origin # "foreign" /\ ~m.http.bearer -> Empty(401)
      [] m.http.origin # "foreign" /\ m.http.bearer -> Dispatch(m)

GatesInit == exchange = <<>>
GatesNext == exchange = <<>> /\ \E m \in Message : exchange' = <<m, Reply(m)>>
GatesSpec == GatesInit /\ [][GatesNext]_exchange
-----------------------------------------------------------------------------
(* Properties *)

WellFormed(m) ==
    /\ m.body = "object" /\ m.rpc.v2 /\ (m.rpc.call => m.rpc.params = "good")

\* Every message has the answer that JSON-RPC and HTTP owe it, whichever layer gives it:
\* a request is answered under its id, a notification never gets a body, an error that
\* has no id says so and has no success status, and what passes is well formed.
AnswersFitTheirMessages ==
    exchange # <<>> =>
        LET m == exchange[1]
            a == exchange[2]
            known == m.http.origin # "foreign" /\ m.http.bearer
            read  == known /\ m.http.post /\ m.http.json /\ m.body \notin {"late", "large"}
        IN /\ a = Passed => known /\ (m.http.post => read /\ WellFormed(m))
           /\ a.error = "echoed" <=>
                read /\ m.body = "object" /\ m.rpc.id = "valid" /\ ~WellFormed(m)
           /\ a.error = "echoed" => a.code = 200
           /\ a.error = "null" => a.code >= 400
           /\ a.code = 202 =>
                read /\ m.body = "object" /\ m.rpc.id = "absent" /\ ~WellFormed(m)
           /\ ~known => a.error = "none" /\ a.code >= 400
=============================================================================
