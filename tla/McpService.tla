------------------------------- MODULE McpService -------------------------------
(***************************************************************************)
(* The life of the MCP server (mcp/runtime.rs, mcp/server.rs): settings    *)
(* ask for a server, one supervisor starts and stops servers, and clients' *)
(* requests run while that happens.                                        *)
(*                                                                         *)
(* A request is one connection.  Its tool runs in a task of its own (rmcp, *)
(* external): cutting the connection does not stop a tool.  Tokens are     *)
(* numbers, 0 for none; servers are numbered in the order they start.      *)
(***************************************************************************)
EXTENDS Integers, FiniteSets

CONSTANTS
    Request,        \* the requests that clients send
    Port, BadPort,  \* the ports that can be set, and one only a file can hold
    MaxChange,      \* bound on changes to the settings
    MaxServer       \* bound on servers started

ASSUME McpAssumption ==
    /\ Request # {} /\ Port # {} /\ BadPort \notin Port
    /\ MaxChange \in Nat /\ MaxServer \in Nat \ {0}

VARIABLES
    settings,   \* mcp_enabled, mcp_port, mcp_token
    changes,    \* how often the settings changed
    foreign,    \* ports that other programs hold
    asking,     \* the request of the controller under way, if any, and whether it has
                \* still to report Off
    desired,    \* the watch channel, and whether its value is new to the supervisor
    status,     \* McpStatus
    sup,        \* the supervisor: what it does, and with which configuration
    current,    \* its RunningServer, 0 for none
    servers,    \* every server started
    req         \* the requests

mcpVars == <<settings, changes, foreign, asking, desired, status, sup, current, servers, req>>

Server == 1..MaxServer
Token  == 0..(MaxChange + 1)
Listen == [kind : {"listen"}, port : Port, token : Token \ {0}]
Off     == [kind |-> "off"]
Invalid == [kind |-> "invalid"]
Nothing == [kind |-> "nothing"]
Silence == [value |-> Nothing, tell |-> FALSE]
Wanted  == Listen \cup {Off, Invalid}
Status  == {"off", "listening", "port_in_use", "error"}

NoServer == [at |-> "none", config |-> Off, open |-> FALSE]
NoReq    == [at |-> "idle", server |-> 0, wrote |-> FALSE, late |-> FALSE]

Ended == {"answered", "refused", "cut"}

McpTyped ==
    /\ settings \in [enabled : BOOLEAN, port : Port \cup {BadPort}, token : Token]
    /\ changes \in 0..MaxChange /\ foreign \subseteq Port
    /\ asking \in [value : Wanted \cup {Nothing}, tell : BOOLEAN] /\ desired \in [value : Wanted, new : BOOLEAN]
    /\ status \in Status
    /\ sup \in [at : {"waiting", "stopping", "starting"}, want : Wanted]
    /\ current \in 0..MaxServer
    /\ servers \in [Server -> [at : {"none", "listening", "stopping", "draining", "over"},
                               config : Wanted, open : BOOLEAN]]
    /\ req \in [Request -> [at : {"idle", "arrived", "called", "writing", "done"} \cup Ended,
                            server : 0..MaxServer, wrote : BOOLEAN, late : BOOLEAN]]

McpTypeOK ==
    /\ McpTyped
    /\ Cardinality({s \in Server : servers[s].at \in {"listening", "stopping"}}) <= 1
    /\ sup.at = "stopping" => current > 0

McpInit ==
    /\ settings \in [enabled : BOOLEAN, port : Port \cup {BadPort}, token : {0, 1}]
    /\ changes = 0 /\ foreign \in SUBSET Port
    /\ asking = Silence /\ desired = [value |-> Off, new |-> TRUE]
    /\ status = "off" /\ sup = [at |-> "waiting", want |-> Off] /\ current = 0
    /\ servers = [s \in Server |-> NoServer] /\ req = [r \in Request |-> NoReq]
-----------------------------------------------------------------------------
(* Settings *)

\* sync_from_settings: what the settings ask for, once there is a token.
Desired(s) ==
    CASE ~s.enabled        -> Off
      [] s.port \notin Port -> Invalid
      [] OTHER             -> [kind |-> "listen", port |-> s.port, token |-> s.token]

FreshToken == changes + 2

\* A token that is missing is generated, and saved when it can be.
Sync(s) ==
    LET full == [s EXCEPT !.token = IF s.enabled /\ s.token = 0 THEN FreshToken ELSE @]
    IN /\ asking' = [value |-> Desired(full), tell |-> ~s.enabled]
       /\ settings' \in {full, s}

CanChange == asking = Silence /\ changes < MaxChange /\ changes' = changes + 1

McpServed == UNCHANGED <<foreign, desired, status, sup, current, servers, req>>

\* update_settings with the switch, and perhaps a port: a server it enables has a token.
Switch ==
    /\ changes > 0 /\ CanChange
    /\ \E on \in BOOLEAN, p \in {settings.port} \cup Port :
         Sync([enabled |-> on, port |-> p,
               token |-> IF on /\ settings.token = 0 THEN FreshToken ELSE settings.token])
    /\ McpServed

\* update_settings with a port alone: it is valid.
SetPort ==
    /\ changes > 0 /\ CanChange
    /\ \E p \in Port : Sync([settings EXCEPT !.port = p])
    /\ McpServed

RegenerateToken ==
    /\ changes > 0 /\ CanChange
    /\ Sync([settings EXCEPT !.token = FreshToken])
    /\ McpServed

\* setup: the settings of the configuration file are applied.
Launch ==
    /\ changes = 0 /\ CanChange
    /\ Sync(settings)
    /\ McpServed

\* request reports Off before it asks for it.
ReportOff ==
    /\ asking.tell /\ asking' = [asking EXCEPT !.tell = FALSE] /\ status' = "off"
    /\ UNCHANGED <<settings, changes, foreign, desired, sup, current, servers, req>>

\* send_replace: a value is news even when it is the same.
Ask ==
    /\ asking # Silence /\ ~asking.tell
    /\ desired' = [value |-> asking.value, new |-> TRUE] /\ asking' = Silence
    /\ UNCHANGED <<settings, changes, foreign, status, sup, current, servers, req>>
-----------------------------------------------------------------------------
(* The supervisor *)

Unasked == UNCHANGED <<settings, changes, foreign, asking>>

\* Mutant of Wake: a server that runs as wanted needs no report.
WakeSilently ==
    /\ sup.at = "waiting" /\ desired.new
    /\ desired' = [desired EXCEPT !.new = FALSE]
    /\ IF current > 0 /\ servers[current].config = desired.value
         THEN UNCHANGED <<status, sup, servers>>
         ELSE /\ sup' = [at |-> IF current > 0 THEN "stopping" ELSE "starting",
                         want |-> desired.value]
              /\ servers' = IF current = 0 THEN servers
                            ELSE [servers EXCEPT ![current].open = FALSE,
                                                 ![current].at = "stopping"]
              /\ UNCHANGED status
    /\ UNCHANGED <<current, req>> /\ Unasked

\* Mutant of Wake: the gate is left to the end of the drain.
WakeGateOpen ==
    /\ sup.at = "waiting" /\ desired.new
    /\ desired' = [desired EXCEPT !.new = FALSE]
    /\ IF current > 0 /\ servers[current].config = desired.value
         THEN status' = "listening" /\ UNCHANGED <<sup, servers>>
         ELSE /\ sup' = [at |-> IF current > 0 THEN "stopping" ELSE "starting",
                         want |-> desired.value]
              /\ servers' = IF current = 0 THEN servers
                            ELSE [servers EXCEPT ![current].at = "stopping"]
              /\ UNCHANGED status
    /\ UNCHANGED <<current, req>> /\ Unasked

\* The supervisor takes the latest value.  A server that runs as wanted is reported again;
\* any other begins its shutdown: the gate closes, then the loop is cancelled.
Wake ==
    /\ sup.at = "waiting" /\ desired.new
    /\ desired' = [desired EXCEPT !.new = FALSE]
    /\ IF current > 0 /\ servers[current].config = desired.value
         THEN status' = "listening" /\ UNCHANGED <<sup, servers>>
         ELSE /\ sup' = [at |-> IF current > 0 THEN "stopping" ELSE "starting",
                         want |-> desired.value]
              /\ servers' = IF current = 0 THEN servers
                            ELSE [servers EXCEPT ![current].open = FALSE,
                                                 ![current].at = "stopping"]
              /\ UNCHANGED status
    /\ UNCHANGED <<current, req>> /\ Unasked

\* Mutant of Released: the shutdown is not awaited.
ReleasedAtOnce ==
    /\ sup.at = "stopping" /\ current' = 0 /\ sup' = [sup EXCEPT !.at = "starting"]
    /\ UNCHANGED <<desired, status, servers, req>> /\ Unasked

\* begin_shutdown resolves when the port is released; the drain is detached.
Released ==
    /\ sup.at = "stopping" /\ servers[current].at \notin {"listening", "stopping"}
    /\ current' = 0 /\ sup' = [sup EXCEPT !.at = "starting"]
    /\ UNCHANGED <<desired, status, servers, req>> /\ Unasked

Taken == foreign \cup {servers[s].config.port : s \in {s \in Server : servers[s].at \in {"listening", "stopping"}}}

Start ==
    /\ sup.at = "starting" /\ sup' = [sup EXCEPT !.at = "waiting"]
    /\ IF sup.want.kind = "listen" /\ sup.want.port \notin Taken
         THEN \E s \in Server :
                /\ servers[s].at = "none" /\ \A q \in Server : servers[q].at = "none" => s <= q
                /\ servers' = [servers EXCEPT ![s] =
                                 [at |-> "listening", config |-> sup.want, open |-> TRUE]]
                /\ current' = s /\ status' = "listening"
         ELSE /\ status' = CASE sup.want = Off -> "off" [] sup.want = Invalid -> "error"
                             [] OTHER -> "port_in_use"
              /\ UNCHANGED <<current, servers>>
    /\ UNCHANGED <<desired, req>> /\ Unasked

Supervise == Wake \/ Released \/ Start
-----------------------------------------------------------------------------
(* The servers and their requests *)

Supervised == UNCHANGED <<settings, changes, foreign, asking, desired, status, sup, current>>

Of(s) == {r \in Request : req[r].server = s}

\* accept_loop ends: the port is free.
ListenerCloses(s) ==
    /\ servers[s].at = "stopping" /\ servers' = [servers EXCEPT ![s].at = "draining"]
    /\ UNCHANGED req /\ Supervised

\* Every connection is over, within the deadline.
Drained(s) ==
    /\ servers[s].at = "draining" /\ \A r \in Of(s) : req[r].at \in Ended
    /\ servers' = [servers EXCEPT ![s].at = "over"]
    /\ UNCHANGED req /\ Supervised

\* The deadline passed: the connections still open are closed without an answer.
Deadline(s) ==
    /\ servers[s].at = "draining" /\ \E r \in Of(s) : req[r].at \notin Ended
    /\ servers' = [servers EXCEPT ![s].at = "over"]
    /\ req' = [r \in Request |->
                 IF r \notin Of(s) \/ req[r].at \in Ended THEN req[r]
                 ELSE [req[r] EXCEPT !.late = req[r].at \in {"writing", "done"},
                                     !.at = IF @ \in {"arrived", "done"} THEN "cut" ELSE @]]
    /\ Supervised

\* A client connects; one with another token than the server's is refused.
Arrive(r, s) ==
    /\ req[r].at = "idle" /\ servers[s].at \in {"listening", "stopping"}
    /\ \E at \in {"arrived", "refused"} : req' = [req EXCEPT ![r].at = at, ![r].server = s]
    /\ UNCHANGED servers /\ Supervised

\* The request passed the gates and its tool is called.
Call(r) ==
    /\ req[r].at = "arrived" /\ req' = [req EXCEPT ![r].at = "called"]
    /\ UNCHANGED servers /\ Supervised

\* The body, or the rest of it, did not come in time: 408.
TimesOut(r) ==
    /\ req[r].at = "arrived" /\ req' = [req EXCEPT ![r].at = "refused"]
    /\ UNCHANGED servers /\ Supervised

\* Whoever waits for the answer of request r is gone once the server is over.
Tell(r, at) == IF servers[req[r].server].at = "over" THEN "cut" ELSE at

\* ensure_writable, immediately before the store.
Check(r) ==
    /\ req[r].at = "called"
    /\ req' = [req EXCEPT ![r].at = IF servers[req[r].server].open THEN "writing"
                                    ELSE Tell(r, "refused")]
    /\ UNCHANGED servers /\ Supervised

\* Mutant of Write: a tool gives up its answer as soon as its server stops.
WriteAbandons(r) ==
    /\ req[r].at = "writing"
    /\ \/ req' = [req EXCEPT ![r].wrote = TRUE,
                             ![r].at = IF servers[req[r].server].open THEN "done" ELSE "cut"]
       \/ req' = [req EXCEPT ![r].at = Tell(r, "refused")]
    /\ UNCHANGED servers /\ Supervised

\* The store commits, or refuses and has written nothing (ReplicaStore).
Write(r) ==
    /\ req[r].at = "writing"
    /\ \/ req' = [req EXCEPT ![r].wrote = TRUE, ![r].at = Tell(r, "done")]
       \/ req' = [req EXCEPT ![r].at = Tell(r, "refused")]
    /\ UNCHANGED servers /\ Supervised

Answered(r) ==
    /\ req[r].at = "done" /\ req' = [req EXCEPT ![r].at = "answered"]
    /\ UNCHANGED servers /\ Supervised

Tool(r) == Check(r) \/ Write(r) \/ Answered(r)

McpNext ==
    \/ Switch \/ SetPort \/ RegenerateToken \/ Launch \/ ReportOff \/ Ask
    \/ Supervise
    \/ \E s \in Server : ListenerCloses(s) \/ Drained(s) \/ Deadline(s)
    \/ \E r \in Request, s \in Server : Arrive(r, s)
    \/ \E r \in Request : Call(r) \/ TimesOut(r) \/ Tool(r)

\* Tasks run and timers fire; clients owe nothing.
McpFairness ==
    /\ WF_mcpVars(Launch) /\ WF_mcpVars((ReportOff \/ Ask)) /\ WF_mcpVars(Supervise)
    /\ \A s \in Server : WF_mcpVars((ListenerCloses(s) \/ Drained(s) \/ Deadline(s)))
    /\ \A r \in Request : WF_mcpVars((TimesOut(r) \/ Tool(r)))

McpSpec == McpInit /\ [][McpNext]_mcpVars /\ McpFairness
-----------------------------------------------------------------------------
(* Properties *)

\* "A client retry is then never a duplicate" (WriteGate): a request whose client got an
\* error or lost its connection wrote nothing - unless its write was under way, or its
\* answer was on its way, as the shutdown deadline passed.
ClientCanRetry == \A r \in Request : req[r].wrote /\ req[r].at \in {"refused", "cut"} => req[r].late

\* A server that is being replaced begins no write: what passes the gate belongs to the
\* server that the supervisor runs, so it holds that server's token and port.
WritesOnTheCurrentServer ==
    [][\A r \in Request : req[r].at = "called" /\ req'[r].at = "writing" =>
         /\ req[r].server = current /\ sup.at # "stopping"]_mcpVars

\* Once the settings stay as they are, the server and the reported status come to agree
\* with them, however requests were coalesced and whatever an old server still holds.
Follows ==
    LET want == Desired(settings)
    IN IF want.kind = "listen" /\ settings.port \notin foreign
         THEN /\ status = "listening" /\ current > 0
              /\ servers[current].config.port = settings.port
              /\ settings.token \in {0, servers[current].config.token}
              /\ servers[current].open
         ELSE /\ current = 0
              /\ status = CASE want = Off -> "off" [] want = Invalid -> "error"
                            [] OTHER -> "port_in_use"
ServerFollowsSettings == <>[]Follows
=============================================================================
