---------------------------- MODULE McpServiceProofs ----------------------------
(***************************************************************************)
(* Proofs about McpService, for any requests, ports, settings and numbers  *)
(* of servers: one server holds a port at a time and only the supervisor's *)
(* begins a write, and a client that got no answer can retry.  Last, the   *)
(* gates of McpGates: every message has the answer that is owed to it.     *)
(***************************************************************************)
EXTENDS McpService, McpGates, FiniteSetTheorems, TLAPS

\* A server with a port, or with an open gate, is the supervisor's, and the gate is shut
\* before the supervisor waits for the port.
OneServer ==
    /\ \A s \in Server :
         /\ servers[s].at \in {"listening", "stopping"} => current = s
         /\ servers[s].at = "listening" => sup.at = "waiting"
         /\ servers[s].open => servers[s].at = "listening"
    /\ sup.at = "stopping" => current > 0
    /\ sup.at = "starting" => current = 0

\* Every request belongs to a server that was started; only a tool that was let through
\* wrote; and what a server that is over left behind, and still may write or has written,
\* is known to be late.
TracedOf(r) ==
    /\ req[r].wrote => req[r].at \in {"done", "answered", "cut"}
    /\ req[r].wrote /\ req[r].at = "cut" => req[r].late
    /\ req[r].at # "idle" => req[r].server \in Server /\ servers[req[r].server].at # "none"
    /\ req[r].at # "idle" /\ servers[req[r].server].at = "over"
         => /\ req[r].at \notin {"arrived", "done"}
            /\ req[r].at = "writing" => req[r].late

Traced == \A r \in Request : TracedOf(r)

McpInv == McpTyped /\ OneServer /\ Traced

LEMMA McpStarts == McpInit => McpInv
<1> SUFFICES ASSUME McpInit PROVE McpInv
  OBVIOUS
<1> USE McpAssumption DEF McpInit
<1>1. McpTyped
  BY DEF McpTyped, Server, Token, Wanted, Off, Silence, Nothing, NoServer, NoReq, Status
<1>2. OneServer
  BY DEF OneServer, NoServer
<1>3. Traced
  BY DEF Traced, TracedOf, NoReq
<1> QED BY <1>1, <1>2, <1>3 DEF McpInv

-----------------------------------------------------------------------------
(* Types *)

ServerType  == [at : {"none", "listening", "stopping", "draining", "over"},
                config : Wanted, open : BOOLEAN]
RequestType == [at : {"idle", "arrived", "called", "writing", "done"} \cup Ended,
                server : 0..MaxServer, wrote : BOOLEAN, late : BOOLEAN]

LEMMA ServersHaveTypes ==
    McpTyped <=> /\ servers \in [Server -> ServerType] /\ req \in [Request -> RequestType]
                 /\ settings \in [enabled : BOOLEAN, port : Port \cup {BadPort}, token : Token]
                 /\ changes \in 0..MaxChange /\ foreign \subseteq Port
                 /\ asking \in [value : Wanted \cup {Nothing}, tell : BOOLEAN]
                 /\ desired \in [value : Wanted, new : BOOLEAN] /\ status \in Status
                 /\ sup \in [at : {"waiting", "stopping", "starting"}, want : Wanted]
                 /\ current \in 0..MaxServer
  BY DEF McpTyped, ServerType, RequestType

LEMMA ServerMoves ==
    ASSUME NEW f \in [Server -> ServerType], NEW s \in Server,
           NEW a \in {"none", "listening", "stopping", "draining", "over"}
    PROVE  /\ [f EXCEPT ![s].at = a] \in [Server -> ServerType]
           /\ [f EXCEPT ![s].open = FALSE, ![s].at = a] \in [Server -> ServerType]
<1>1. f[s] \in ServerType
  OBVIOUS
<1>2. /\ [f[s] EXCEPT !.at = a] \in ServerType
      /\ [f[s] EXCEPT !.open = FALSE, !.at = a] \in ServerType
  BY <1>1 DEF ServerType
<1>3. [f EXCEPT ![s].at = a] = [f EXCEPT ![s] = [f[s] EXCEPT !.at = a]]
  OBVIOUS
<1>4. [f EXCEPT ![s].open = FALSE, ![s].at = a]
        = [f EXCEPT ![s] = [f[s] EXCEPT !.open = FALSE, !.at = a]]
  OBVIOUS
<1> QED BY <1>2, <1>3, <1>4

SettingsType == [enabled : BOOLEAN, port : Port \cup {BadPort}, token : Token]

LEMMA DesiredIsWanted ==
    ASSUME NEW s \in SettingsType, s.enabled => s.token # 0
    PROVE  Desired(s) \in Wanted
<1>1. CASE ~s.enabled BY <1>1 DEF Desired, Wanted, SettingsType
<1>2. CASE s.enabled /\ s.port \notin Port BY <1>2 DEF Desired, Wanted, SettingsType
<1>3. CASE s.enabled /\ s.port \in Port
  <2>1. Desired(s) = [kind |-> "listen", port |-> s.port, token |-> s.token]
    BY <1>3 DEF Desired
  <2>2. s.token \in Token \ {0}
    BY <1>3 DEF SettingsType
  <2> QED BY <2>1, <2>2, <1>3 DEF Wanted, Listen
<1> QED BY <1>1, <1>2, <1>3 DEF SettingsType

LEMMA SyncType ==
    ASSUME McpTyped, CanChange, NEW s \in SettingsType, Sync(s), McpServed
    PROVE  McpTyped'
<1> DEFINE full == [s EXCEPT !.token = IF s.enabled /\ s.token = 0 THEN FreshToken ELSE @]
<1>1. FreshToken \in Token /\ FreshToken # 0 /\ changes' \in 0..MaxChange
  BY McpAssumption DEF McpTyped, CanChange, FreshToken, Token
<1>2. full \in SettingsType /\ (full.enabled => full.token # 0)
  BY <1>1 DEF SettingsType
<1>3. Desired(full) \in Wanted
  BY <1>2, DesiredIsWanted
<1>4. asking' = [value |-> Desired(full), tell |-> ~s.enabled] /\ settings' \in {full, s}
  BY DEF Sync
<1>5. (~s.enabled) \in BOOLEAN
  OBVIOUS
<1>6. asking' \in [value : Wanted \cup {Nothing}, tell : BOOLEAN]
  BY <1>3, <1>4, <1>5
<1>7. settings' \in SettingsType
  BY <1>2, <1>4
<1> QED BY <1>1, <1>6, <1>7 DEF McpTyped, McpServed, SettingsType

LEMMA TypeStep == McpTyped /\ [McpNext]_mcpVars => McpTyped'
<1> SUFFICES ASSUME McpTyped, [McpNext]_mcpVars PROVE McpTyped'
  OBVIOUS
<1>1. settings \in SettingsType
  BY DEF McpTyped, SettingsType
<1>2. FreshToken \in Token \/ ~CanChange
  BY McpAssumption DEF McpTyped, CanChange, FreshToken, Token
<1>3. CASE Switch
  <2>1. PICK on \in BOOLEAN, p \in {settings.port} \cup Port :
          Sync([enabled |-> on, port |-> p,
                token |-> IF on /\ settings.token = 0 THEN FreshToken ELSE settings.token])
    BY <1>3 DEF Switch
  <2>2. [enabled |-> on, port |-> p,
         token |-> IF on /\ settings.token = 0 THEN FreshToken ELSE settings.token] \in SettingsType
    BY <1>1, <1>2, <1>3 DEF Switch, SettingsType
  <2> QED BY <1>3, <2>1, <2>2, SyncType DEF Switch
<1>4. CASE SetPort
  <2>1. PICK p \in Port : Sync([settings EXCEPT !.port = p])
    BY <1>4 DEF SetPort
  <2>2. [settings EXCEPT !.port = p] \in SettingsType
    BY <1>1 DEF SettingsType
  <2> QED BY <1>4, <2>1, <2>2, SyncType DEF SetPort
<1>5. CASE RegenerateToken
  <2>1. [settings EXCEPT !.token = FreshToken] \in SettingsType
    BY <1>1, <1>2, <1>5 DEF RegenerateToken, SettingsType
  <2> QED BY <1>5, <2>1, SyncType DEF RegenerateToken
<1>6. CASE Launch BY <1>1, <1>6, SyncType DEF Launch
<1>7. CASE ReportOff BY <1>7 DEF McpTyped, ReportOff, Status
<1>8. CASE Ask
  <2>1. asking.value \in Wanted
    BY <1>8 DEF Ask, Silence, McpTyped
  <2> QED BY <1>8, <2>1 DEF Ask, Silence, McpTyped
<1>9. CASE Wake
  <2>1. desired.value \in Wanted /\ desired' \in [value : Wanted, new : BOOLEAN]
    BY <1>9 DEF Wake, McpTyped
  <2>2. CASE current > 0 /\ servers[current].config = desired.value
    BY <1>9, <2>1, <2>2 DEF Wake, Unasked, McpTyped, Status
  <2>3. CASE ~(current > 0 /\ servers[current].config = desired.value)
    <3>1. sup' \in [at : {"waiting", "stopping", "starting"}, want : Wanted]
      BY <1>9, <2>1, <2>3 DEF Wake
    <3>2. servers' \in [Server -> ServerType]
      <4>1. servers \in [Server -> ServerType] /\ current \in 0..MaxServer
        BY ServersHaveTypes
      <4>2. CASE current = 0
        BY <1>9, <2>3, <4>1, <4>2 DEF Wake
      <4>3. CASE current # 0
        <5>1. current \in Server
          BY <4>1, <4>3, McpAssumption DEF Server
        <5>2. servers' = [servers EXCEPT ![current].open = FALSE, ![current].at = "stopping"]
          BY <1>9, <2>3, <4>3 DEF Wake
        <5> QED BY <4>1, <5>1, <5>2, ServerMoves
      <4> QED BY <4>2, <4>3
    <3>3. UNCHANGED status
      BY <1>9, <2>3 DEF Wake
    <3> QED BY <1>9, <2>1, <3>1, <3>2, <3>3 DEF Wake, Unasked, McpTyped, ServerType
  <2> QED BY <2>2, <2>3
<1>10. CASE Released BY <1>10, McpAssumption DEF McpTyped, Released, Unasked
<1>11. CASE Start
  <2>1. sup.want \in Wanted /\ sup' \in [at : {"waiting", "stopping", "starting"}, want : Wanted]
    BY <1>11 DEF Start, McpTyped
  <2>2. CASE sup.want.kind = "listen" /\ sup.want.port \notin Taken
    <3>1. PICK s \in Server : /\ current' = s /\ status' = "listening"
                              /\ servers' = [servers EXCEPT ![s] =
                                   [at |-> "listening", config |-> sup.want, open |-> TRUE]]
      BY <1>11, <2>2 DEF Start
    <3>2. servers' \in [Server -> ServerType]
      <4>1. servers \in [Server -> ServerType]
        BY ServersHaveTypes
      <4> QED BY <2>1, <3>1, <4>1 DEF ServerType
    <3> QED BY <1>11, <2>1, <3>1, <3>2, McpAssumption DEF Start, Unasked, McpTyped, Status, Server, ServerType
  <2>3. CASE ~(sup.want.kind = "listen" /\ sup.want.port \notin Taken)
    <3>1. status' \in Status /\ UNCHANGED <<current, servers>>
      BY <1>11, <2>3 DEF Start, Status
    <3> QED BY <1>11, <2>1, <3>1 DEF Start, Unasked, McpTyped
  <2> QED BY <2>2, <2>3
<1>12. ASSUME NEW s \in Server, ListenerCloses(s) \/ Drained(s) \/ Deadline(s) PROVE McpTyped'
  <2>1. servers' \in [Server -> ServerType]
    <3>1. servers \in [Server -> ServerType]
      BY ServersHaveTypes
    <3>2. \/ servers' = [servers EXCEPT ![s].at = "draining"]
          \/ servers' = [servers EXCEPT ![s].at = "over"]
      BY <1>12 DEF ListenerCloses, Drained, Deadline
    <3>3. [servers EXCEPT ![s].at = "draining"] \in [Server -> ServerType]
      BY <3>1, ServerMoves
    <3>4. [servers EXCEPT ![s].at = "over"] \in [Server -> ServerType]
      BY <3>1, ServerMoves
    <3> QED BY <3>2, <3>3, <3>4
  <2>2. req' \in [Request -> RequestType]
    <3>1. CASE Deadline(s)
      <4>1. ASSUME NEW r \in Request
            PROVE  (IF r \notin Of(s) \/ req[r].at \in Ended THEN req[r]
                    ELSE [req[r] EXCEPT !.late = req[r].at \in {"writing", "done"},
                                        !.at = IF @ \in {"arrived", "done"} THEN "cut" ELSE @])
                   \in RequestType
        <5>1. req[r] \in RequestType
          BY ServersHaveTypes
        <5>2. (req[r].at \in {"writing", "done"}) \in BOOLEAN
          OBVIOUS
        <5> QED BY <5>1, <5>2 DEF RequestType, Ended
      <4>2. req' = [r \in Request |->
                      IF r \notin Of(s) \/ req[r].at \in Ended THEN req[r]
                      ELSE [req[r] EXCEPT !.late = req[r].at \in {"writing", "done"},
                                          !.at = IF @ \in {"arrived", "done"} THEN "cut" ELSE @]]
        BY <3>1 DEF Deadline
      <4> HIDE DEF RequestType
      <4> QED BY <4>1, <4>2
    <3>2. CASE UNCHANGED req BY <3>2, ServersHaveTypes
    <3> QED BY <1>12, <3>1, <3>2 DEF ListenerCloses, Drained
  <2> QED BY <1>12, <2>1, <2>2 DEF ListenerCloses, Drained, Deadline, Supervised, McpTyped, ServerType, RequestType
<1>13. ASSUME NEW r \in Request, NEW s \in Server, Arrive(r, s) PROVE McpTyped'
  <2>1. PICK at \in {"arrived", "refused"} : req' = [req EXCEPT ![r].at = at, ![r].server = s]
    BY <1>13 DEF Arrive
  <2>2. s \in 0..MaxServer
    BY McpAssumption DEF Server
  <2>3. req' \in [Request -> RequestType]
    <3>1. req \in [Request -> RequestType] /\ req[r] \in RequestType
      BY ServersHaveTypes
    <3>2. [req[r] EXCEPT !.at = at, !.server = s] \in RequestType
      BY <2>2, <3>1 DEF RequestType, Ended
    <3>3. req' = [req EXCEPT ![r] = [req[r] EXCEPT !.at = at, !.server = s]]
      BY <2>1, <3>1
    <3> QED BY <3>1, <3>2, <3>3
  <2> QED BY <1>13, <2>3 DEF Arrive, Supervised, McpTyped, RequestType
<1>14. ASSUME NEW r \in Request, Call(r) \/ TimesOut(r) \/ Tool(r) PROVE McpTyped'
  <2>1. req' \in [Request -> RequestType]
    BY <1>14 DEF Call, TimesOut, Tool, Check, Write, Answered, Tell, McpTyped, RequestType, Ended
  <2> QED BY <1>14, <2>1 DEF Call, TimesOut, Tool, Check, Write, Answered, Supervised, McpTyped, RequestType
<1>15. CASE UNCHANGED mcpVars BY <1>15 DEF mcpVars, McpTyped
<1> QED BY <1>3, <1>4, <1>5, <1>6, <1>7, <1>8, <1>9, <1>10, <1>11, <1>12, <1>13, <1>14, <1>15
        DEF McpNext, Supervise

-----------------------------------------------------------------------------
(* One server *)

\* What a step that leaves the supervisor and the servers alone keeps.
LEMMA OneServerStays ==
    OneServer /\ UNCHANGED <<servers, current, sup>> => OneServer'
  BY DEF OneServer

LEMMA OneServerStep == McpTyped /\ OneServer /\ [McpNext]_mcpVars => OneServer'
<1> SUFFICES ASSUME McpTyped, OneServer, [McpNext]_mcpVars PROVE OneServer'
  OBVIOUS
<1> USE McpAssumption
<1>1. servers \in [Server -> ServerType] /\ current \in 0..MaxServer
  BY ServersHaveTypes
<1>2. CASE Switch \/ SetPort \/ RegenerateToken \/ Launch
  BY <1>2, OneServerStays DEF Switch, SetPort, RegenerateToken, Launch, McpServed
<1>3. CASE ReportOff \/ Ask BY <1>3, OneServerStays DEF ReportOff, Ask
<1>4. CASE Wake
  <2>1. CASE current > 0 /\ servers[current].config = desired.value
    BY <1>4, <2>1, OneServerStays DEF Wake
  <2>2. CASE current = 0
    <3>1. UNCHANGED <<servers, current>> /\ sup'.at = "starting"
      BY <1>4, <2>2 DEF Wake
    <3> QED BY <2>2, <3>1 DEF OneServer, Server
  <2>3. CASE current > 0 /\ servers[current].config # desired.value
    <3>1. current \in Server
      BY <1>1, <2>3 DEF Server
    <3>2. current # 0 /\ ~(current > 0 /\ servers[current].config = desired.value)
      BY <2>3, <1>1
    <3>3. sup'.at = "stopping" /\ current' = current
      BY <1>4, <2>3, <3>2 DEF Wake
    <3>4. servers' = [servers EXCEPT ![current].open = FALSE, ![current].at = "stopping"]
      BY <1>4, <3>2 DEF Wake
    <3>5. \A s \in Server : s # current => servers'[s] = servers[s]
      BY <3>4, <1>1
    <3>6. servers'[current].at = "stopping" /\ servers'[current].open = FALSE
      BY <3>1, <3>4, <1>1 DEF ServerType
    <3> QED BY <2>3, <3>1, <3>3, <3>5, <3>6 DEF OneServer
  <2> QED BY <1>1, <2>1, <2>2, <2>3
<1>5. CASE Released
  <2>1. /\ current' = 0 /\ sup'.at = "starting" /\ UNCHANGED servers
        /\ servers[current].at \notin {"listening", "stopping"}
    BY <1>5 DEF Released, McpTyped
  <2> QED BY <2>1 DEF OneServer
<1>6. CASE Start
  <2>1. sup.at = "starting" /\ sup'.at = "waiting" /\ current = 0
    BY <1>6 DEF Start, OneServer, McpTyped
  <2>2. CASE UNCHANGED <<current, servers>>
    BY <2>1, <2>2 DEF OneServer
  <2>3. ASSUME NEW s \in Server, current' = s,
               servers' = [servers EXCEPT ![s] =
                             [at |-> "listening", config |-> sup.want, open |-> TRUE]]
        PROVE  OneServer'
    <3>1. \A q \in Server : q # s => servers'[q] = servers[q]
      BY <2>3, <1>1
    <3>2. s > 0
      BY DEF Server
    <3>3. \A q \in Server : q # s => servers'[q].at \notin {"listening", "stopping"}
                                    /\ ~servers'[q].open
      BY <2>1, <3>1 DEF OneServer, Server
    <3>4. servers'[s].at = "listening"
      BY <2>3, <1>1
    <3> QED BY <2>1, <2>3, <3>2, <3>3, <3>4 DEF OneServer
  <2> QED BY <1>6, <2>2, <2>3 DEF Start
<1>7. ASSUME NEW s \in Server, ListenerCloses(s) \/ Drained(s) \/ Deadline(s) PROVE OneServer'
  <2>1. /\ \E a \in {"draining", "over"} : servers' = [servers EXCEPT ![s].at = a]
        /\ servers[s].at # "listening" /\ UNCHANGED <<current, sup>>
    BY <1>7 DEF ListenerCloses, Drained, Deadline, Supervised
  <2>2. \A q \in Server : q # s => servers'[q] = servers[q]
    BY <2>1, <1>1
  <2>3. servers'[s].at \in {"draining", "over"} /\ servers'[s].open = servers[s].open
    BY <2>1, <1>1 DEF ServerType
  <2> QED BY <2>1, <2>2, <2>3 DEF OneServer
<1>8. ASSUME NEW r \in Request, NEW s \in Server, Arrive(r, s) PROVE OneServer'
  BY <1>8, OneServerStays DEF Arrive, Supervised
<1>9. ASSUME NEW r \in Request, Call(r) \/ TimesOut(r) \/ Tool(r) PROVE OneServer'
  BY <1>9, OneServerStays DEF Call, TimesOut, Tool, Check, Write, Answered, Supervised
<1>10. CASE UNCHANGED mcpVars BY <1>10, OneServerStays DEF mcpVars
<1> QED BY <1>2, <1>3, <1>4, <1>5, <1>6, <1>7, <1>8, <1>9, <1>10 DEF McpNext, Supervise

-----------------------------------------------------------------------------
(* Requests *)

\* A step that neither touches the requests nor ends a server keeps what is known of them.
LEMMA TracedStays ==
    ASSUME Traced, UNCHANGED req,
           \A s \in Server : /\ servers'[s].at = "over" => servers[s].at = "over"
                             /\ servers[s].at # "none" => servers'[s].at # "none"
    PROVE  Traced'
  BY DEF Traced, TracedOf

\* A step of one request, with the servers as they are.
LEMMA TracedByOne ==
    ASSUME McpTyped, Traced, UNCHANGED servers, NEW r \in Request, NEW q,
           req' = [req EXCEPT ![r] = q], TracedOf(r)'
    PROVE  Traced'
<1>1. \A p \in Request : p # r => req'[p] = req[p]
  BY ServersHaveTypes
<1>2. ASSUME NEW p \in Request, p # r PROVE TracedOf(p)'
  <2>1. TracedOf(p) /\ req'[p] = req[p]
    BY <1>1, <1>2 DEF Traced
  <2> QED BY <2>1 DEF TracedOf
<1> QED BY <1>2 DEF Traced

LEMMA TracedStep == McpTyped /\ OneServer /\ Traced /\ [McpNext]_mcpVars => Traced'
<1> SUFFICES ASSUME McpTyped, OneServer, Traced, [McpNext]_mcpVars PROVE Traced'
  OBVIOUS
<1>1. servers \in [Server -> ServerType] /\ req \in [Request -> RequestType]
      /\ current \in 0..MaxServer
  BY ServersHaveTypes
<1>2. CASE Switch \/ SetPort \/ RegenerateToken \/ Launch
  BY <1>2, TracedStays DEF Switch, SetPort, RegenerateToken, Launch, McpServed
<1>3. CASE ReportOff \/ Ask \/ Released
  BY <1>3, TracedStays DEF ReportOff, Ask, Released
<1>4. CASE Wake
  <2>1. CASE UNCHANGED servers
    BY <1>4, <2>1, TracedStays DEF Wake
  <2>2. CASE servers' = [servers EXCEPT ![current].open = FALSE, ![current].at = "stopping"]
    <3>1. \A s \in Server : servers'[s] = servers[s] \/ servers'[s].at = "stopping"
      BY <2>2, <1>1 DEF ServerType
    <3> QED BY <1>4, <3>1, TracedStays DEF Wake
  <2> QED BY <1>4, <2>1, <2>2 DEF Wake
<1>5. CASE Start
  <2>1. CASE UNCHANGED servers
    BY <1>5, <2>1, TracedStays DEF Start
  <2>2. ASSUME NEW s \in Server,
               servers' = [servers EXCEPT ![s] =
                             [at |-> "listening", config |-> sup.want, open |-> TRUE]]
        PROVE  Traced'
    <3>1. \A p \in Server : servers'[p] = servers[p] \/ servers'[p].at = "listening"
      BY <2>2, <1>1
    <3> QED BY <1>5, <3>1, TracedStays DEF Start
  <2> QED BY <1>5, <2>1, <2>2 DEF Start
<1>6. ASSUME NEW s \in Server, ListenerCloses(s) PROVE Traced'
  <2>1. \A p \in Server : servers'[p] = servers[p] \/ servers'[p].at = "draining"
    BY <1>6, <1>1 DEF ListenerCloses, ServerType
  <2> QED BY <1>6, <2>1, TracedStays DEF ListenerCloses
<1>7. ASSUME NEW s \in Server, Drained(s) \/ Deadline(s) PROVE Traced'
  <2>1. /\ servers'[s].at = "over" /\ servers[s].at = "draining"
        /\ \A p \in Server : p # s => servers'[p] = servers[p]
    BY <1>7, <1>1 DEF Drained, Deadline, ServerType
  <2>2. ASSUME NEW r \in Request, r \notin Of(s) PROVE TracedOf(r)'
    <3>1. req'[r] = req[r] /\ req[r].server # s
      BY <1>7, <2>2 DEF Drained, Deadline, Of
    <3> QED BY <2>1, <3>1 DEF Traced, TracedOf
  <2>3. ASSUME NEW r \in Of(s), req[r].at \in Ended PROVE TracedOf(r)'
    <3>1. r \in Request /\ req'[r] = req[r] /\ req[r].server = s
      BY <1>7, <2>3 DEF Drained, Deadline, Of
    <3> QED BY <2>1, <2>3, <3>1 DEF Traced, TracedOf, Ended
  <2>4. ASSUME NEW r \in Of(s), req[r].at \notin Ended PROVE TracedOf(r)'
    <3>1. r \in Request /\ req[r].server = s
      BY DEF Of
    <3>2. req'[r] = [req[r] EXCEPT !.late = req[r].at \in {"writing", "done"},
                                   !.at = IF @ \in {"arrived", "done"} THEN "cut" ELSE @]
      BY <1>7, <2>4, <3>1 DEF Drained, Deadline
    <3>3. req[r] \in RequestType
      BY <1>1, <3>1
    <3>4. /\ req'[r].server = s /\ req'[r].wrote = req[r].wrote
          /\ req'[r].at = IF req[r].at \in {"arrived", "done"} THEN "cut" ELSE req[r].at
      BY <3>1, <3>2, <3>3 DEF RequestType
    <3>5. req'[r].late = (req[r].at \in {"writing", "done"})
      BY <3>2, <3>3 DEF RequestType
    <3>6. req[r].at \in {"writing", "done"} => req'[r].late
      BY <3>5
    <3>7. TracedOf(r)
      BY <3>1 DEF Traced
    <3> QED BY <2>1, <2>4, <3>1, <3>4, <3>6, <3>7 DEF TracedOf, Ended
  <2> QED BY <2>2, <2>3, <2>4 DEF Traced
<1>8. ASSUME NEW r \in Request, NEW s \in Server, Arrive(r, s) PROVE Traced'
  <2>1. PICK at \in {"arrived", "refused"} : req' = [req EXCEPT ![r].at = at, ![r].server = s]
    BY <1>8 DEF Arrive
  <2> DEFINE q == [req[r] EXCEPT !.at = at, !.server = s]
  <2>2. req' = [req EXCEPT ![r] = q]
    BY <2>1
  <2>3. q.at = at /\ q.server = s /\ q.wrote = req[r].wrote /\ ~req[r].wrote
    BY <1>1, <1>8 DEF Arrive, RequestType, Traced, TracedOf
  <2>4. UNCHANGED servers /\ servers[s].at \in {"listening", "stopping"}
    BY <1>8 DEF Arrive
  <2> HIDE DEF q
  <2>5. req'[r] = q
    BY <1>1, <2>2
  <2>6. req'[r].at = at /\ req'[r].server = s /\ ~req'[r].wrote
    BY <2>3, <2>5
  <2>7. TracedOf(r)'
    BY <2>4, <2>6 DEF TracedOf
  <2> QED BY <2>2, <2>4, <2>7, TracedByOne
<1>9. ASSUME NEW r \in Request, Call(r) \/ TimesOut(r) \/ Tool(r) PROVE Traced'
  <2>1. /\ req[r] \in RequestType /\ TracedOf(r) /\ UNCHANGED servers
        /\ req[r].at \in {"arrived", "called", "writing", "done"}
    BY <1>1, <1>9 DEF Traced, Call, TimesOut, Tool, Check, Write, Answered
  <2>2. ASSUME NEW a, NEW w \in BOOLEAN, req' = [req EXCEPT ![r] = [req[r] EXCEPT !.wrote = w, !.at = a]],
               \/ a \in {"called", "refused"} /\ ~w
               \/ a = "cut" /\ (w => req[r].late)
               \/ a = "writing" /\ ~w /\ servers[req[r].server].at # "over"
               \/ a = "done" /\ servers[req[r].server].at # "over"
               \/ a = "answered"
        PROVE  Traced'
    <3>1. req'[r] = [req[r] EXCEPT !.wrote = w, !.at = a]
      BY <1>1, <2>2
    <3>2. /\ req'[r].at = a /\ req'[r].wrote = w
          /\ req'[r].server = req[r].server /\ req'[r].late = req[r].late
      BY <2>1, <3>1 DEF RequestType
    <3>3. req[r].server \in Server /\ servers[req[r].server].at # "none"
      BY <2>1 DEF TracedOf
    <3>4. TracedOf(r)'
      BY <2>1, <2>2, <3>2, <3>3 DEF TracedOf
    <3> QED BY <2>1, <2>2, <3>4, TracedByOne
  <2>3. CASE Call(r)
    <3>1. req' = [req EXCEPT ![r] = [req[r] EXCEPT !.wrote = FALSE, !.at = "called"]]
      BY <2>1, <2>3 DEF Call, TracedOf, RequestType
    <3> QED BY <2>2, <3>1
  <2>4. CASE TimesOut(r)
    <3>1. req' = [req EXCEPT ![r] = [req[r] EXCEPT !.wrote = FALSE, !.at = "refused"]]
      BY <2>1, <2>4 DEF TimesOut, TracedOf, RequestType
    <3> QED BY <2>2, <3>1
  <2>5. CASE Check(r)
    <3>1. ~req[r].wrote /\ req[r].server \in Server
      BY <2>1, <2>5 DEF Check, TracedOf
    <3>2. CASE servers[req[r].server].open
      <4>1. req' = [req EXCEPT ![r] = [req[r] EXCEPT !.wrote = FALSE, !.at = "writing"]]
        BY <2>1, <2>5, <3>1, <3>2 DEF Check, RequestType
      <4>2. servers[req[r].server].at # "over"
        BY <3>1, <3>2 DEF OneServer
      <4> QED BY <2>2, <4>1, <4>2
    <3>3. CASE ~servers[req[r].server].open
      <4>1. req' = [req EXCEPT ![r] = [req[r] EXCEPT !.wrote = FALSE, !.at = Tell(r, "refused")]]
        BY <2>1, <2>5, <3>1, <3>3 DEF Check, RequestType
      <4>2. Tell(r, "refused") \in {"cut", "refused"}
        BY DEF Tell
      <4> QED BY <2>2, <4>1, <4>2
    <3> QED BY <3>2, <3>3
  <2>6. CASE Write(r)
    <3>1. CASE req' = [req EXCEPT ![r].wrote = TRUE, ![r].at = Tell(r, "done")]
      <4>1. req' = [req EXCEPT ![r] = [req[r] EXCEPT !.wrote = TRUE, !.at = Tell(r, "done")]]
        BY <3>1
      <4>2. \/ Tell(r, "done") = "cut" /\ req[r].late
            \/ Tell(r, "done") = "done" /\ servers[req[r].server].at # "over"
        BY <2>1, <2>6 DEF Tell, Write, TracedOf
      <4> QED BY <2>2, <4>1, <4>2
    <3>2. CASE req' = [req EXCEPT ![r].at = Tell(r, "refused")]
      <4>1. Tell(r, "refused") \in {"cut", "refused"} /\ ~req[r].wrote
        BY <2>1, <2>6 DEF Tell, Write, TracedOf
      <4>2. req' = [req EXCEPT ![r] = [req[r] EXCEPT !.wrote = FALSE, !.at = Tell(r, "refused")]]
        BY <2>1, <3>2, <4>1 DEF RequestType
      <4> QED BY <2>2, <4>1, <4>2
    <3> QED BY <2>6, <3>1, <3>2 DEF Write
  <2>7. CASE Answered(r)
    <3>1. req' = [req EXCEPT ![r] = [req[r] EXCEPT !.wrote = req[r].wrote, !.at = "answered"]]
      BY <2>1, <2>7 DEF Answered, RequestType
    <3>2. req[r].wrote \in BOOLEAN
      BY <2>1 DEF RequestType
    <3> QED BY <2>2, <3>1, <3>2
  <2> QED BY <1>9, <2>3, <2>4, <2>5, <2>6, <2>7 DEF Tool
<1>10. CASE UNCHANGED mcpVars BY <1>10, TracedStays DEF mcpVars
<1> QED BY <1>2, <1>3, <1>4, <1>5, <1>6, <1>7, <1>8, <1>9, <1>10 DEF McpNext, Supervise
\* A called request begins its write in no other way than at the gate.
LEMMA OnlyTheGateLetsThrough ==
    ASSUME McpTyped, [McpNext]_mcpVars, NEW r \in Request,
           req[r].at = "called", req'[r].at = "writing"
    PROVE  Check(r)
<1>1. req \in [Request -> RequestType]
  BY ServersHaveTypes
<1>2. ~UNCHANGED req
  OBVIOUS
<1>3. ASSUME NEW s \in Server, Deadline(s) PROVE FALSE
  <2>1. req'[r] = req[r] \/ req'[r] = [req[r] EXCEPT !.late = req[r].at \in {"writing", "done"},
                                   !.at = IF @ \in {"arrived", "done"} THEN "cut" ELSE @]
    BY <1>3 DEF Deadline
  <2>2. req'[r].at = "called"
    BY <1>1, <2>1 DEF RequestType
  <2> QED BY <2>2
<1>4. ASSUME NEW p \in Request, p # r, req'[r] = req[r] PROVE FALSE
  BY <1>4
<1>5. ASSUME NEW p \in Request, NEW s \in Server, Arrive(p, s) PROVE FALSE
  <2>1. PICK at \in {"arrived", "refused"} : req' = [req EXCEPT ![p].at = at, ![p].server = s]
    BY <1>5 DEF Arrive
  <2>2. p # r
    BY <1>5 DEF Arrive
  <2> QED BY <1>1, <1>4, <2>1, <2>2
<1>6. ASSUME NEW p \in Request, Call(p) \/ TimesOut(p) \/ Tool(p) PROVE Check(r)
  <2>1. CASE p = r
    BY <1>6, <2>1 DEF Call, TimesOut, Tool, Write, Answered
  <2>2. CASE p # r
    <3>1. req'[r] = req[r]
      BY <1>1, <1>6, <2>2 DEF Call, TimesOut, Tool, Check, Write, Answered
    <3> QED BY <1>4, <2>2, <3>1
  <2> QED BY <2>1, <2>2
<1> QED BY <1>2, <1>3, <1>5, <1>6
        DEF McpNext, mcpVars, Switch, SetPort, RegenerateToken, Launch, McpServed, ReportOff, Ask,
            Supervise, Wake, Released, Start, ListenerCloses, Drained
-----------------------------------------------------------------------------
(* The theorems *)

LEMMA McpInvariance == McpSpec => []McpInv
<1>1. McpInv /\ [McpNext]_mcpVars => McpInv'
  BY TypeStep, OneServerStep, TracedStep DEF McpInv
<1> QED BY <1>1, McpStarts, PTL DEF McpSpec

\* The server's life has its types, and two servers never hold a port at once: the
\* supervisor waits for the old listener before it starts the next (run_supervisor).
THEOREM McpTypeCorrect == McpSpec => []McpTypeOK
<1>1. McpInv => McpTypeOK
  <2> SUFFICES ASSUME McpInv PROVE McpTypeOK
    OBVIOUS
  <2> DEFINE holders == {s \in Server : servers[s].at \in {"listening", "stopping"}}
  <2>1. holders \subseteq {current}
    BY DEF McpInv, OneServer
  <2>2. Cardinality({current}) = 1 /\ IsFiniteSet({current})
    BY FS_Singleton
  <2>3. Cardinality(holders) <= 1
    BY <2>1, <2>2, FS_Subset
  <2> QED BY <2>3 DEF McpInv, OneServer, McpTypeOK
<1> QED BY <1>1, McpInvariance, PTL

\* A client that got an error, or lost its connection, can send its request again without
\* a duplicate, unless the shutdown deadline passed over a write that had begun (WriteGate).
THEOREM RetryIsSafe == McpSpec => []ClientCanRetry
<1>1. McpInv => ClientCanRetry
  BY DEF McpInv, Traced, TracedOf, ClientCanRetry
<1> QED BY <1>1, McpInvariance, PTL

\* Whatever passes the write gate belongs to the server that the supervisor runs and is
\* not stopping (WriteGate, begin_shutdown).
THEOREM GateIsTheSupervisors == McpSpec => WritesOnTheCurrentServer
<1>1. McpInv /\ [McpNext]_mcpVars =>
        [\A r \in Request : req[r].at = "called" /\ req'[r].at = "writing" =>
           /\ req[r].server = current /\ sup.at # "stopping"]_mcpVars
  <2> SUFFICES ASSUME McpInv, [McpNext]_mcpVars, NEW r \in Request,
                      req[r].at = "called", req'[r].at = "writing"
               PROVE  req[r].server = current /\ sup.at # "stopping"
    OBVIOUS
  <2>1. req \in [Request -> RequestType] /\ req[r].server \in Server
    BY ServersHaveTypes DEF McpInv, Traced, TracedOf
  <2>2. Check(r)
    BY <2>1, OnlyTheGateLetsThrough DEF McpInv
  <2>3. servers[req[r].server].open
    BY <2>1, <2>2 DEF Check, Tell, RequestType
  <2> QED BY <2>1, <2>3 DEF McpInv, OneServer
<1> QED BY <1>1, McpInvariance, PTL DEF McpSpec, WritesOnTheCurrentServer
-----------------------------------------------------------------------------
(* The gates *)

\* The message that was sent last has the reply of the gates.
Exchanged == exchange = <<>> \/ \E m \in Message : exchange = <<m, Reply(m)>>

\* What the gates ask of a message is what makes it well formed.
LEMMA GateChecksTheForm ==
    ASSUME NEW m \in Message
    PROVE  GateCheck(m) =
               IF WellFormed(m) THEN Passed
               ELSE IF m.body # "object" THEN Failure(400, "null") ELSE Rejected(m.rpc)
BY DEF Message, Rpc, GateCheck, WellFormed, BadCall, Bare

\* The reply to a message fits it, whichever layer gives it: to a client that is not let
\* in, to one whose message is not read, and to a message that is checked.
LEMMA RepliesFit ==
    ASSUME NEW m \in Message, exchange = <<m, Reply(m)>>
    PROVE  AnswersFitTheirMessages
<1> DEFINE known == m.http.origin # "foreign" /\ m.http.bearer
           read  == known /\ m.http.post /\ m.http.json /\ m.body \notin {"late", "large"}
<1>1. /\ m.http \in Http /\ m.rpc \in Rpc /\ m.body \in Body
      /\ m.body # "object" => m.rpc = Bare
  <2>1. Bare \in Rpc
    BY DEF Rpc, Bare, Params
  <2>2. "object" \in Body
    BY DEF Body
  <2> QED BY <2>1, <2>2 DEF Message
<1>2. exchange[1] = m /\ exchange[2] = Reply(m)
  OBVIOUS
<1>3. CASE ~known
  <2>1. Reply(m) \in {Empty(403), Empty(401)}
    BY <1>1, <1>3 DEF Reply, Http
  <2> QED BY <1>1, <1>2, <1>3, <2>1 DEF AnswersFitTheirMessages, Empty, Passed
<1>4. CASE known /\ ~read
  <2>1. Reply(m) \in {Passed, Failure(406, "null"), Failure(408, "null"), Failure(413, "null"),
                      Failure(415, "null")} /\ (Reply(m) = Passed => ~m.http.post)
    BY <1>1, <1>4 DEF Reply, Dispatch, Rewritten, Http, Failure, Passed
  <2> QED BY <1>1, <1>2, <1>4, <2>1 DEF AnswersFitTheirMessages, Failure, Passed
<1>5. CASE read /\ ~WellFormed(m)
  <2>1. GateCheck(m) = IF m.body # "object" THEN Failure(400, "null") ELSE Rejected(m.rpc)
    BY <1>5, GateChecksTheForm
  <2>2. Rejected(m.rpc) = CASE m.rpc.id = "absent" -> Empty(202)
                            [] m.rpc.id = "valid"  -> Failure(200, "echoed")
                            [] m.rpc.id = "other"  -> Failure(400, "null")
    BY <1>1 DEF Rejected, Rpc
  <2>3. GateCheck(m) # Passed
    BY <1>1, <2>1, <2>2 DEF Empty, Failure, Passed, Rpc
  <2>4. Reply(m) = GateCheck(m)
    BY <1>1, <1>5, <2>3 DEF Reply, Dispatch, Http
  <2> QED BY <1>1, <1>2, <1>5, <2>1, <2>2, <2>4
          DEF AnswersFitTheirMessages, Empty, Failure, Passed, Rpc
<1>6. CASE read /\ WellFormed(m)
  <2>1. GateCheck(m) = Passed
    BY <1>6, GateChecksTheForm
  <2>2. Reply(m) = Rewritten(m)
    BY <1>1, <1>6, <2>1 DEF Reply, Dispatch, Http
  <2>3. Reply(m) \in {Passed, Failure(406, "null")}
    BY <2>2 DEF Rewritten
  <2> QED BY <1>1, <1>2, <1>6, <2>3 DEF AnswersFitTheirMessages, Failure, Passed
<1> QED BY <1>3, <1>4, <1>5, <1>6

\* Whatever a client sends, the layer that answers owes it that answer: a request is
\* answered under its id, a notification never gets a body, an error without an id says
\* so, and only well-formed messages of a client that is let in reach rmcp (the layers of
\* mcp_router with auth.rs and jsonrpc_http.rs).
THEOREM RightAnswers == GatesSpec => []AnswersFitTheirMessages
<1>1. GatesInit => Exchanged
  BY DEF GatesInit, Exchanged
<1>2. Exchanged /\ [GatesNext]_exchange => Exchanged'
  BY DEF GatesNext, Exchanged
<1>3. Exchanged => AnswersFitTheirMessages
  <2> SUFFICES ASSUME Exchanged PROVE AnswersFitTheirMessages
    OBVIOUS
  <2>1. CASE exchange = <<>>
    BY <2>1 DEF AnswersFitTheirMessages
  <2>2. CASE \E m \in Message : exchange = <<m, Reply(m)>>
    BY <2>2, RepliesFit
  <2> QED BY <2>1, <2>2 DEF Exchanged
<1> QED BY <1>1, <1>2, <1>3, PTL DEF GatesSpec
=============================================================================
