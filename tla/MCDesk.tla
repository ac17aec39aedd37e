--------------------------------- MODULE MCDesk ---------------------------------
(***************************************************************************)
(* The parts of the desktop process around the store, for one run: the     *)
(* window, the MCP server's life, its gates and the commands.  In these    *)
(* modules none reads a variable of another, so interleaving them shows no *)
(* property anything new: each behaviour is one of a single part, while    *)
(* the others stay as they are.                                            *)
(***************************************************************************)
EXTENDS Window, McpService, McpGates, Records

VARIABLE part

Parts == {"window", "service", "gates", "records"}

deskVars == <<part, uiVars, mcpVars, exchange, recVars>>

\* Only the part that runs has a choice of initial states.
Init ==
    /\ part \in Parts
    /\ UiInit /\ McpInit /\ GatesInit /\ RecInit
    /\ part # "window" => ~ready
    /\ part # "service" => ~settings.enabled /\ settings.port = BadPort /\ settings.token = 0
                           /\ foreign = {}

WindowStep  == part = "window" /\ UiNext /\ UNCHANGED <<part, mcpVars, exchange, recVars>>
ServiceStep == part = "service" /\ McpNext /\ UNCHANGED <<part, uiVars, exchange, recVars>>
GatesStep   == part = "gates" /\ GatesNext /\ UNCHANGED <<part, uiVars, mcpVars, recVars>>
RecordsStep == part = "records" /\ RecNext /\ UNCHANGED <<part, uiVars, mcpVars, exchange>>

Next == WindowStep \/ ServiceStep \/ GatesStep \/ RecordsStep

\* The fairness of Window and McpService, for the part that runs.
InWindow  == part = "window"
InService == part = "service"

Spec ==
    /\ Init /\ [][Next]_deskVars
    /\ WF_uiVars(InWindow /\ Notify) /\ WF_uiVars(InWindow /\ WindowEnds)
    /\ WF_uiVars(InWindow /\ Deliver) /\ WF_uiVars(InWindow /\ Answer) /\ WF_uiVars(InWindow /\ Land)
    /\ \A c \in Attempt : WF_uiVars(InWindow /\ TimerFires(c)) /\ WF_uiVars(InWindow /\ TryOpen(c))
    /\ WF_mcpVars(InService /\ Launch) /\ WF_mcpVars(InService /\ (ReportOff \/ Ask))
    /\ WF_mcpVars(InService /\ Supervise)
    /\ \A s \in Server : WF_mcpVars(InService /\ (ListenerCloses(s) \/ Drained(s) \/ Deadline(s)))
    /\ \A r \in Request : WF_mcpVars(InService /\ (TimesOut(r) \/ Tool(r)))
=============================================================================
