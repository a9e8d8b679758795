---------------------------- MODULE ControlRules ----------------------------
(***************************************************************************)
(* Flow rules as infmonctl manages them: its commands (cli/main.rs,        *)
(* ipc/control_client.rs), the frontend's control server (control.rs),     *)
(* which serves one connection at a time and keeps its own list of rules,  *)
(* and the backend it forwards additions and removals to                   *)
(* (vapi_control_client.rs).  The backend's rule set is FlowRule's; what   *)
(* it installs is the rule its message handler reads (RuleMessage).        *)
(*                                                                         *)
(* Faults: a client gives up while its request stays in the socket's       *)
(* backlog; the backend carries a request out and its reply is lost; the   *)
(* frontend restarts, even between the backend's reply and its own         *)
(* update; VPP restarts, which the control client's handle does not        *)
(* survive.                                                                *)
(***************************************************************************)
EXTENDS RuleMessage, FiniteSets

CONSTANTS
    Clients,        \* invocations of infmonctl that may run side by side
    Rules,          \* the rules their commands are about
    Configured,     \* config.flow_rules
    MAX_COMMANDS,   \* bound: commands in a behaviour
    MAX_FAULTS      \* bound: lost replies, and restarts of either program

NamesOf(s) == {s[i].name : i \in DOMAIN s}
DistinctNames(s) == \A i, j \in DOMAIN s : s[i].name = s[j].name => i = j

\* validate_config refuses a configuration that uses a name twice.
ASSUME ConfiguredAssumption ==
    Configured \in Seq(Range(Configured)) /\ DistinctNames(Configured)
ASSUME ClientsAssumption == "none" \notin Clients
ASSUME BoundsAssumption == MAX_COMMANDS \in Nat /\ MAX_FAULTS \in Nat

VARIABLES
    rules,          \* ControlState.flow_rules
    rule_id_map,    \* ControlState.rule_id_map: name -> backend id
    vapi,           \* vapi_control: "none", "connected", or its VPP is "gone"
    server,         \* where run_server stands ("down": no frontend runs)
    request,        \* the request in hand
    backend_id,     \* what the backend's answer to it was (0: an error)
    backlog,        \* requests sent and not yet read, oldest first
    waiting,        \* the seq each client waits for (0: it does not)
    exit,           \* the exit code of its last command
    set,            \* the backend's rule set
    ids,            \* and the ids of its rules, position by position
    issued,         \* ids issued
    sent,           \* commands sent
    lost, restarts  \* faults so far

clientvars == <<waiting, exit, sent>>
backendvars == <<set, ids, issued, lost>>
servervars == <<rules, rule_id_map, vapi, server, request, backend_id>>
vars == <<clientvars, backendvars, servervars, backlog, restarts>>

Idle == [client |-> "none"]

\* rm and show carry a name, for which one of the rules with it stands
Commands ==
    LET Named(r) == CHOOSE s \in Rules : s.name = r.name
    IN {command \in [client : Clients, seq : 1..MAX_COMMANDS,
                     op : {"add", "rm", "show"}, rule : Rules] :
          command.op = "add" \/ command.rule = Named(command.rule)}

\* Frontend::start: the configured rules are listed; the control client may
\* fail to connect, which leaves the frontend to itself ("local-only").
Start ==
    /\ rules' = Configured
    /\ rule_id_map' = << >>
    /\ vapi' \in {"none", "connected"}
    /\ server' = "accept" /\ request' = Idle /\ backend_id' = 0

Init ==
    /\ rules = Configured /\ rule_id_map = << >>
    /\ vapi \in {"none", "connected"}
    /\ server = "accept" /\ request = Idle /\ backend_id = 0
    /\ backlog = << >>
    /\ waiting = [c \in Clients |-> 0] /\ exit = [c \in Clients |-> 0]
    /\ set = EmptyRuleSet /\ ids = << >> /\ issued = 0
    /\ sent = 0 /\ lost = 0 /\ restarts = 0

(***************************************************************************)
(* infmonctl: a command that got past its root check and its parser.       *)
(***************************************************************************)
Send(command) ==
    /\ waiting[command.client] = 0
    /\ sent < MAX_COMMANDS /\ command.seq = sent + 1
    /\ sent' = sent + 1
    /\ IF server = "down"
       THEN /\ exit' = [exit EXCEPT ![command.client] = 4]
            /\ UNCHANGED <<waiting, backlog>>
       ELSE /\ backlog' = Append(backlog, command)
            /\ waiting' = [waiting EXCEPT ![command.client] = command.seq]
            /\ exit' = [exit EXCEPT ![command.client] = 0]
    /\ UNCHANGED <<backendvars, servervars, restarts>>

\* rpc's timeout: the request stays where it is.
GiveUp(c) ==
    /\ waiting[c] # 0
    /\ waiting' = [waiting EXCEPT ![c] = 0]
    /\ exit' = [exit EXCEPT ![c] = 1]
    /\ UNCHANGED <<backendvars, servervars, backlog, sent, restarts>>

\* ctl_error_to_exit_code of an error the frontend answered with
ExitCode(code) == IF code \in {0, 3, 6} THEN code ELSE 1

\* mutant: the answer goes to whatever the client asks now
RespondAnyone(command, code) ==
    /\ server' = "accept" /\ request' = Idle /\ backend_id' = 0
    /\ waiting' = [waiting EXCEPT ![command.client] = 0]
    /\ exit' = [exit EXCEPT ![command.client] = ExitCode(code)]

\* The response is written; its client may have closed the connection.
Respond(command, code) ==
    /\ server' = "accept" /\ request' = Idle /\ backend_id' = 0
    /\ IF waiting[command.client] = command.seq
       THEN /\ waiting' = [waiting EXCEPT ![command.client] = 0]
            /\ exit' = [exit EXCEPT ![command.client] = ExitCode(code)]
       ELSE UNCHANGED <<waiting, exit>>

(***************************************************************************)
(* The control server.                                                     *)
(***************************************************************************)
Listed(name) == name \in NamesOf(rules)

Read ==
    /\ server = "accept" /\ backlog # << >>
    /\ request' = Head(backlog) /\ backlog' = Tail(backlog)
    /\ server' = "handle"
    /\ UNCHANGED <<clientvars, backendvars, rules, rule_id_map, vapi, backend_id, restarts>>

\* handle_flow_rule_add's and handle_flow_rule_rm's checks of the list
Refuse ==
    /\ server = "handle"
    /\ \/ request.op = "add" /\ Listed(request.rule.name) /\ Respond(request, 6)
       \/ request.op \in {"rm", "show"} /\ ~Listed(request.rule.name) /\ Respond(request, 3)
    /\ UNCHANGED <<backendvars, rules, rule_id_map, vapi, backlog, sent, restarts>>

\* handle_flow_rule_show and the other reads
Show ==
    /\ server = "handle" /\ request.op = "show" /\ Listed(request.rule.name)
    /\ Respond(request, 0)
    /\ UNCHANGED <<backendvars, rules, rule_id_map, vapi, backlog, sent, restarts>>

Forwarded ==
    \/ request.op = "add" /\ ~Listed(request.rule.name) /\ vapi # "none"
    \/ request.op = "rm" /\ request.rule.name \in DOMAIN rule_id_map /\ vapi # "none"

WithoutName(f, name) == [n \in DOMAIN f \ {name} |-> f[n]]

\* Vec::retain: the rules of s that do not have the name, in their order
Retain(s, name) ==
    LET kept[i \in 0..Len(s)] ==
            IF i = 0 THEN << >>
            ELSE IF s[i].name = name THEN kept[i - 1]
            ELSE Append(kept[i - 1], s[i])
    IN kept[Len(s)]

\* flow_rules and rule_id_map without a name
Forget(name) ==
    /\ rules' = Retain(rules, name)
    /\ rule_id_map' = WithoutName(rule_id_map, name)

\* local-only mode, or a rule the backend gave no id for
Local ==
    /\ server = "handle" /\ ~Forwarded
    /\ \/ /\ request.op = "add" /\ ~Listed(request.rule.name)
          /\ rules' = Append(rules, request.rule) /\ UNCHANGED rule_id_map
       \/ request.op = "rm" /\ Listed(request.rule.name) /\ Forget(request.rule.name)
    /\ Respond(request, 0)
    /\ UNCHANGED <<backendvars, vapi, backlog, sent, restarts>>

(***************************************************************************)
(* The backend.  An error (a refusal, a failed allocation, a VPP that is   *)
(* gone) changes nothing; a lost reply looks like an error.                *)
(***************************************************************************)
Position(id) == {i \in DOMAIN ids : ids[i] = id}

\* mutant: a call to a VPP that is gone never returns
RefusedByLiveBackend ==
    /\ vapi = "connected" /\ backend_id' = 0 /\ UNCHANGED backendvars

Refused ==
    /\ backend_id' = 0 /\ UNCHANGED backendvars

\* The client sends no more than MESSAGE_FIELDS; the handler converts, then adds.
Installed ==
    LET rule == FromMessage(request.rule)
    IN /\ Len(request.rule.fields) <= MESSAGE_FIELDS
       /\ AddResult(set, rule) = "OK"
       /\ set' = WithRule(set, rule)
       /\ ids' = Append(ids, issued + 1) /\ issued' = issued + 1

\* mutant: the array of ids is cut at its end
RemovedCutsIds ==
    \E i \in Position(rule_id_map[request.rule.name]) :
       /\ set' = WithoutRule(set, i) /\ ids' = Front(ids)
       /\ UNCHANGED issued

Removed ==
    \E i \in Position(rule_id_map[request.rule.name]) :
       /\ set' = WithoutRule(set, i) /\ ids' = RemoveAt(ids, i)
       /\ UNCHANGED issued

Call ==
    /\ server = "handle" /\ Forwarded
    /\ \/ Refused
       \/ /\ vapi = "connected"
          /\ IF request.op = "add" THEN Installed ELSE Removed
          /\ \/ /\ UNCHANGED lost
                /\ backend_id' = IF request.op = "add" THEN issued + 1
                                 ELSE rule_id_map[request.rule.name]
             \/ lost < MAX_FAULTS /\ lost' = lost + 1 /\ backend_id' = 0
    /\ server' = "called"
    /\ UNCHANGED <<clientvars, rules, rule_id_map, vapi, request, backlog, restarts>>

\* mutant: the frontend updates its list before it looks at the answer
CommitAlways ==
    /\ \/ /\ request.op = "add"
          /\ rules' = Append(rules, request.rule) /\ UNCHANGED rule_id_map
       \/ request.op = "rm" /\ Forget(request.rule.name)
    /\ Respond(request, IF backend_id = 0 THEN 7 ELSE 0)

Commit ==
    IF backend_id = 0
    THEN UNCHANGED <<rules, rule_id_map>> /\ Respond(request, 7)
    ELSE /\ \/ /\ request.op = "add"
               /\ rules' = Append(rules, request.rule)
               /\ rule_id_map' = [n \in DOMAIN rule_id_map \cup {request.rule.name} |->
                                     IF n = request.rule.name THEN backend_id ELSE rule_id_map[n]]
            \/ request.op = "rm" /\ Forget(request.rule.name)
         /\ Respond(request, 0)

Finish ==
    /\ server = "called" /\ Commit
    /\ UNCHANGED <<backendvars, vapi, backlog, sent, restarts>>

(***************************************************************************)
(* Restarts.                                                               *)
(***************************************************************************)
FrontendStops ==
    /\ server # "down" /\ restarts < MAX_FAULTS
    /\ restarts' = restarts + 1
    /\ server' = "down" /\ request' = Idle /\ backend_id' = 0
    /\ rules' = Configured /\ rule_id_map' = << >> /\ UNCHANGED vapi
    /\ backlog' = << >>
    /\ waiting' = [c \in Clients |-> 0]
    /\ exit' = [c \in Clients |-> IF waiting[c] # 0 THEN 1 ELSE exit[c]]
    /\ UNCHANGED <<backendvars, sent>>

FrontendStarts ==
    /\ server = "down" /\ Start
    /\ UNCHANGED <<clientvars, backendvars, backlog, restarts>>

VppRestarts ==
    /\ restarts < MAX_FAULTS /\ restarts' = restarts + 1
    /\ set' = EmptyRuleSet /\ ids' = << >>
    /\ vapi' = IF vapi = "connected" THEN "gone" ELSE vapi
    /\ UNCHANGED <<clientvars, issued, lost, rules, rule_id_map, server,
                   request, backend_id, backlog>>

Server == Read \/ Refuse \/ Show \/ Local \/ Call \/ Finish

Next ==
    \/ \E command \in Commands : Send(command)
    \/ \E c \in Clients : GiveUp(c)
    \/ Server
    \/ FrontendStops \/ FrontendStarts \/ VppRestarts

\* The server's waits are bounded (10 s for a silent client, a backend that
\* answers or fails) and systemd restarts a frontend that failed.
Spec == Init /\ [][Next]_vars /\ WF_vars(Server) /\ WF_vars(FrontendStarts)

(***************************************************************************)
(* Properties.                                                             *)
(***************************************************************************)
(***************************************************************************)
(* The frontend knows a backend rule only by the id it was given: however  *)
(* requests were abandoned, replies lost and programs restarted, an id it  *)
(* holds belongs to no rule but the one made of the listed rule of that    *)
(* name, so that a remove (control.rs, handle_flow_rule_rm) cannot hit a   *)
(* stranger.  The two are not always equal: the backend's has the default  *)
(* number of keys where the listed one asks for none, and seven fields of  *)
(* eight.                                                                  *)
(***************************************************************************)
IdsNameTheirRule ==
    /\ DistinctNames(rules)
    /\ \A n \in DOMAIN rule_id_map : \A i \in Position(rule_id_map[n]) :
          \E r \in Range(rules) : r.name = n /\ set.rules[i] = FromMessage(r)

(***************************************************************************)
(* Between requests the frontend's list and the backend's rules differ by  *)
(* at most one name per lost reply, as long as nothing restarted: refused  *)
(* and abandoned requests, and retries after a lost reply, add nothing.    *)
(* A configured rule is listed without being installed, and does not count *)
(* as missing.                                                             *)
(***************************************************************************)
Unlisted == NamesOf(set.rules) \ NamesOf(rules)
Uninstalled == NamesOf(rules) \ (NamesOf(set.rules) \cup NamesOf(Configured))

ListFollowsBackend ==
    restarts = 0 /\ vapi = "connected" /\ server = "accept" =>
        Cardinality(Unlisted) + Cardinality(Uninstalled) <= lost

(***************************************************************************)
(* A command that was answered left nothing older of its client behind: an *)
(* abandoned request cannot take effect after the answer to a later one    *)
(* (run_server serves the connections in the order they were made).        *)
(***************************************************************************)
NothingLeftBehind ==
    [][\A c \in Clients :
         server # "down" /\ server' = "accept" /\ waiting[c] # 0 /\ waiting'[c] = 0 /\ request.client = c =>
            \A i \in DOMAIN backlog' : backlog'[i].client # c]_vars

(***************************************************************************)
(* The whole is an atomic registry of the rules the frontend lists: the    *)
(* two-step additions and removals, abandoned requests and crashes between *)
(* the steps never show, and every exit code tells the truth about it.     *)
(***************************************************************************)
Registry == INSTANCE RuleRegistry WITH
    Initial <- Range(Configured),
    listed <- Range(rules),
    pending <- Range(backlog) \cup ({request} \ {Idle}),
    waiting <- {c \in Clients : waiting[c] # 0}
IsRegistry == Registry!Spec

(***************************************************************************)
(* Every request is handled, or dies with the frontend: one that waits in  *)
(* the backlog is not passed over for ever, whatever became of its client. *)
(***************************************************************************)
RequestsAreHandled == backlog # << >> ~> backlog = << >>
=============================================================================
