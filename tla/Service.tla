------------------------------ MODULE Service ------------------------------
(***************************************************************************)
(* Installing and running the frontend as a service: infmonctl install,    *)
(* start, stop and status (cli/main.rs), the unit it installs              *)
(* (deploy/infmon.service) and the frontend's start (frontend/main.rs,     *)
(* lifecycle.rs).  The command may be killed at any step, its writes may   *)
(* fail half way, the operator edits the files, the data plane comes and   *)
(* goes.                                                                   *)
(*                                                                         *)
(* A file is "none", "partial" (a write was cut off), "default" (what      *)
(* install writes) or "operator".  systemd is modelled by what the unit    *)
(* asks of it.                                                             *)
(***************************************************************************)
EXTENDS Naturals

CONSTANTS
    EXPORTERS,      \* exporters of the configuration
    MAX_COMMANDS,   \* bound: infmonctl runs
    MAX_FAULTS      \* bound: kills and failed writes

ASSUME ServiceAssumption == {EXPORTERS, MAX_COMMANDS, MAX_FAULTS} \subseteq Nat

VARIABLES
    user,       \* the infmon user exists
    config,     \* /etc/infmon/config.yaml
    access,     \* why the infmon user may read it: it is "open" to all, "owned" by the group
    dirs,       \* the state and runtime directories created, 0..2
    bundled,    \* the unit to install is there: no package of this repository brings it
    unit,       \* infmon.service
    edited,     \* what a drop-in corrects of it: nothing, its "args", or also its "type"
    cli,        \* the command that is running
    exit,       \* the last one's verb, force and exit code
    systemd,    \* "inactive", "activating", "active", "deactivating"
    frontend,   \* the process: where start() is
    threads,    \* its exporter threads
    senders,    \* the senders of their queues
    term,       \* its shutdown flag
    socket,     \* the control socket answers
    vpp,        \* the stats socket of VPP can be connected to
    commands, faults

host == <<user, config, access, dirs, unit, bundled>>
process == <<frontend, threads, senders, term, socket>>
vars == <<host, edited, cli, exit, systemd, process, vpp, commands, faults>>

Idle == [verb |-> "none", force |-> FALSE, step |-> "none",
         warned |-> FALSE, active |-> FALSE, responsive |-> FALSE]

Init ==
    /\ user = FALSE /\ config = "none" /\ access = {} /\ dirs = 0 /\ unit = "none"
    /\ bundled \in BOOLEAN /\ edited = "nothing"
    /\ cli = Idle /\ exit = [verb |-> "none", force |-> FALSE, code |-> 0]
    /\ systemd = "inactive"
    /\ frontend = "none" /\ threads = 0 /\ senders = 0 /\ term = FALSE /\ socket = FALSE
    /\ vpp \in BOOLEAN
    /\ commands = 0 /\ faults = 0

Exists(file) == file # "none"
readable == access # {}

(***************************************************************************)
(* infmonctl.                                                              *)
(***************************************************************************)
Exit(code) ==
    /\ exit' = [verb |-> cli.verb, force |-> cli.force, code |-> code]
    /\ cli' = Idle

GoTo(step) == cli' = [cli EXCEPT !.step = step] /\ UNCHANGED exit

\* Only root gets past the first check of anything that changes the host.
Run(verb, force, root) ==
    /\ cli = Idle /\ commands < MAX_COMMANDS
    /\ commands' = commands + 1
    /\ IF verb = "status" \/ root
       THEN /\ cli' = [Idle EXCEPT !.verb = verb, !.force = force, !.step = "first"]
            /\ UNCHANGED exit
       ELSE exit' = [verb |-> verb, force |-> force, code |-> 13] /\ UNCHANGED cli
    /\ UNCHANGED <<host, edited, systemd, process, vpp, faults>>

\* Only --force overwrites a file that is there.
Writes(file) == ~Exists(file) \/ cli.force

At(verb, step) == cli.verb = verb /\ cli.step = step

\* ensure_system_user: `id`, then `useradd`
EnsureUser ==
    /\ At("install", "first")
    /\ \/ user' = TRUE /\ GoTo("config") /\ UNCHANGED faults
       \/ ~user /\ faults < MAX_FAULTS /\ faults' = faults + 1 /\ UNCHANGED user /\ Exit(1)
    /\ UNCHANGED <<config, access, dirs, unit, bundled, edited, systemd, process, vpp, commands>>

\* fs::write truncates, then writes; the file keeps the mode and the owner it
\* had, and a new one may be read by anyone.
WriteConfig ==
    /\ At("install", "config")
    /\ \/ /\ ~Writes(config)
          /\ GoTo("dirs") /\ UNCHANGED <<config, access, faults>>
       \/ /\ Writes(config)
          /\ access' = IF Exists(config) THEN access ELSE {"open"}
          /\ \/ config' = "default" /\ GoTo("chmod") /\ UNCHANGED faults
             \/ /\ faults < MAX_FAULTS /\ faults' = faults + 1
                /\ config' = "partial" /\ Exit(1)
    /\ UNCHANGED <<user, dirs, unit, bundled, edited, systemd, process, vpp, commands>>

Warns(step) ==
    /\ faults < MAX_FAULTS /\ faults' = faults + 1
    /\ cli' = [cli EXCEPT !.step = step, !.warned = TRUE] /\ UNCHANGED exit

\* 0640 shuts the infmon user out until the chown; both may fail with a warning
Chmod ==
    /\ At("install", "chmod")
    /\ \/ access' = access \ {"open"} /\ GoTo("chown") /\ UNCHANGED faults
       \/ Warns("chown") /\ UNCHANGED access
    /\ UNCHANGED <<user, config, dirs, unit, bundled, edited, systemd, process, vpp, commands>>

Chown ==
    /\ At("install", "chown")
    /\ \/ access' = access \cup {"owned"} /\ GoTo("dirs") /\ UNCHANGED faults
       \/ Warns("dirs") /\ UNCHANGED access
    /\ UNCHANGED <<user, config, dirs, unit, bundled, edited, systemd, process, vpp, commands>>

MakeDir ==
    /\ At("install", "dirs")
    /\ \/ /\ dirs' = IF dirs < 2 THEN dirs + 1 ELSE dirs
          /\ GoTo(IF dirs' = 2 THEN "unit" ELSE "dirs") /\ UNCHANGED faults
       \/ dirs < 2 /\ faults < MAX_FAULTS /\ faults' = faults + 1 /\ UNCHANGED dirs /\ Exit(1)
    /\ UNCHANGED <<user, config, access, unit, bundled, edited, systemd, process, vpp, commands>>

\* mutant: --force does not replace the unit
WriteUnitOnce ==
    /\ At("install", "unit")
    /\ UNCHANGED faults
    /\ unit' = IF bundled /\ ~Exists(unit) THEN "default" ELSE unit
    /\ Exit(0)
    /\ UNCHANGED <<user, config, access, dirs, bundled, edited, systemd, process, vpp, commands>>

\* A unit that is not found, or cannot be read, is skipped, and the install
\* completes without it all the same.  daemon-reload only warns.
WriteUnit ==
    /\ At("install", "unit")
    /\ \/ ~bundled /\ Exit(0) /\ UNCHANGED <<unit, faults>>
       \/ /\ bundled /\ faults < MAX_FAULTS /\ faults' = faults + 1
          /\ Exit(0) /\ UNCHANGED unit
       \/ bundled /\ ~Writes(unit) /\ Exit(0) /\ UNCHANGED <<unit, faults>>
       \/ bundled /\ Writes(unit) /\ unit' = "default" /\ Exit(0) /\ UNCHANGED faults
       \/ /\ bundled /\ Writes(unit) /\ faults < MAX_FAULTS /\ faults' = faults + 1
          /\ unit' = "partial" /\ Exit(1)
    /\ UNCHANGED <<user, config, access, dirs, bundled, edited, systemd, process, vpp, commands>>

\* SIGKILL or a power failure: a file being written stays half written.
Killed ==
    /\ cli # Idle /\ faults < MAX_FAULTS
    /\ faults' = faults + 1 /\ cli' = Idle
    /\ \/ UNCHANGED <<config, unit>>
       \/ /\ At("install", "config") /\ Writes(config)
          /\ config' = "partial" /\ UNCHANGED unit
       \/ /\ At("install", "unit") /\ bundled /\ Writes(unit)
          /\ unit' = "partial" /\ UNCHANGED config
    /\ access' = IF config = "none" /\ config' # "none" THEN {"open"} ELSE access
    /\ UNCHANGED <<user, dirs, bundled, edited, exit, systemd, process, vpp, commands>>

\* run_status: three questions, each answered when it is asked
StatusActive ==
    /\ At("status", "first")
    /\ cli' = [cli EXCEPT !.step = "socket", !.active = (systemd = "active")]
    /\ UNCHANGED <<host, edited, exit, systemd, process, vpp, commands, faults>>

StatusSocket ==
    /\ At("status", "socket")
    /\ cli' = [cli EXCEPT !.step = "report", !.responsive = socket]
    /\ UNCHANGED <<host, edited, exit, systemd, process, vpp, commands, faults>>

StatusReport ==
    /\ At("status", "report")
    /\ Exit(IF cli.active THEN IF cli.responsive THEN 0 ELSE 7 ELSE 69)
    /\ UNCHANGED <<host, edited, systemd, process, vpp, commands, faults>>

(***************************************************************************)
(* systemd, as the unit has it: Type=notify, Restart=on-failure.           *)
(***************************************************************************)
Notify == edited # "type"
Loaded == unit \in {"default", "operator"} /\ user

Spawn ==
    /\ frontend' = "config" /\ term' = FALSE
    /\ systemd' = IF Notify THEN "activating" ELSE "active"
    /\ UNCHANGED <<threads, senders, socket>>

\* systemctl start
Start ==
    /\ At("start", "first")
    /\ IF ~Loaded THEN Exit(1) /\ UNCHANGED <<systemd, process>>
       ELSE /\ GoTo("wait")
            /\ IF systemd = "inactive" THEN Spawn ELSE UNCHANGED <<systemd, process>>
    /\ UNCHANGED <<host, edited, vpp, commands, faults>>

\* It waits for READY=1 or for the process to be gone.
Started ==
    /\ At("start", "wait")
    /\ \/ systemd = "active" /\ Exit(0)
       \/ frontend = "none" /\ Exit(1)
    /\ UNCHANGED <<host, edited, systemd, process, vpp, commands, faults>>

\* systemctl stop: SIGTERM
Stop ==
    /\ At("stop", "first")
    /\ Exit(0)
    /\ IF systemd = "inactive" THEN UNCHANGED <<systemd, term>>
       ELSE /\ term' = (frontend # "none")
            /\ systemd' = IF frontend = "none" THEN "inactive" ELSE "deactivating"
    /\ UNCHANGED <<host, edited, frontend, threads, senders, socket, vpp, commands, faults>>

\* RestartSec after a failure
Restart ==
    /\ systemd = "activating" /\ frontend = "none" /\ Loaded
    /\ Spawn
    /\ UNCHANGED <<host, edited, cli, exit, vpp, commands, faults>>

\* No READY=1 within TimeoutStartSec: the process is killed.
StartTimesOut ==
    /\ systemd = "activating" /\ frontend # "none"
    /\ frontend' = "none" /\ threads' = 0 /\ senders' = 0 /\ socket' = FALSE
    /\ UNCHANGED <<host, edited, cli, exit, systemd, term, vpp, commands, faults>>

(***************************************************************************)
(* The frontend process.                                                   *)
(***************************************************************************)
Gone(code) ==
    /\ frontend' = "none" /\ threads' = 0 /\ senders' = 0 /\ socket' = FALSE
    /\ systemd' = IF code = 0 \/ systemd = "deactivating" THEN "inactive" ELSE "activating"
    /\ UNCHANGED term

Step(state) == frontend' = state /\ UNCHANGED <<threads, senders, term, socket, systemd>>

\* main() takes its first argument for the path: the unit passes --config.
\* A configuration that was cut off may parse all the same.
ReadConfig ==
    /\ frontend = "config"
    /\ \/ edited # "nothing" /\ Exists(config) /\ readable /\ Step("reach")
       \/ /\ edited = "nothing" \/ config \notin {"default", "operator"} \/ ~readable
          /\ Gone(1)
    /\ UNCHANGED <<host, edited, cli, exit, vpp, commands, faults>>

\* The stats socket is tried until startup_timeout.
Reach ==
    /\ frontend = "reach"
    /\ IF vpp THEN Step("exporters") ELSE Gone(1)
    /\ UNCHANGED <<host, edited, cli, exit, vpp, commands, faults>>

\* An exporter that cannot be spawned makes start() return, which drops its
\* locals.
BuildExporter ==
    /\ frontend = "exporters"
    /\ \/ /\ threads < EXPORTERS
          /\ threads' = threads + 1 /\ senders' = senders + 1
          /\ UNCHANGED <<frontend, term, socket, systemd, faults>>
       \/ /\ threads < EXPORTERS /\ faults < MAX_FAULTS
          /\ faults' = faults + 1 /\ Step("drop")
       \/ threads = EXPORTERS /\ Step("control") /\ UNCHANGED faults
    /\ UNCHANGED <<host, edited, cli, exit, vpp, commands>>

\* mutant: the handles are declared after the senders, so they are dropped first
DropHandlesFirst ==
    /\ frontend = "drop"
    /\ Step("join")
    /\ UNCHANGED <<host, edited, cli, exit, vpp, commands, faults>>

\* exporter_senders is declared last, so it is dropped before the handles,
\* each of which joins its thread.
DropSenders ==
    /\ frontend = "drop"
    /\ frontend' = "join" /\ senders' = 0
    /\ UNCHANGED <<threads, term, socket, systemd>>
    /\ UNCHANGED <<host, edited, cli, exit, vpp, commands, faults>>

\* an exporter thread sees its queue closed
ThreadEnds ==
    /\ threads > 0 /\ senders = 0
    /\ threads' = threads - 1
    /\ UNCHANGED <<frontend, senders, term, socket, systemd>>
    /\ UNCHANGED <<host, edited, cli, exit, vpp, commands, faults>>

Joined ==
    /\ frontend = "join" /\ threads = 0
    /\ Gone(1)
    /\ UNCHANGED <<host, edited, cli, exit, vpp, commands, faults>>

\* mutant: start() makes a flag of its own
SpawnControlOwnFlag ==
    /\ frontend = "control"
    /\ frontend' = "running" /\ socket' = TRUE /\ term' = FALSE
    /\ UNCHANGED <<threads, senders, systemd, faults>>
    /\ UNCHANGED <<host, edited, cli, exit, vpp, commands>>

\* The frontend goes on without its control server.
SpawnControl ==
    /\ frontend = "control"
    /\ frontend' = "running"
    /\ \/ socket' = TRUE /\ UNCHANGED faults
       \/ faults < MAX_FAULTS /\ faults' = faults + 1 /\ socket' = FALSE
    /\ UNCHANGED <<threads, senders, term, systemd>>
    /\ UNCHANGED <<host, edited, cli, exit, vpp, commands>>

\* main's loop sees the flag only now; Frontend::stop() is in Pipeline
StopRunning ==
    /\ frontend = "running" /\ term
    /\ Gone(0)
    /\ UNCHANGED <<host, edited, cli, exit, vpp, commands, faults>>

(***************************************************************************)
(* The operator and VPP.                                                   *)
(***************************************************************************)
Operator ==
    /\ cli = Idle
    /\ \/ /\ Exists(config) /\ config' = "operator" /\ access' = {"owned"}
          /\ UNCHANGED <<unit, edited>>
       \/ /\ ~Exists(unit) /\ unit' = "default"     \* "you can install it manually"
          /\ UNCHANGED <<config, access, edited>>
       \/ /\ Exists(unit) /\ unit' = "operator" /\ edited' \in {"args", "type"}
          /\ UNCHANGED <<config, access>>
    /\ UNCHANGED <<user, dirs, bundled, cli, exit, systemd, process, vpp, commands, faults>>

Vpp ==
    /\ vpp' = ~vpp
    /\ UNCHANGED <<host, edited, cli, exit, systemd, process, commands, faults>>

Install == EnsureUser \/ WriteConfig \/ Chmod \/ Chown \/ MakeDir \/ WriteUnit
Status == StatusActive \/ StatusSocket \/ StatusReport
Systemctl == Start \/ Started \/ Stop
Starting == ReadConfig \/ Reach \/ BuildExporter \/ DropSenders \/ ThreadEnds \/ Joined
            \/ SpawnControl \/ StopRunning

Next ==
    \/ \E verb \in {"install", "start", "stop", "status"}, force, root \in BOOLEAN :
         (force => verb = "install") /\ Run(verb, force, root)
    \/ Install \/ Status \/ Systemctl \/ Killed
    \/ Restart \/ StartTimesOut \/ Starting \/ Operator \/ Vpp

\* The command and the frontend's threads are scheduled, and systemd acts.
Spec == /\ Init /\ [][Next]_vars
        /\ WF_vars(Install \/ Status \/ Systemctl) /\ WF_vars(Starting) /\ WF_vars(Restart)

(***************************************************************************)
(* Properties.                                                             *)
(***************************************************************************)
\* An install that says it completed has made the user, the directories and
\* the configuration exist, and the unit when it finds one to install; with
\* --force what it writes is whole, and the service can read its configuration
\* unless the chown failed, whatever earlier installs left half done
\* (cli/main.rs:159-316).
InstallCompletes ==
    [][At("install", "unit") /\ cli' = Idle /\ exit'.code = 0 /\ faults' = faults =>
         /\ user' /\ dirs' = 2 /\ Exists(config')
         /\ bundled => Exists(unit')
         /\ cli.force => config' = "default" /\ (bundled => unit' = "default")
         /\ cli.force /\ ~cli.warned => readable']_vars

\* A start that fails ends: the exporter threads that were spawned are let go
\* before they are waited for (lifecycle.rs:119-120 and exporter.rs:297-303).
FailedStartEnds == frontend \in {"drop", "join"} ~> frontend = "none"

\* A frontend that was told to stop while it was still starting does not come
\* to serve: it ends, without being restarted.
StopsWhenTold == systemd = "deactivating" ~> systemd # "deactivating"

\* A service whose user, files and VPP are in order does not stay on the way
\* to being active: "infmon-frontend implements sd-notify"
\* (deploy/infmon.service:16-17).
ShippedServiceStarts ==
    <>[](Loaded /\ config \in {"default", "operator"} /\ readable /\ vpp /\ edited = "nothing")
        => ~ <>[](systemd = "activating")
=============================================================================
