--------------------------- MODULE ServiceProofs ---------------------------
(***************************************************************************)
(* Proofs about Service, for any number of exporters, commands and faults. *)
(* An install runs over several steps between which systemd and the        *)
(* frontend act, so what its last step promises rests on an invariant of   *)
(* the steps before: InstallProgress.                                      *)
(***************************************************************************)
EXTENDS Service, TLAPS

Verbs == {"install", "start", "stop", "status"}
Steps == {"none", "first", "config", "chmod", "chown", "dirs", "unit",
          "socket", "report", "wait"}

\* The command that runs, what status asks for, and the number of faults, typed.
Cli == [verb : Verbs \cup {"none"}, force : BOOLEAN, step : Steps,
        warned : BOOLEAN, active : BOOLEAN, responsive : BOOLEAN]

Rest == faults \in Nat /\ socket \in BOOLEAN
Typed == cli \in Cli /\ (cli.verb = "none" => cli = Idle) /\ Rest

(***************************************************************************)
(* What an install has done when it stands before a step.                  *)
(***************************************************************************)
InstallProgress ==
    cli.verb = "install" =>
      /\ cli.step \in {"config", "chmod", "chown", "dirs", "unit"} => user
      /\ cli.step \in {"chmod", "chown"} => config = "default"
      /\ cli.step \in {"dirs", "unit"} =>
           /\ config # "none"
           /\ cli.force => config = "default"
           /\ cli.force /\ ~cli.warned => access # {}
      /\ cli.step = "unit" => dirs = 2

IInv == Typed /\ InstallProgress

(***************************************************************************)
(* What the four ways to go on do to the command: it ends, goes to another *)
(* step, also with a warning, or stays.                                    *)
(***************************************************************************)
LEMMA IdleTyped == Idle \in Cli /\ Idle.verb = "none"
  BY DEF Idle, Cli, Verbs, Steps

LEMMA EndsStep == ASSUME cli' = Idle, Rest' PROVE IInv'
  BY IdleTyped DEF IInv, Typed, InstallProgress

LEMMA GoesStep ==
    ASSUME cli \in Cli, cli.verb # "none", NEW step \in Steps,
           cli' = [cli EXCEPT !.step = step], Rest'
    PROVE  /\ Typed' /\ cli'.verb = cli.verb /\ cli'.step = step
           /\ cli'.force = cli.force /\ cli'.warned = cli.warned
  BY DEF Cli, Typed

LEMMA WarnsStep ==
    ASSUME cli \in Cli, cli.verb # "none", NEW step \in Steps,
           cli' = [cli EXCEPT !.step = step, !.warned = TRUE], Rest'
    PROVE  /\ Typed' /\ cli'.verb = cli.verb /\ cli'.step = step
           /\ cli'.force = cli.force /\ cli'.warned
  BY DEF Cli, Typed

Kept == <<user, dirs, config, access, cli>>

LEMMA KeptStep == IInv /\ UNCHANGED Kept /\ Rest' => IInv'
  BY DEF IInv, Typed, InstallProgress, Kept

LEMMA InitIInv == Init => IInv
<1> SUFFICES ASSUME Init PROVE IInv
  OBVIOUS
<1>1. Typed
  <2>1. Rest
    BY DEF Init, Rest
  <2> QED
    BY <2>1, IdleTyped DEF Init, Typed
<1>2. InstallProgress
  BY IdleTyped DEF Init, InstallProgress
<1> QED
  BY <1>1, <1>2 DEF IInv

(***************************************************************************)
(* The steps of an install.                                                *)
(***************************************************************************)
LEMMA InstallStep == IInv /\ Install => IInv'
<1> SUFFICES ASSUME IInv, Install PROVE IInv'
  OBVIOUS
<1>1. cli \in Cli /\ Rest /\ InstallProgress
  BY DEF IInv, Typed
<1>2. Rest'
  BY <1>1 DEF Install, EnsureUser, WriteConfig, Chmod, Chown, MakeDir, WriteUnit, Warns,
              process, Rest
<1>3. cli.verb = "install"
  BY DEF Install, EnsureUser, WriteConfig, Chmod, Chown, MakeDir, WriteUnit, At
<1>4. CASE cli' = Idle
  BY <1>2, <1>4, EndsStep
<1>5. ASSUME NEW step \in Steps, cli' = [cli EXCEPT !.step = step]
      PROVE  /\ Typed' /\ cli'.verb = "install" /\ cli'.step = step
             /\ cli'.force = cli.force /\ cli'.warned = cli.warned
  BY <1>1, <1>2, <1>3, <1>5, GoesStep
<1>6. ASSUME NEW step \in Steps, cli' = [cli EXCEPT !.step = step, !.warned = TRUE]
      PROVE  /\ Typed' /\ cli'.verb = "install" /\ cli'.step = step
             /\ cli'.force = cli.force /\ cli'.warned
  BY <1>1, <1>2, <1>3, <1>6, WarnsStep
<1> {"config", "chmod", "chown", "dirs", "unit"} \subseteq Steps
  BY DEF Steps
<1> USE DEF At, GoTo, Exit, Warns, Exists, Writes
<1>7. CASE EnsureUser
  <2>1. CASE user' /\ cli' = [cli EXCEPT !.step = "config"]
    BY <1>5, <2>1 DEF IInv, InstallProgress
  <2> QED
    BY <1>4, <1>7, <2>1 DEF EnsureUser
<1>8. CASE WriteConfig
  <2>1. user
    BY <1>1, <1>3, <1>8 DEF WriteConfig, InstallProgress
  <2>2. CASE config # "none" /\ ~cli.force /\ cli' = [cli EXCEPT !.step = "dirs"]
             /\ UNCHANGED <<config, access>>
    BY <1>5, <1>8, <2>1, <2>2 DEF WriteConfig, IInv, InstallProgress
  <2>3. CASE config' = "default" /\ cli' = [cli EXCEPT !.step = "chmod"]
    BY <1>5, <1>8, <2>1, <2>3 DEF WriteConfig, IInv, InstallProgress
  <2> QED
    BY <1>4, <1>8, <2>2, <2>3 DEF WriteConfig
<1>9. CASE Chmod
  <2>1. user /\ config = "default"
    BY <1>1, <1>3, <1>9 DEF Chmod, InstallProgress
  <2>2. CASE cli' = [cli EXCEPT !.step = "chown"]
    BY <1>5, <1>9, <2>1, <2>2 DEF Chmod, IInv, InstallProgress
  <2>3. CASE cli' = [cli EXCEPT !.step = "chown", !.warned = TRUE]
    BY <1>6, <1>9, <2>1, <2>3 DEF Chmod, IInv, InstallProgress
  <2> QED
    BY <1>9, <2>2, <2>3 DEF Chmod
<1>10. CASE Chown
  <2>1. user /\ config = "default"
    BY <1>1, <1>3, <1>10 DEF Chown, InstallProgress
  <2>2. CASE access' = access \cup {"owned"} /\ cli' = [cli EXCEPT !.step = "dirs"]
    BY <1>5, <1>10, <2>1, <2>2 DEF Chown, IInv, InstallProgress
  <2>3. CASE cli' = [cli EXCEPT !.step = "dirs", !.warned = TRUE]
    BY <1>6, <1>10, <2>1, <2>3 DEF Chown, IInv, InstallProgress
  <2> QED
    BY <1>10, <2>2, <2>3 DEF Chown
<1>11. CASE MakeDir
  <2>1. /\ user /\ config # "none"
        /\ cli.force => config = "default"
        /\ cli.force /\ ~cli.warned => access # {}
    BY <1>1, <1>3, <1>11 DEF MakeDir, InstallProgress
  <2>2. CASE dirs' = 2 /\ cli' = [cli EXCEPT !.step = "unit"]
    BY <1>5, <1>11, <2>1, <2>2 DEF MakeDir, IInv, InstallProgress
  <2>3. CASE cli' = [cli EXCEPT !.step = "dirs"]
    BY <1>5, <1>11, <2>1, <2>3 DEF MakeDir, IInv, InstallProgress
  <2> QED
    BY <1>4, <1>11, <2>2, <2>3 DEF MakeDir
<1>12. CASE WriteUnit
  BY <1>4, <1>12 DEF WriteUnit
<1> QED
  BY <1>7, <1>8, <1>9, <1>10, <1>11, <1>12 DEF Install

(***************************************************************************)
(* Every step: the files, the account and the directories change only by   *)
(* the command that runs, or by the operator while none does.              *)
(***************************************************************************)
LEMMA NextStep == IInv /\ [Next]_vars => IInv'
<1> SUFFICES ASSUME IInv, [Next]_vars PROVE IInv'
  OBVIOUS
<1>1. cli \in Cli /\ Rest /\ InstallProgress
  BY DEF IInv, Typed
<1>2. ASSUME NEW verb \in Verbs, NEW force \in BOOLEAN, NEW root \in BOOLEAN,
             Run(verb, force, root)
      PROVE  IInv'
  <2>1. Rest'
    BY <1>1, <1>2 DEF Run, Rest, process
  <2>2. CASE UNCHANGED cli
    BY <1>1, <1>2, <2>1, <2>2, KeptStep DEF Run, Kept, host
  <2>3. CASE cli' = [Idle EXCEPT !.verb = verb, !.force = force, !.step = "first"]
    <3>1. cli' \in Cli /\ cli'.verb = verb /\ cli'.step = "first"
      BY <2>3 DEF Cli, Idle, Verbs, Steps
    <3>2. verb # "none"
      BY DEF Verbs
    <3> QED
      BY <1>1, <2>1, <3>1, <3>2 DEF IInv, Typed, InstallProgress
  <2> QED
    BY <1>2, <2>2, <2>3 DEF Run
<1>3. ASSUME Install PROVE IInv'
  BY <1>3, InstallStep
<1>4. ASSUME Status PROVE IInv'
  <2>1. cli.verb = "status" /\ Rest'
    BY <1>1, <1>4 DEF Status, StatusActive, StatusSocket, StatusReport, At, Rest, process
  <2>2. CASE cli' = Idle
    BY <1>1, <2>1, <2>2, EndsStep
  <2>3. CASE \E active \in BOOLEAN : cli' = [cli EXCEPT !.step = "socket", !.active = active]
    <3>1. cli' \in Cli /\ cli'.verb = "status"
      BY <1>1, <2>1, <2>3 DEF Cli, Steps
    <3> QED
      BY <1>1, <2>1, <3>1 DEF IInv, Typed, InstallProgress
  <2>4. CASE \E answers \in BOOLEAN : cli' = [cli EXCEPT !.step = "report", !.responsive = answers]
    <3>1. cli' \in Cli /\ cli'.verb = "status"
      BY <1>1, <2>1, <2>4 DEF Cli, Steps
    <3> QED
      BY <1>1, <2>1, <3>1 DEF IInv, Typed, InstallProgress
  <2> QED
    BY <1>1, <1>4, <2>2, <2>3, <2>4 DEF Status, StatusActive, StatusSocket, StatusReport, Exit, Rest
<1>5. ASSUME Systemctl PROVE IInv'
  <2>1. cli.verb \in {"start", "stop"} /\ Rest'
    BY <1>1, <1>5 DEF Systemctl, Start, Started, Stop, At, Spawn, Rest, process
  <2>2. CASE cli' = Idle
    BY <1>1, <2>1, <2>2, EndsStep
  <2>3. CASE cli' = [cli EXCEPT !.step = "wait"]
    BY <1>1, <2>1, <2>3, GoesStep DEF Steps, IInv, InstallProgress
  <2> QED
    BY <1>5, <2>2, <2>3 DEF Systemctl, Start, Started, Stop, Exit, GoTo
<1>6. ASSUME Killed PROVE IInv'
  BY <1>1, <1>6, EndsStep DEF Killed, Rest, process
<1>7. ASSUME Restart \/ StartTimesOut \/ Starting \/ Vpp PROVE IInv'
  <2>1. CASE Restart \/ StartTimesOut \/ Vpp
    BY <1>1, <2>1, KeptStep DEF Restart, StartTimesOut, Vpp, Spawn, host, process, Kept, Rest
  <2>2. CASE Starting
    <3> USE DEF Gone, Step, host, Kept
    <3>1. CASE ReadConfig
      BY <1>1, <3>1, KeptStep DEF ReadConfig, Rest
    <3>2. CASE Reach
      BY <1>1, <3>2, KeptStep DEF Reach, Rest
    <3>3. CASE BuildExporter
      BY <1>1, <3>3, KeptStep DEF BuildExporter, Rest
    <3>4. CASE DropSenders \/ ThreadEnds
      BY <1>1, <3>4, KeptStep DEF DropSenders, ThreadEnds, Rest
    <3>5. CASE Joined \/ StopRunning
      BY <1>1, <3>5, KeptStep DEF Joined, StopRunning, Rest
    <3>6. CASE SpawnControl
      <4>1. UNCHANGED Kept
        BY <3>6 DEF SpawnControl
      <4>2. socket' = TRUE \/ socket' = FALSE
        BY <3>6 DEF SpawnControl
      <4>3. faults' \in Nat
        BY <1>1, <3>6 DEF SpawnControl, Rest
      <4> QED
        BY <4>1, <4>2, <4>3, KeptStep DEF Rest
    <3> QED
      BY <2>2, <3>1, <3>2, <3>3, <3>4, <3>5, <3>6 DEF Starting
  <2> QED
    BY <1>7, <2>1, <2>2
<1>8. ASSUME Operator PROVE IInv'
  BY <1>1, <1>8, EndsStep DEF Operator, Rest, process
<1>9. CASE UNCHANGED vars
  BY <1>1, <1>9, KeptStep DEF vars, host, process, Kept, Rest
<1> QED
  BY <1>2, <1>3, <1>4, <1>5, <1>6, <1>7, <1>8, <1>9 DEF Next, Verbs

\* The invariant of the installation, at every reachable state.
THEOREM ProgressKept == Spec => []IInv
  BY InitIInv, NextStep, PTL DEF Spec
(***************************************************************************)
(* What `infmonctl install` promises when it says that it completed, and   *)
(* no fault befell its last step: whatever earlier runs left half done,    *)
(* however the frontend and systemd interfered (cli/main.rs, run_install). *)
(* The unit is promised only to a host that has one to install.            *)
(***************************************************************************)
THEOREM InstallCompletesCorrect == Spec => InstallCompletes
<1>1. ASSUME IInv, [Next]_vars, At("install", "unit"), cli' = Idle, exit'.code = 0,
             faults' = faults
      PROVE  /\ user' /\ dirs' = 2 /\ Exists(config')
             /\ bundled => Exists(unit')
             /\ cli.force => config' = "default" /\ (bundled => unit' = "default")
             /\ cli.force /\ ~cli.warned => readable'
  <2>1. /\ user /\ dirs = 2 /\ config # "none"
        /\ cli.force => config = "default"
        /\ cli.force /\ ~cli.warned => access # {}
    BY <1>1 DEF IInv, InstallProgress, At
  <2>2. cli # Idle /\ cli' # cli /\ faults \in Nat
    BY <1>1, IdleTyped DEF At, IInv, Typed, Rest
  <2>3. ~Install => UNCHANGED cli
    <3>1. ~(Status \/ Systemctl \/ Killed)
      BY <1>1, <2>2 DEF Status, StatusActive, StatusSocket, StatusReport, Systemctl, Start,
           Started, Stop, Killed, At
    <3>2. (\E verb \in Verbs, force, root \in BOOLEAN : Run(verb, force, root)) => UNCHANGED cli
      BY <2>2 DEF Run
    <3>3. Restart \/ StartTimesOut \/ Operator \/ Vpp \/ UNCHANGED vars => UNCHANGED cli
      BY DEF Restart, StartTimesOut, Operator, Vpp, vars
    <3>4. Starting => UNCHANGED cli
      BY DEF Starting, ReadConfig, Reach, BuildExporter, DropSenders, ThreadEnds, Joined,
         SpawnControl, StopRunning
    <3> QED
      BY <1>1, <3>1, <3>2, <3>3, <3>4 DEF Next, Verbs
  <2>4. WriteUnit
    BY <1>1, <2>2, <2>3 DEF Install, EnsureUser, WriteConfig, Chmod, Chown, MakeDir, At
  <2>5. bundled' = bundled /\ faults' # faults + 1
    BY <1>1, <2>2, <2>4 DEF WriteUnit
  <2>6. bundled => Exists(unit') /\ (cli.force => unit' = "default")
    BY <1>1, <2>4, <2>5 DEF WriteUnit, Writes, Exists
  <2> QED
    BY <2>1, <2>4, <2>5, <2>6 DEF WriteUnit, Exists, readable
<1>2. IInv /\ [Next]_vars =>
        [At("install", "unit") /\ cli' = Idle /\ exit'.code = 0 /\ faults' = faults =>
           /\ user' /\ dirs' = 2 /\ Exists(config')
           /\ bundled => Exists(unit')
           /\ cli.force => config' = "default" /\ (bundled => unit' = "default")
           /\ cli.force /\ ~cli.warned => readable']_vars
  BY <1>1
<1> QED
  BY <1>2, ProgressKept, PTL DEF Spec, InstallCompletes
=============================================================================
