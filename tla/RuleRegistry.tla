---------------------------- MODULE RuleRegistry ----------------------------
(***************************************************************************)
(* What infmonctl is promised about flow rules: one list of rules on which *)
(* a command takes effect at most once, in one step, after it was sent     *)
(* (perhaps after its client gave up), and whose exit code tells what that *)
(* step did.  A restart of the frontend forgets the list and the commands. *)
(* ControlRules implements it.                                             *)
(***************************************************************************)
EXTENDS Naturals

CONSTANTS
    Clients,        \* invocations of infmonctl that may run side by side
    Commands,       \* [client, seq, op, rule] records
    Initial         \* the rules a frontend starts with

VARIABLES
    listed,         \* the rules the frontend lists
    pending,        \* commands sent and not yet carried out
    waiting,        \* the clients that wait for an answer
    exit            \* the exit code of each client's last command

vars == <<listed, pending, waiting, exit>>

Init ==
    /\ listed = Initial /\ pending = {} /\ waiting = {}
    /\ exit = [c \in Clients |-> 0]

Send(command) ==
    /\ command.client \notin waiting
    /\ pending' = pending \cup {command}
    /\ waiting' = waiting \cup {command.client}
    /\ exit' = [exit EXCEPT ![command.client] = 0]
    /\ UNCHANGED listed

\* The frontend cannot be reached, or does not answer in time.
Fail(c, code) ==
    /\ waiting' = waiting \ {c}
    /\ exit' = [exit EXCEPT ![c] = code]
    /\ UNCHANGED <<listed, pending>>

IsListed(name) == \E r \in listed : r.name = name

\* The exit code of a command and its effect; 1 changes nothing.
Effect(command, code) ==
    \/ /\ command.op = "add" /\ code = 0 /\ ~IsListed(command.rule.name)
       /\ listed' = listed \cup {command.rule}
    \/ /\ command.op = "add" /\ code = 6 /\ IsListed(command.rule.name)
       /\ UNCHANGED listed
    \/ /\ command.op = "rm" /\ code = 0 /\ IsListed(command.rule.name)
       /\ listed' = {r \in listed : r.name # command.rule.name}
    \/ /\ command.op \in {"rm", "show"} /\ code = 3 /\ ~IsListed(command.rule.name)
       /\ UNCHANGED listed
    \/ /\ command.op = "show" /\ code = 0 /\ IsListed(command.rule.name)
       /\ UNCHANGED listed
    \/ command.op \in {"add", "rm"} /\ code = 1 /\ UNCHANGED listed

\* An answer reaches the client only while it still waits for this command.
CarryOut(command, code) ==
    /\ command \in pending
    /\ Effect(command, code)
    /\ pending' = pending \ {command}
    /\ LET answered == \E c \in waiting : c = command.client /\
                          \A later \in pending : later.client = c => later.seq <= command.seq
       IN IF answered
          THEN /\ waiting' = waiting \ {command.client}
               /\ exit' = [exit EXCEPT ![command.client] = code]
          ELSE UNCHANGED <<waiting, exit>>

Restart ==
    /\ listed' = Initial /\ pending' = {} /\ waiting' = {}
    /\ exit' = [c \in Clients |-> IF c \in waiting THEN 1 ELSE exit[c]]

Next ==
    \/ \E command \in Commands : Send(command)
    \/ \E c \in Clients : (c \in waiting /\ Fail(c, 1)) \/ (c \notin waiting /\ Fail(c, 4))
    \/ \E command \in pending, code \in {0, 1, 3, 6} : CarryOut(command, code)
    \/ Restart

Spec == Init /\ [][Next]_vars
=============================================================================
