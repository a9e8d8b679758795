----------------------------- MODULE MCFlowRule -----------------------------
(***************************************************************************)
(* ConfigRules with every list of distinct fields, and each of them        *)
(* extended by a duplicate or by an unknown field, and with every section  *)
(* of a configuration filled in at its limits.                             *)
(***************************************************************************)
EXTENDS ConfigRules

CONSTANTS name, name2, name3, badname

MCNames == {name, name2, name3, badname}
MCSpecs == [name : {name, badname}, fields : {<< >>}, max_keys : {0, 1, KEYS_BUDGET, KEYS_BUDGET + 1}]
MCNoSpec == [name |-> badname, fields |-> << >>, max_keys |-> 0]
MCCandidates == [name : MCNames, fields : {<< >>, <<"dscp">>, <<"dscp", "dscp">>},
                 max_keys : {0, 1, 2, KEYS_BUDGET, KEYS_BUDGET + 1}]

Second == [number |-> 1, unit |-> "s"]
Texts == [number : 0..(WORD - 1), unit : {"ms", "none", "s", "m", "h", "days"}]
FewTexts == {[number |-> 0, unit |-> "s"], Second, [number |-> 1, unit |-> "days"]}
Frontends == [polling_interval_ms : 0..1, shutdown_grace_ms : 0..1, startup_timeout : FewTexts]
Loggings == [destination : {"syslog", "file"}, file : {"none", "empty path", "path"}]
Entries == [name : {"empty", name, badname}, kind : {"empty", "otlp", "prometheus"},
            queue_depth : {0, 1, MAX_QUEUE_DEPTH, MAX_QUEUE_DEPTH + 1}, export_timeout : FewTexts,
            endpoint : {"none", "empty", "number", "string"}, on_overflow : {"drop_newest", "drop_oldest"}]
Entry == [name |-> name, kind |-> "otlp", queue_depth |-> 2, export_timeout |-> Second,
          endpoint |-> "string", on_overflow |-> "drop_newest"]
MCDefault ==
    [frontend |-> [polling_interval_ms |-> 1, shutdown_grace_ms |-> 1, startup_timeout |-> Second],
     logging |-> [destination |-> "syslog", file |-> "none"],
     flow_rules |-> << >>, exporters |-> << >>]
MCConfigs ==
    {[MCDefault EXCEPT !.frontend = f] : f \in Frontends}
    \cup {[MCDefault EXCEPT !.frontend.startup_timeout = t] : t \in Texts}
    \cup {[MCDefault EXCEPT !.logging = l] : l \in Loggings}
    \cup {[MCDefault EXCEPT !.exporters = <<e>>] : e \in Entries}
    \cup {[MCDefault EXCEPT !.exporters = <<[Entry EXCEPT !.export_timeout = t]>>] : t \in Texts}
    \cup {[MCDefault EXCEPT !.exporters = <<Entry, [Entry EXCEPT !.name = n]>>] : n \in {name, name2}}
=============================================================================
