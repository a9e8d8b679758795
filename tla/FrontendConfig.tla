--------------------------- MODULE FrontendConfig ---------------------------
(***************************************************************************)
(* The frontend's configuration: what validate.rs accepts, what crud.rs    *)
(* keeps in a FlowRuleSet, and what lifecycle.rs makes of a configuration  *)
(* it was given.  FlowRule has the backend's version of the same rules.    *)
(*                                                                         *)
(* A validator returns the first error it meets, or "OK".  A duration is   *)
(* the text [number, unit]; the arithmetic on it is done in words, of      *)
(* WORD values instead of 2^64.                                            *)
(***************************************************************************)
EXTENDS FlowRule

CONSTANTS
    MAX_QUEUE_DEPTH,
    WORD            \* arithmetic on durations is modulo WORD

ASSUME QueueDepthAssumption == MAX_QUEUE_DEPTH \in Nat
ASSUME WordAssumption == WORD \in Nat \ {0}

(***************************************************************************)
(* Flow rules.                                                             *)
(***************************************************************************)
\* Field::width
Width(f) ==
    IF f \in {"src_ip", "dst_ip", "mirror_src_ip"} THEN 16
    ELSE IF f \in {"ip_proto", "dscp"} THEN 1 ELSE 2

WidthOf(fields) == Total([i \in DOMAIN fields |-> Width(fields[i])])

\* mutant: a field may be given twice
ValidateRuleRepeats(rule) ==
    IF rule.name \notin ValidNames THEN "InvalidName"
    ELSE IF rule.fields = << >> THEN "EmptyFields"
    ELSE IF rule.max_keys = 0 THEN "ZeroMaxKeys"
    ELSE IF rule.max_keys > KEYS_BUDGET THEN "MaxKeysExceedsBudget"
    ELSE IF WidthOf(rule.fields) > KEY_MAX THEN "KeyWidthExceeded"
    ELSE "OK"

\* validate_rule
ValidateRule(rule) ==
    IF rule.name \notin ValidNames THEN "InvalidName"
    ELSE IF rule.fields = << >> THEN "EmptyFields"
    ELSE IF ~IsInjective(rule.fields) THEN "DuplicateField"
    ELSE IF rule.max_keys = 0 THEN "ZeroMaxKeys"
    ELSE IF rule.max_keys > KEYS_BUDGET THEN "MaxKeysExceedsBudget"
    ELSE IF WidthOf(rule.fields) > KEY_MAX THEN "KeyWidthExceeded"
    ELSE "OK"

\* used_keys: computed anew from the rules, where the backend keeps a counter
UsedKeys(rules) == Total([i \in DOMAIN rules |-> rules[i].max_keys])

\* mutant: the rule's own keys are not counted
CrudAddBudgetLate(rules, rule) ==
    IF ValidateRule(rule) # "OK" THEN "INVALID_RULE"
    ELSE IF Len(rules) >= SET_MAX THEN "SET_FULL"
    ELSE IF \E i \in DOMAIN rules : rules[i].name = rule.name THEN "NAME_EXISTS"
    ELSE IF UsedKeys(rules) >= KEYS_BUDGET THEN "BUDGET_EXCEEDED"
    ELSE "OK"

\* FlowRuleSet::add, its errors under the backend's names
CrudAdd(rules, rule) ==
    IF ValidateRule(rule) # "OK" THEN "INVALID_RULE"
    ELSE IF Len(rules) >= SET_MAX THEN "SET_FULL"
    ELSE IF \E i \in DOMAIN rules : rules[i].name = rule.name THEN "NAME_EXISTS"
    ELSE IF UsedKeys(rules) + rule.max_keys > KEYS_BUDGET THEN "BUDGET_EXCEEDED"
    ELSE "OK"

\* FlowRuleSet::rm, when the name is found
CrudRm(rules, rule_name) ==
    RemoveAt(rules, CHOOSE i \in DOMAIN rules : rules[i].name = rule_name)

(***************************************************************************)
(* Durations: parse_duration_str gives milliseconds, parse_duration a      *)
(* Duration, here as [secs, ms].  Neither checks its product.              *)
(***************************************************************************)
UnitMs == [ms |-> 1, none |-> 1, s |-> 1000, m |-> 60000, h |-> 3600000]
UnitSecs == [s |-> 1, m |-> 60, h |-> 3600]

\* -1: not a duration
ParsedMs(text) ==
    IF text.unit \in DOMAIN UnitMs THEN (text.number * UnitMs[text.unit]) % WORD ELSE -1

ParsedDuration(text) ==
    IF text.unit \in DOMAIN UnitSecs
    THEN [secs |-> (text.number * UnitSecs[text.unit]) % WORD, ms |-> 0]
    ELSE [secs |-> 0, ms |-> text.number]

Positive(duration) == duration.secs > 0 \/ duration.ms > 0

(***************************************************************************)
(* The other sections.  A section that is missing is not validated.        *)
(***************************************************************************)
ValidateFrontend(cfg) ==
    IF cfg.polling_interval_ms = 0 THEN "ZeroPollingInterval"
    ELSE IF cfg.shutdown_grace_ms = 0 THEN "ZeroShutdownGrace"
    ELSE IF ParsedMs(cfg.startup_timeout) = -1 THEN "InvalidStartupTimeout"
    ELSE IF ParsedMs(cfg.startup_timeout) = 0 THEN "ZeroStartupTimeout"
    ELSE "OK"

ValidateLogging(cfg) ==
    IF cfg.destination = "file" /\ cfg.file = "none" THEN "MissingLogFileConfig"
    ELSE IF cfg.destination = "file" /\ cfg.file = "empty path" THEN "EmptyLogFilePath"
    ELSE IF cfg.destination = "syslog" /\ cfg.file # "none" THEN "SyslogWithFileConfig"
    ELSE "OK"

\* mutant: only the text of the timeout is checked, not its value
ValidateExporterTextOnly(entry) ==
    IF entry.name = "empty" THEN "EmptyExporterName"
    ELSE IF entry.name \notin ValidNames THEN "InvalidExporterName"
    ELSE IF entry.kind = "empty" THEN "EmptyExporterType"
    ELSE IF entry.kind # "otlp" THEN "UnknownExporterType"
    ELSE IF entry.queue_depth = 0 THEN "ZeroQueueDepth"
    ELSE IF entry.queue_depth > MAX_QUEUE_DEPTH THEN "QueueDepthTooLarge"
    ELSE IF ParsedMs(entry.export_timeout) = -1 THEN "InvalidExportTimeout"
    ELSE IF entry.endpoint # "string" THEN "MissingOtlpEndpoint"
    ELSE IF entry.on_overflow # "drop_newest" THEN "InvalidOverflowPolicy"
    ELSE "OK"

\* The endpoint is "none", "empty", a "number" or other YAML value, or a "string".
ValidateExporter(entry) ==
    IF entry.name = "empty" THEN "EmptyExporterName"
    ELSE IF entry.name \notin ValidNames THEN "InvalidExporterName"
    ELSE IF entry.kind = "empty" THEN "EmptyExporterType"
    ELSE IF entry.kind # "otlp" THEN "UnknownExporterType"
    ELSE IF entry.queue_depth = 0 THEN "ZeroQueueDepth"
    ELSE IF entry.queue_depth > MAX_QUEUE_DEPTH THEN "QueueDepthTooLarge"
    ELSE IF ParsedMs(entry.export_timeout) = -1 THEN "InvalidExportTimeout"
    ELSE IF ParsedMs(entry.export_timeout) = 0 THEN "ZeroExportTimeout"
    ELSE IF entry.endpoint # "string" THEN "MissingOtlpEndpoint"
    ELSE IF entry.on_overflow # "drop_newest" THEN "InvalidOverflowPolicy"
    ELSE "OK"

\* The first of the results that is an error.
FirstError(results) ==
    IF \A i \in DOMAIN results : results[i] = "OK" THEN "OK"
    ELSE results[CHOOSE i \in DOMAIN results :
                   results[i] # "OK" /\ \A j \in 1..(i - 1) : results[j] = "OK"]

ValidateRules(rules) ==
    FirstError([i \in DOMAIN rules |->
                  IF \E j \in 1..(i - 1) : rules[j].name = rules[i].name THEN "DuplicateName"
                  ELSE ValidateRule(rules[i])]
               \o << IF Len(rules) > SET_MAX THEN "TooManyRules" ELSE "OK",
                     IF UsedKeys(rules) > KEYS_BUDGET THEN "BudgetExceeded" ELSE "OK" >>)

ValidateExporters(entries) ==
    FirstError([i \in DOMAIN entries |->
                  IF ValidateExporter(entries[i]) # "OK" THEN ValidateExporter(entries[i])
                  ELSE IF \E j \in 1..(i - 1) : entries[j].name = entries[i].name
                  THEN "DuplicateExporterName" ELSE "OK"])

ValidateConfig(config) ==
    FirstError(<< ValidateFrontend(config.frontend), ValidateLogging(config.logging),
                  ValidateRules(config.flow_rules), ValidateExporters(config.exporters) >>)

(***************************************************************************)
(* Frontend::start, once the backend is reachable.                         *)
(***************************************************************************)
\* entry_to_exporter_config
ExporterConfig(entry) ==
    [kind |-> entry.kind, name |-> entry.name, queue_depth |-> entry.queue_depth,
     export_timeout |-> IF entry.export_timeout.unit \in DOMAIN UnitMs
                        THEN ParsedDuration(entry.export_timeout)
                        ELSE [secs |-> 0, ms |-> 800],
     endpoint |-> IF entry.endpoint \in {"none", "empty"} THEN entry.endpoint ELSE "string"]

\* find_factory and OtlpExporter::new
BuildExporter(cfg) ==
    IF cfg.kind # "otlp" THEN "UnknownExporter"
    ELSE IF cfg.endpoint \in {"none", "empty"} THEN "ExporterInit"
    ELSE "OK"
=============================================================================
