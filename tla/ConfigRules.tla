---------------------------- MODULE ConfigRules ----------------------------
(***************************************************************************)
(* The rules of flow_rule.c, validate.rs, crud.rs and decode.rs against    *)
(* each other.  A client composes one rule (`spec`: a list of distinct     *)
(* fields, at last perhaps one too many), or edits a set of rules that     *)
(* frontend (`rules`) and backend (`set`) keep each in their way, or       *)
(* writes a configuration (`config`).                                      *)
(***************************************************************************)
EXTENDS FrontendConfig, KeyDecode

CONSTANTS
    Names,          \* what may be given as a name, valid or not
    Specs,          \* the rules a client starts to compose from
    Candidates,     \* the rules that are added to the sets
    Configs,        \* the configurations that are written
    NoSpec,         \* the rule while none is composed
    Default         \* the configuration while none is written

Composed == [name : Names, fields : Seq(Fields \cup {"ttl"}), max_keys : Nat]
Rule == [name : Names, fields : Seq(Fields), max_keys : Nat]
Text == [number : Nat, unit : STRING]
Exporter == [name : Names \cup {"empty"}, kind : STRING, queue_depth : Nat, export_timeout : Text,
             endpoint : STRING, on_overflow : STRING]
Config == [frontend : [polling_interval_ms : Nat, shutdown_grace_ms : Nat, startup_timeout : Text],
           logging : [destination : STRING, file : STRING],
           flow_rules : Seq(Rule), exporters : Seq(Exporter)]

ASSUME RulesAssumption == Specs \cup {NoSpec} \subseteq Composed /\ Candidates \subseteq Rule
ASSUME ConfigsAssumption ==
    /\ Configs \cup {Default} \subseteq Config
    /\ ValidateConfig(Default) = "OK" /\ Default.flow_rules = << >>

VARIABLES spec, rules, set, config

configvars == <<spec, rules, set, config>>

Extensible(fields) == IsInjective(fields) /\ "ttl" \notin Range(fields)

ConfigInit ==
    /\ rules = << >> /\ set = EmptyRuleSet
    /\ \/ spec \in Specs /\ config = Default
       \/ spec = NoSpec /\ config \in Configs

AppendField(f) ==
    /\ rules = << >> /\ config = Default
    /\ Extensible(spec.fields)
    /\ spec' = [spec EXCEPT !.fields = Append(@, f)]
    /\ UNCHANGED <<rules, set, config>>

EnterRule(rule) ==
    /\ spec = NoSpec /\ config = Default
    /\ rules' = IF CrudAdd(rules, rule) = "OK" THEN Append(rules, rule) ELSE rules
    /\ set' = IF AddResult(set, rule) = "OK" THEN WithRule(set, rule) ELSE set
    /\ UNCHANGED <<spec, config>>

RmRule(i) ==
    /\ rules' = CrudRm(rules, rules[i].name)
    /\ \E p \in Positions(set, rules[i].name) : set' = WithoutRule(set, p)
    /\ UNCHANGED <<spec, config>>

ConfigNext ==
    \/ \E f \in Fields \cup {"ttl"} : AppendField(f)
    \/ \E rule \in Candidates : EnterRule(rule)
    \/ \E i \in DOMAIN rules : RmRule(i)

ConfigSpec == ConfigInit /\ [][ConfigNext]_configvars

(* The frontend decodes what the backend encoded, given the rule's field   *)
(* list: each field's own bytes, in a value of its kind, each of which     *)
(* becomes an attribute; and a key one byte longer or shorter is refused.  *)
DecodeInvertsEncode ==
    Valid(spec) =>
        LET key == EncodeKey(spec.fields)
            decoded == DecodeKey(spec.fields, key)
            attrs == FlowAttributes(spec.name, spec.fields, decoded.values)
        IN /\ decoded.ok
           /\ \A i \in DOMAIN spec.fields : decoded.values[i].bytes = EncodeField(spec.fields[i])
           /\ \A f \in Range(spec.fields) : [attr |-> f, value |-> EncodeField(f)] \in attrs
           /\ ~DecodeKey(spec.fields, Append(key, <<"ttl", 1>>)).ok
           /\ ~DecodeKey(spec.fields, Front(key)).ok

(* The frontend and the backend accept the same rules (the frontend's type *)
(* has no unknown field), so that a rule that loads is also installed.     *)
ValidatorsAgree ==
    Range(spec.fields) \subseteq Fields => (ValidateRule(spec) = "OK" <=> Valid(spec))

(* After any adds and removals the frontend's FlowRuleSet and the          *)
(* backend's rule set hold the same rules and have spent the same keys,    *)
(* and give every further add the same answer; and the set that was built  *)
(* up in this way is accepted as a configuration, by other code still.     *)
SetsAgree ==
    /\ rules = set.rules /\ UsedKeys(rules) = set.used_keys
    /\ ValidateConfig([Default EXCEPT !.flow_rules = rules]) = "OK"
    /\ config = Default /\ spec = NoSpec =>
         \A rule \in Candidates : CrudAdd(rules, rule) = AddResult(set, rule)

(* A configuration that is accepted starts: its exporters are of a known   *)
(* type and can be built, none of them shares a name, and the timeouts and *)
(* intervals that start() computes, with other code than the validator and *)
(* in words that wrap around, are not zero.                                *)
AcceptedConfigStarts ==
    ValidateConfig(config) = "OK" =>
        /\ Positive(ParsedDuration(config.frontend.startup_timeout))
        /\ IsInjective([i \in DOMAIN config.exporters |-> config.exporters[i].name])
        /\ \A i \in DOMAIN config.exporters :
             LET cfg == ExporterConfig(config.exporters[i])
             IN BuildExporter(cfg) = "OK" /\ Positive(cfg.export_timeout) /\ cfg.queue_depth > 0
=============================================================================
