------------------------------ MODULE FlowRule ------------------------------
(***************************************************************************)
(* Flow rules and flow rule sets: src/backend/src/flow_rule.c.             *)
(*                                                                         *)
(* A rule is [name, fields, max_keys].  `fields` is the ordered field list *)
(* the key is built from; a rule's key width is a function of its fields   *)
(* and is not stored.  A rule set is [rules, used_keys]: the C array       *)
(* rules[0..count-1] is the sequence `rules` (add appends, rm shifts the   *)
(* rest down and zeroes the vacated slot), so C index i is position i+1    *)
(* and count is Len(rules).                                                *)
(*                                                                         *)
(* Names are abstract: ValidNames are the ones name_valid() accepts.  The  *)
(* eviction policy has one value (lru_drop) and is left out.               *)
(***************************************************************************)
EXTENDS SequencesExt, Sums

CONSTANTS
    ValidNames,     \* names matching ^[a-z0-9][a-z0-9_-]{1,30}$
    SET_MAX,        \* INFMON_FLOW_RULE_SET_MAX (16)
    KEYS_BUDGET     \* max_keys_budget; the plugin passes MAX_KEYS_BUDGET (16 Mi)

ASSUME SetMaxAssumption == SET_MAX \in Nat \ {0}
ASSUME BudgetAssumption == KEYS_BUDGET \in Nat

KEY_MAX == 64       \* INFMON_FLOW_RULE_KEY_MAX, the size of the key buffers

Fields == {"src_ip", "dst_ip", "ip_proto", "dscp", "mirror_src_ip",
           "src_port", "dst_port"}

FIELDS_MAX == 7     \* INFMON_FLOW_RULE_FIELDS_MAX = INFMON_FIELD__COUNT

field_widths ==
    [src_ip |-> 16, dst_ip |-> 16, ip_proto |-> 1, dscp |-> 1,
     mirror_src_ip |-> 16, src_port |-> 2, dst_port |-> 2]

(* infmon_field_width: 0 for a value outside the enumeration.              *)
FieldWidth(f) == IF f \in Fields THEN field_widths[f] ELSE 0

(* infmon_flow_rule_key_width: 0 as soon as one field is unknown.          *)
KeyWidth(fields) ==
    IF \E i \in DOMAIN fields : FieldWidth(fields[i]) = 0
    THEN 0
    ELSE Total([i \in DOMAIN fields |-> FieldWidth(fields[i])])

(* infmon_flow_rule_validate(rule) = OK.                                   *)
Valid(rule) ==
    /\ rule.name \in ValidNames
    /\ Len(rule.fields) \in 1..FIELDS_MAX
    /\ \A i \in DOMAIN rule.fields :
         /\ rule.fields[i] \in Fields
         /\ \A j \in 1..(i-1) : rule.fields[i] # rule.fields[j]
    /\ rule.max_keys \in 1..KEYS_BUDGET
    /\ KeyWidth(rule.fields) \in 1..KEY_MAX

(***************************************************************************)
(* infmon_flow_rule_encode_key.  A key byte is <<field, n>>: byte n of     *)
(* that packet field in network order.  dscp is masked to its 6 bits and   *)
(* still fills one byte; the ports are split into high and low byte.  An   *)
(* unknown field writes nothing.                                           *)
(***************************************************************************)
EncodeField(f) ==
    CASE f \in {"src_ip", "dst_ip", "mirror_src_ip"} -> [n \in 1..16 |-> <<f, n>>]
      [] f \in {"ip_proto", "dscp"}                  -> << <<f, 1>> >>
      [] f \in {"src_port", "dst_port"}              -> << <<f, 1>>, <<f, 2>> >>
      [] OTHER                                       -> << >>

EncodeKey(fields) == FlattenSeq([i \in DOMAIN fields |-> EncodeField(fields[i])])

(***************************************************************************)
(* The rule set.                                                           *)
(***************************************************************************)
EmptyRuleSet == [rules |-> << >>, used_keys |-> 0]

(* infmon_flow_rule_find / find_rule_index: the positions holding a name.  *)
Positions(set, name) == {i \in DOMAIN set.rules : set.rules[i].name = name}

(* infmon_flow_rule_add: what it returns, in the order of its checks.      *)
AddResult(set, rule) ==
    IF ~Valid(rule) THEN "INVALID_RULE"
    ELSE IF Len(set.rules) >= SET_MAX THEN "SET_FULL"
    ELSE IF Positions(set, rule.name) # {} THEN "NAME_EXISTS"
    ELSE IF set.used_keys + rule.max_keys > KEYS_BUDGET THEN "BUDGET_EXCEEDED"
    ELSE "OK"

(* infmon_flow_rule_add, when it returns OK.                               *)
WithRule(set, rule) ==
    [rules     |-> Append(set.rules, rule),
     used_keys |-> set.used_keys + rule.max_keys]

(* Mutant: a removed rule keeps its share of the key budget.               *)
WithoutRuleKeepsCharge(set, i) ==
    [rules |-> RemoveAt(set.rules, i), used_keys |-> set.used_keys]

(* infmon_flow_rule_rm of the rule at position i.                          *)
WithoutRule(set, i) ==
    [rules     |-> RemoveAt(set.rules, i),
     used_keys |-> set.used_keys - set.rules[i].max_keys]
=============================================================================
