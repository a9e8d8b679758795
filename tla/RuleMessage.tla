---------------------------- MODULE RuleMessage -----------------------------
(***************************************************************************)
(* A rule on its way into the plugin: the flow_rule_add message as the C   *)
(* client builds it and the handler reads it, and the arguments of the     *)
(* debug CLI's command.  Neither conversion is the identity: a message     *)
(* that asks for no keys gets the default, and fields that the rule struct *)
(* has no room for are dropped.                                            *)
(*                                                                         *)
(* Both also cut a name at INFMON_FLOW_RULE_NAME_MAX; names are abstract   *)
(* here, and one that is valid is left as it is.                           *)
(***************************************************************************)
EXTENDS FlowRule

CONSTANT
    DEFAULT_MAX_KEYS    \* 65536

ASSUME DefaultAssumption == DEFAULT_MAX_KEYS \in Nat \ {0}

MESSAGE_FIELDS == 8     \* fields[8] of the message; the client sends no more

Clamped(fields) ==
    IF Len(fields) > FIELDS_MAX THEN SubSeq(fields, 1, FIELDS_MAX) ELSE fields

(* vl_api_infmon_flow_rule_add_t_handler.                                  *)
FromMessage(rule) ==
    [name     |-> rule.name,
     fields   |-> Clamped(rule.fields),
     max_keys |-> IF rule.max_keys = 0 THEN DEFAULT_MAX_KEYS ELSE rule.max_keys]

(* infmon_flow_rule_add_command_fn: the loop over the field names ends     *)
(* when the struct is full; max-keys 0 stays what it is.                   *)
FromCommand(rule) ==
    [name |-> rule.name, fields |-> Clamped(rule.fields), max_keys |-> rule.max_keys]
=============================================================================
