----------------------------- MODULE KeyDecode -----------------------------
(***************************************************************************)
(* The bytes of a flow's key become typed values (decode.rs) and the       *)
(* values become the attributes of its data points (otlp.rs).  A byte is   *)
(* any value; what a key's bytes mean is decided by the field list alone.  *)
(***************************************************************************)
EXTENDS Integers, Sequences

Addresses == {"src_ip", "dst_ip", "mirror_src_ip"}
Ports == {"src_port", "dst_port"}

DecodedWidth(field) ==
    IF field \in Addresses THEN 16 ELSE IF field \in Ports THEN 2 ELSE 1

ValueKind(field) ==
    IF field \in Addresses THEN "Ip"
    ELSE IF field \in Ports THEN "Port"
    ELSE IF field = "ip_proto" THEN "Proto" ELSE "Dscp"

\* mutant: bytes after the last field are ignored
DecodeKeyTrailing(fields, key) ==
    LET end[i \in 0..Len(fields)] ==
            IF i = 0 THEN 0 ELSE end[i - 1] + DecodedWidth(fields[i])
        ok == end[Len(fields)] <= Len(key)
    IN [ok     |-> ok,
        values |-> IF ok THEN [i \in DOMAIN fields |->
                                 [kind  |-> ValueKind(fields[i]),
                                  bytes |-> SubSeq(key, end[i - 1] + 1, end[i])]]
                   ELSE << >>]

\* decode_key: an error when the key is too short or has trailing bytes.
DecodeKey(fields, key) ==
    LET end[i \in 0..Len(fields)] ==
            IF i = 0 THEN 0 ELSE end[i - 1] + DecodedWidth(fields[i])
        ok == end[Len(fields)] = Len(key)
    IN [ok     |-> ok,
        values |-> IF ok THEN [i \in DOMAIN fields |->
                                 [kind  |-> ValueKind(fields[i]),
                                  bytes |-> SubSeq(key, end[i - 1] + 1, end[i])]]
                   ELSE << >>]

\* build_flow_attributes: a value of another kind than its field's is skipped.
FlowAttributes(rule_name, fields, values) ==
    {[attr |-> "flow-rule", value |-> rule_name]}
    \cup {[attr |-> fields[i], value |-> values[i].bytes] :
             i \in {j \in DOMAIN fields :
                      j \in DOMAIN values /\ values[j].kind = ValueKind(fields[j])}}
=============================================================================
