--------------------------- MODULE MCControlRules ---------------------------
(***************************************************************************)
(* ControlRules with two rules the backend can hold side by side and a     *)
(* third with the name of one of them.  Two of the three are changed on    *)
(* their way: one has an eighth field, the other asks for no keys.         *)
(***************************************************************************)
EXTENDS ControlRules

CONSTANTS web, dns

Web == [name |-> web, fields |-> <<"src_ip">>, max_keys |-> 2]
WebWide == [name |-> web, max_keys |-> 2,
            fields |-> <<"src_ip", "dst_ip", "ip_proto", "dscp", "mirror_src_ip",
                         "src_port", "dst_port", "src_ip">>]
Dns == [name |-> dns, fields |-> <<"dst_ip">>, max_keys |-> 0]

MCRules == {Web, WebWide, Dns}
NoRules == << >>
=============================================================================
