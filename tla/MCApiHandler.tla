---------------------------- MODULE MCApiHandler ----------------------------
(***************************************************************************)
(* ApiHandler on three valid rule names and an invalid one, a set of three *)
(* rules (so that a delete shifts zero, one or two entries), a key budget  *)
(* the three largest rules overrun, two workers, and a retired ring of one *)
(* column.  Eight tables serve three rules and the ring on two workers.    *)
(***************************************************************************)
EXTENDS ApiHandler

CONSTANTS n1, n2, n3, bad, id1, id2, id3

MCRules ==
    {[name |-> n1,  fields |-> <<"dscp">>, max_keys |-> 2],
     [name |-> n1,  fields |-> <<"dscp">>, max_keys |-> 3],
     [name |-> n2,  fields |-> <<"dst_ip", "dst_port">>, max_keys |-> 3],
     [name |-> n3,  fields |-> <<"src_ip", "ip_proto">>, max_keys |-> 1],
     [name |-> bad, fields |-> <<"dscp">>, max_keys |-> 1]}
=============================================================================
