---------------------------- MODULE MCDataPlane -----------------------------
(***************************************************************************)
(* DataPlane with two rules, two workers and a ring of one retired column; *)
(* the second rule may leave its max_keys to the handler.                  *)
(***************************************************************************)
EXTENDS DataPlane

CONSTANTS n1, n2, id1, id2

Dscp(n, keys) == [name |-> n, fields |-> <<"dscp">>, max_keys |-> keys]

MCRules == {Dscp(n1, 1), Dscp(n2, 1), Dscp(n2, 0)}

Interchangeable == Permutations({id1, id2})
=============================================================================
