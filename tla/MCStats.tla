------------------------------ MODULE MCStats ------------------------------
(* Stats with two rules keyed by the protocol, and two workers.            *)
EXTENDS Stats

MCKeys == {<<6>>, <<17>>}
=============================================================================
