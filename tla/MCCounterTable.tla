--------------------------- MODULE MCCounterTable ---------------------------
(***************************************************************************)
(* CounterTable with four slots and six keys, several of which collide and *)
(* one of which starts at the last slot, so that probe sequences overlap   *)
(* and wrap around.                                                        *)
(***************************************************************************)
EXTENDS CounterTable

CONSTANTS a, b, c, d, e, f

MCHash == [k \in {a, b, c, d, e, f} |-> CASE k \in {a, b} -> 0
                                          [] k = c        -> 1
                                          [] k = d        -> 2
                                          [] k = e        -> 3
                                          [] k = f        -> 5]
=============================================================================
