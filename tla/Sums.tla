-------------------------------- MODULE Sums --------------------------------
(***************************************************************************)
(* The sum of a sequence of numbers.                                       *)
(***************************************************************************)
EXTENDS Integers, Sequences

Total(counts) ==
    LET sum[i \in 0..Len(counts)] == IF i = 0 THEN 0 ELSE sum[i - 1] + counts[i]
    IN sum[Len(counts)]
=============================================================================
