-------------------------------- MODULE Sums --------------------------------
(* What the loops of conn_bufspace() and cksum() add up.                    *)
EXTENDS Integers, Sequences

(* The sum of a sequence of numbers, added up one by one.                   *)
Total(q) == LET upto[k \in 0..Len(q)] == IF k = 0 THEN 0 ELSE upto[k-1] + q[k]
            IN  upto[Len(q)]
=============================================================================
