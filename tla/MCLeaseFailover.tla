--------------------------- MODULE MCLeaseFailover ---------------------------
(* A small instance of LeaseFailover for TLC. *)
EXTENDS LeaseFailover

CONSTANTS p1, p2

Pods == {p1, p2}

(* One pod's clock is ahead of the other's. *)
ClocksSkewed == [p \in Pod |-> IF p = p1 THEN 1 ELSE 0]

=============================================================================
