--------------------------- MODULE MCLeaseElection ---------------------------
(* Small instances of LeaseElection for TLC. *)
EXTENDS LeaseElection, TLC

CONSTANTS p1, p2, p3

TwoPods == {p1, p2}
ThreePods == {p1, p2, p3}

(* Clocks that agree, and clocks one time unit apart. *)
ClocksAgree == [p \in Pod |-> 0]
ClocksSkewed == [p \in Pod |-> IF p = p1 THEN 1 ELSE 0]

Symmetry == Permutations({p2, p3})

=============================================================================
