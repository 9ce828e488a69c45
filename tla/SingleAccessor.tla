--------------------------- MODULE SingleAccessor ---------------------------
(***************************************************************************)
(* What the IB leader election promises, with every detail of leases and   *)
(* clocks left out.  TWS / IB Gateway is one external resource; the pods   *)
(* of a role take turns on it.  A pod opens the resource only while nobody *)
(* holds it, and gives it up by closing its service or by dying.           *)
(*                                                                         *)
(*   accessors  the pods whose IB service is running or still unwinding    *)
(***************************************************************************)

CONSTANT Pod

VARIABLE accessors

Init == accessors = {}

Open(p) == /\ accessors = {}
           /\ accessors' = {p}

Close(p) == /\ p \in accessors
            /\ accessors' = accessors \ {p}

Next == \E p \in Pod : Open(p) \/ Close(p)

Spec == Init /\ [][Next]_accessors

=============================================================================
