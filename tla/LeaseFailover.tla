---------------------------- MODULE LeaseFailover ----------------------------
(***************************************************************************)
(* How long the IB role may stay without a leader.  The election with an   *)
(* observer that remembers, for each pod, since when its present process   *)
(* has been up; the observer changes nothing else.                         *)
(***************************************************************************)

EXTENDS LeaseElection

VARIABLE upSince   \* upSince[p]: when p's present process was started

ObservedVars == <<vars, upSince>>

ObservedInit ==
    /\ Init
    /\ upSince = [p \in Pod |-> 0]

ObservedNext ==
    /\ Next
    /\ upSince' = [p \in Pod |->
                      IF loop[p] = "down" /\ loop'[p] # "down"
                      THEN now ELSE upSince[p]]

ObservedSpec == ObservedInit /\ [][ObservedNext]_ObservedVars

(* The real time from which p may have the Lease: it is up, and its clock  *)
(* shows that the last renewal is lease_duration_sec old.                  *)
EligibleSince(p) ==
    LET expiry == lease.renewTime + LeaseDuration - ClockOffset[p]
    IN  IF lease = NoLease \/ expiry < upSince[p] THEN upSince[p] ELSE expiry

(* A standby's last attempt before the expiry, its sleep, and its next     *)
(* attempt.                                                                *)
FailoverLatency == AttemptLatency + RetryPeriod + LoopDelay + AttemptLatency

(* "tuned for IB fail-over <20s" (lease.py, the defaults): while the API   *)
(* server answers, a standby never finds itself still waiting longer than  *)
(* FailoverLatency after the Lease became free; by then it leads, or       *)
(* another pod has renewed.  15 s + 2 s + latencies for the defaults.      *)
FailoverBound ==
    \A p \in Pod :
        loop[p] # "down" /\ service[p] = "none"
        => now <= EligibleSince(p) + FailoverLatency

=============================================================================
