------------------------ MODULE LeaseElectionProofs ------------------------
(***************************************************************************)
(* The election of LeaseElection is safe for every number of pods, every   *)
(* clock offset and every timing that satisfies SafeTiming.                *)
(*                                                                         *)
(* Type correctness needs no timing.  Mutual exclusion is not inductive:   *)
(* it holds because the Lease names the pod whose socket is open for as    *)
(* long as the socket can be open, which in turn rests on how far each     *)
(* phase of an election loop can be from the last renewal (PodTiming) and  *)
(* on what a pod knows when its write is accepted (PodClaim).              *)
(***************************************************************************)

EXTENDS LeaseFailover, TLAPS

-----------------------------------------------------------------------------
(* Type correctness *)

LEMMA InitTypeOK == Init => TypeOK
BY ConstantsAssumption DEF Init, TypeOK, LoopStates, ServiceStates, Lease, NoLease

LEMMA DownTypeOK ==
    ASSUME TypeOK, NEW p \in Pod, Down(p), UNCHANGED <<now, lease>>
    PROVE  TypeOK'
BY DEF TypeOK, Down, LoopStates, ServiceStates

LEMMA SleepTypeOK ==
    ASSUME TypeOK, NEW p \in Pod, Sleep(p), UNCHANGED <<now, lease>>,
           isLeader' \in [Pod -> BOOLEAN], lastRenew' \in [Pod -> Nat],
           service' \in [Pod -> ServiceStates], stopBy' \in [Pod -> Nat]
    PROVE  TypeOK'
<1>1. current' \in [Pod -> BOOLEAN]
  BY Zenon DEF TypeOK, Sleep
<1>2. /\ loop' \in [Pod -> LoopStates]
      /\ stamp' \in [Pod -> Nat]
      /\ wakeAt' \in [Pod -> Nat]
  BY ConstantsAssumption DEF TypeOK, Sleep, LoopStates
<1>3. QED
  BY <1>1, <1>2 DEF TypeOK

LEMMA LoopReturnsTypeOK ==
    ASSUME TypeOK, NEW p \in Pod, NEW leading \in BOOLEAN,
           RenewLoopReturns(p, leading), UNCHANGED <<now, lease>>
    PROVE  TypeOK'
<1>1. CASE service[p] = "ended" /\ Down(p)
  BY <1>1, DownTypeOK
<1>2. CASE service[p] # "ended"
  <2>1. /\ current' \in [Pod -> BOOLEAN]
        /\ isLeader' \in [Pod -> BOOLEAN]
    <3>1. /\ current' = [current EXCEPT ![p] = FALSE]
          /\ isLeader' = [isLeader EXCEPT ![p] = leading]
      BY <1>2, Zenon DEF RenewLoopReturns
    <3>2. /\ current \in [Pod -> BOOLEAN]
          /\ isLeader \in [Pod -> BOOLEAN]
      BY DEF TypeOK
    <3>3. current' \in [Pod -> BOOLEAN]
      BY <3>1, <3>2, Zenon
    <3>4. isLeader' \in [Pod -> BOOLEAN]
      BY <3>1, <3>2, Zenon
    <3>5. QED
      BY <3>3, <3>4
  <2>2. /\ loop' \in [Pod -> LoopStates]
        /\ stamp' \in [Pod -> Nat]
        /\ wakeAt' \in [Pod -> Nat]
        /\ lastRenew' \in [Pod -> Nat]
        /\ service' \in [Pod -> ServiceStates]
        /\ stopBy' \in [Pod -> Nat]
    BY <1>2, ConstantsAssumption
       DEF RenewLoopReturns, TypeOK, LoopStates, ServiceStates
  <2>3. QED
    BY <2>1, <2>2 DEF TypeOK
<1>3. QED
  BY <1>1, <1>2 DEF RenewLoopReturns

LEMMA AttemptFailedTypeOK ==
    ASSUME TypeOK, NEW p \in Pod, AttemptFailed(p), UNCHANGED <<now, lease>>
    PROVE  TypeOK'
<1>1. CASE Sleep(p) /\ UNCHANGED <<elector, process>>
  BY <1>1, SleepTypeOK DEF TypeOK, elector, process
<1>2. CASE RenewLoopReturns(p, FALSE)
  BY <1>2, LoopReturnsTypeOK
<1>3. QED
  BY <1>1, <1>2 DEF AttemptFailed

LEMMA NextTypeOK == TypeOK /\ [Next]_vars => TypeOK'
<1> SUFFICES ASSUME TypeOK, [Next]_vars PROVE TypeOK'
  OBVIOUS
<1> USE ConstantsAssumption
<1>1. CASE UNCHANGED vars
  BY <1>1 DEF vars, elector, process, TypeOK
<1>2. CASE Tick
  BY <1>2 DEF Tick, TypeOK, elector, process
<1>3. ASSUME NEW p \in Pod, Attempt(p) PROVE TypeOK'
  <2>1. CASE BeginAttempt(p)
    BY <2>1 DEF BeginAttempt, TypeOK, LoopStates, Clock, elector, process
  <2>2. CASE GetAvailable(p)
    BY <2>2 DEF GetAvailable, TypeOK, LoopStates, elector, process
  <2>3. CASE GetHeldByOther(p)
    <3>1. CASE Sleep(p) /\ UNCHANGED <<elector, process>>
      BY <2>3, <3>1, SleepTypeOK DEF GetHeldByOther, TypeOK, elector, process
    <3>2. CASE RenewLoopReturns(p, FALSE)
      BY <2>3, <3>2, LoopReturnsTypeOK DEF GetHeldByOther
    <3>3. QED
      BY <2>3, <3>1, <3>2 DEF GetHeldByOther
  <2>4. CASE CallFails(p)
    BY <2>4, AttemptFailedTypeOK DEF CallFails
  <2>5. CASE WriteApplied(p)
    BY <2>5 DEF WriteApplied, TypeOK, Lease, LoopStates, elector, process
  <2>6. CASE WriteConflict(p)
    BY <2>6, AttemptFailedTypeOK DEF WriteConflict
  <2>7. CASE ReplyOk(p)
    <3>1. /\ isLeader' \in [Pod -> BOOLEAN]
          /\ lastRenew' \in [Pod -> Nat]
          /\ service' \in [Pod -> ServiceStates]
          /\ stopBy' \in [Pod -> Nat]
      BY <2>7 DEF ReplyOk, TypeOK, ServiceStates
    <3>2. QED
      BY <2>7, <3>1, SleepTypeOK DEF ReplyOk
  <2>8. CASE ReplyLost(p)
    BY <2>8, AttemptFailedTypeOK DEF ReplyLost
  <2>9. QED
    BY <1>3, <2>1, <2>2, <2>3, <2>4, <2>5, <2>6, <2>7, <2>8 DEF Attempt
<1>4. ASSUME NEW p \in Pod, Lifecycle(p) PROVE TypeOK'
  <2>1. CASE Start(p)
    BY <2>1 DEF Start, TypeOK, LoopStates, elector, process
  <2>2. CASE StopSignal(p)
    <3>1. isLeader[p] \in BOOLEAN
      BY DEF TypeOK
    <3>2. CASE Down(p)
      BY <2>2, <3>2, DownTypeOK DEF StopSignal
    <3>3. CASE RenewLoopReturns(p, isLeader[p])
      BY <2>2, <3>1, <3>3, LoopReturnsTypeOK DEF StopSignal
    <3>4. QED
      BY <2>2, <3>2, <3>3 DEF StopSignal
  <2>3. CASE ServiceEnds(p)
    <3>1. CASE Down(p)
      BY <2>3, <3>1, DownTypeOK DEF ServiceEnds
    <3>2. CASE ~Down(p)
      BY <2>3, <3>2 DEF ServiceEnds, TypeOK, ServiceStates, elector
    <3>3. QED
      BY <3>1, <3>2
  <2>4. CASE Exit(p) \/ StopCompletes(p) \/ Crash(p)
    BY <2>4, DownTypeOK DEF Exit, StopCompletes, Crash
  <2>5. QED
    BY <1>4, <2>1, <2>2, <2>3, <2>4 DEF Lifecycle
<1>5. QED
  BY <1>1, <1>2, <1>3, <1>4 DEF Next

(* Type correctness of the election, for every value of the constants. *)
THEOREM TypeCorrect == Spec => []TypeOK
<1>1. QED
  BY InitTypeOK, NextTypeOK, PTL DEF Spec

-----------------------------------------------------------------------------
(* The inductive invariant *)

(* How the phases of one pod fit together, and how late each may be. *)
PodPhases(p) ==
    /\ loop[p] = "down" => service[p] = "none"
    /\ loop[p] = "done" <=> service[p] = "stopping"
    /\ isLeader[p] => service[p] # "none"
    /\ current[p] => loop[p] = "write"
    /\ loop[p] = "sleep" => now <= wakeAt[p] + LoopDelay
    /\ loop[p] \in Attempting =>
          /\ stamp[p] <= Clock(p)
          /\ Clock(p) <= stamp[p] + AttemptLatency
    /\ service[p] = "stopping" => now <= stopBy[p]

(* How far a pod that runs or stops its service can be from its last       *)
(* renewal, all by its own clock.                                          *)
PodTiming(p) ==
    service[p] # "none" =>
        /\ loop[p] = "sleep" =>
              wakeAt[p] + ClockOffset[p]
                 <= lastRenew[p] + RenewDeadline + RetryPeriod
        /\ loop[p] \in Attempting =>
              /\ lastRenew[p] <= stamp[p]
              /\ stamp[p] <= lastRenew[p] + RenewDeadline + RetryPeriod + LoopDelay
        /\ service[p] = "stopping" =>
              stopBy[p] + ClockOffset[p] <= lastRenew[p] + LeadershipBound
        /\ lastRenew[p] <= Clock(p)

(* What the Lease says about a pod that leads or is about to, and what a   *)
(* pod whose write would be accepted knows about the Lease.                *)
PodClaim(p) ==
    /\ service[p] # "none" => /\ lease.holder = p
                              /\ lastRenew[p] <= lease.renewTime
    /\ loop[p] = "applied" => /\ lease.holder = p
                              /\ lease.renewTime = stamp[p]
    /\ current[p] => \/ lease.holder = Nobody
                     \/ lease.holder = p
                     \/ IsExpired(lease, stamp[p])

PodInv(p) == PodPhases(p) /\ PodTiming(p) /\ PodClaim(p)

IInv == TypeOK /\ \A p \in Pod : PodInv(p)

(* The variables of one pod. *)
PodVars(p) ==
    <<loop[p], stamp[p], current[p], wakeAt[p], isLeader[p], lastRenew[p],
      service[p], stopBy[p]>>

LEMMA InitIInv == Init => IInv
<1>1. Init => TypeOK
  BY InitTypeOK
<1>2. ASSUME Init, NEW p \in Pod PROVE PodInv(p)
  BY <1>2 DEF Init, PodInv, PodPhases, PodTiming, PodClaim, Attempting
<1>3. QED
  BY <1>1, <1>2 DEF IInv

(* A pod that is not touched keeps its invariant while the Lease is not    *)
(* touched either.                                                         *)
LEMMA Untouched ==
    ASSUME NEW p \in Pod, PodInv(p), UNCHANGED <<now, lease>>,
           UNCHANGED PodVars(p)
    PROVE  PodInv(p)'
BY DEF PodInv, PodPhases, PodTiming, PodClaim, PodVars, Clock, IsExpired

(* Engaged pods are within LeadershipBound of their last renewal. *)
LEMMA WithinBound ==
    ASSUME IInv, NEW p \in Pod, service[p] # "none"
    PROVE  Clock(p) <= lastRenew[p] + LeadershipBound
<1> USE ConstantsAssumption
<1>1. PodPhases(p) /\ PodTiming(p)
  BY DEF IInv, PodInv
<1>2. /\ loop[p] \in LoopStates
      /\ service[p] \in ServiceStates
      /\ now \in Nat /\ stamp[p] \in Nat /\ wakeAt[p] \in Nat
      /\ lastRenew[p] \in Nat /\ stopBy[p] \in Nat
      /\ ClockOffset[p] \in Nat
  BY DEF IInv, TypeOK
<1>3. CASE loop[p] = "sleep"
  BY <1>1, <1>2, <1>3 DEF PodPhases, PodTiming, Clock, LeadershipBound
<1>4. CASE loop[p] \in Attempting
  BY <1>1, <1>2, <1>4 DEF PodPhases, PodTiming, Clock, LeadershipBound
<1>5. CASE loop[p] = "done"
  BY <1>1, <1>2, <1>5 DEF PodPhases, PodTiming, Clock, LeadershipBound
<1>6. CASE loop[p] = "down"
  BY <1>1, <1>6 DEF PodPhases
<1>7. QED
  BY <1>2, <1>3, <1>4, <1>5, <1>6 DEF LoopStates, Attempting

(* The heart of the argument: while a pod leads, or its write has been     *)
(* applied, no other pod can see the Lease expired.                        *)
LEMMA NoTakeover ==
    ASSUME SafeTiming, IInv, NEW p \in Pod, NEW q \in Pod,
           \/ service[p] # "none"
           \/ loop[p] = "applied",
           loop[q] = "write", current[q]
    PROVE  p = q
<1> USE ConstantsAssumption
<1>1. /\ now \in Nat /\ stamp[p] \in Nat /\ stamp[q] \in Nat
      /\ lastRenew[p] \in Nat /\ lease.renewTime \in Nat
      /\ ClockOffset[p] \in Nat /\ ClockOffset[q] \in Nat
  BY DEF IInv, TypeOK, Lease, NoLease
<1>2. LeadershipBound + ClockOffset[q] <= LeaseDuration + ClockOffset[p]
  BY DEF SafeTiming
<1>3. LeadershipBound \in Nat /\ AttemptLatency <= LeadershipBound
  BY DEF LeadershipBound
<1>4. stamp[q] <= now + ClockOffset[q]
  BY DEF IInv, PodInv, PodPhases, Clock, Attempting
<1>5. now + ClockOffset[p] <= lease.renewTime + LeadershipBound
  <2>1. CASE service[p] # "none"
    <3>1. Clock(p) <= lastRenew[p] + LeadershipBound
      BY <2>1, WithinBound
    <3>2. lastRenew[p] <= lease.renewTime
      BY <2>1 DEF IInv, PodInv, PodClaim
    <3>3. QED
      BY <1>1, <1>3, <3>1, <3>2 DEF Clock
  <2>2. CASE loop[p] = "applied"
    <3>1. Clock(p) <= stamp[p] + AttemptLatency
      BY <2>2 DEF IInv, PodInv, PodPhases, Attempting
    <3>2. lease.renewTime = stamp[p]
      BY <2>2 DEF IInv, PodInv, PodClaim
    <3>3. QED
      BY <1>1, <1>3, <3>1, <3>2 DEF Clock
  <2>3. QED
    BY <2>1, <2>2
<1>6. ~IsExpired(lease, stamp[q])
  BY <1>1, <1>2, <1>3, <1>4, <1>5 DEF IsExpired
<1>7. lease.holder = p
  BY DEF IInv, PodInv, PodClaim
<1>8. lease.holder = Nobody \/ lease.holder = q
  BY <1>6 DEF IInv, PodInv, PodClaim
<1>9. QED
  BY <1>7, <1>8

-----------------------------------------------------------------------------
(* Preservation, for the pod that moves *)

LEMMA DownPod ==
    ASSUME IInv, NEW p \in Pod, Down(p), UNCHANGED <<now, lease>>
    PROVE  PodInv(p)'
BY DEF IInv, TypeOK, Down, PodInv, PodPhases, PodTiming, PodClaim, Attempting

LEMMA LoopReturnsPod ==
    ASSUME IInv, NEW p \in Pod, NEW leading \in BOOLEAN,
           RenewLoopReturns(p, leading), UNCHANGED <<now, lease>>
    PROVE  PodInv(p)'
<1> USE ConstantsAssumption
<1>1. CASE Down(p)
  BY <1>1, DownPod
<1>2. CASE ~Down(p)
  <2>1. /\ now \in Nat /\ lastRenew[p] \in Nat /\ stopBy[p] \in Nat
        /\ stamp[p] \in Nat /\ wakeAt[p] \in Nat
        /\ loop[p] \in LoopStates /\ ClockOffset[p] \in Nat
    BY DEF IInv, TypeOK
  <2>2. PodInv(p) /\ service[p] = "running"
    BY <1>2 DEF IInv, RenewLoopReturns
  <2>3. Clock(p) <= lastRenew[p] + LeadershipBound - StopLatency
    <3>1. loop[p] \in {"sleep"} \cup Attempting
      BY <2>1, <2>2 DEF PodInv, PodPhases, LoopStates, Attempting
    <3>2. CASE loop[p] = "sleep"
      BY <2>1, <2>2, <3>2
         DEF PodInv, PodPhases, PodTiming, Clock, LeadershipBound
    <3>3. CASE loop[p] \in Attempting
      BY <2>1, <2>2, <3>3
         DEF PodInv, PodPhases, PodTiming, Clock, LeadershipBound
    <3>4. QED
      BY <3>1, <3>2, <3>3
  <2>4. /\ loop'[p] = "done"
        /\ service'[p] = "stopping"
        /\ stopBy'[p] = now + StopLatency
        /\ lastRenew'[p] = lastRenew[p]
        /\ current'[p] = FALSE
    BY <1>2 DEF RenewLoopReturns, IInv, TypeOK
  <2>5. PodPhases(p)'
    BY <2>1, <2>4 DEF PodPhases, Attempting
  <2>6. LeadershipBound \in Nat
    BY DEF LeadershipBound
  <2>7. PodTiming(p)'
    BY <2>1, <2>2, <2>3, <2>4, <2>6 DEF PodInv, PodTiming, Clock, Attempting
  <2>8. PodClaim(p)'
    BY <2>2, <2>4 DEF PodInv, PodClaim
  <2>9. QED
    BY <2>5, <2>7, <2>8 DEF PodInv
<1>3. QED
  BY <1>1, <1>2

LEMMA FailedSleepPod ==
    ASSUME IInv, NEW p \in Pod, Sleep(p),
           UNCHANGED <<now, lease, elector, process>>,
           service[p] = "none" \/ ~RenewDeadlinePassed(p),
           loop[p] \in Attempting
    PROVE  PodInv(p)'
<1> USE ConstantsAssumption
<1>1. /\ now \in Nat /\ lastRenew[p] \in Nat /\ stamp[p] \in Nat
      /\ service[p] \in ServiceStates /\ ClockOffset[p] \in Nat
  BY DEF IInv, TypeOK
<1>2. PodInv(p)
  BY DEF IInv
<1>3. /\ loop'[p] = "sleep"
      /\ wakeAt'[p] = now + RetryPeriod
      /\ current'[p] = FALSE
  BY DEF Sleep, IInv, TypeOK
<1>4. /\ isLeader' = isLeader /\ lastRenew' = lastRenew
      /\ service' = service /\ stopBy' = stopBy
  BY DEF elector, process
<1>5. PodPhases(p)'
  BY <1>1, <1>2, <1>3, <1>4 DEF PodInv, PodPhases, Attempting
<1>6. PodTiming(p)'
  BY <1>1, <1>2, <1>3, <1>4
     DEF PodInv, PodPhases, PodTiming, RenewDeadlinePassed, Clock, Attempting
<1>7. PodClaim(p)'
  BY <1>2, <1>3, <1>4 DEF PodInv, PodClaim
<1>8. QED
  BY <1>5, <1>6, <1>7 DEF PodInv

LEMMA AttemptFailedPod ==
    ASSUME IInv, NEW p \in Pod, AttemptFailed(p), loop[p] \in Attempting,
           UNCHANGED <<now, lease>>
    PROVE  PodInv(p)'
<1>1. CASE RenewLoopReturns(p, FALSE)
  BY <1>1, LoopReturnsPod
<1>2. CASE ~RenewLoopReturns(p, FALSE)
  BY <1>2, FailedSleepPod DEF AttemptFailed
<1>3. QED
  BY <1>1, <1>2

LEMMA ReplyOkPod ==
    ASSUME SafeTiming, IInv, NEW p \in Pod, ReplyOk(p)
    PROVE  PodInv(p)'
<1> USE ConstantsAssumption
<1>1. /\ now \in Nat /\ lastRenew[p] \in Nat /\ stamp[p] \in Nat
      /\ service[p] \in ServiceStates /\ ClockOffset[p] \in Nat
  BY DEF IInv, TypeOK
<1>2. PodInv(p) /\ loop[p] = "applied"
  BY DEF IInv, ReplyOk
<1>3. /\ loop'[p] = "sleep"
      /\ wakeAt'[p] = now + RetryPeriod
      /\ current'[p] = FALSE
      /\ lastRenew'[p] = stamp[p]
      /\ service'[p] # "none" /\ service'[p] # "stopping"
  BY <1>1, <1>2
     DEF Sleep, ReplyOk, IInv, TypeOK, PodInv, PodPhases, ServiceStates
<1>4. now' = now /\ lease' = lease
  BY DEF ReplyOk
<1>5. PodPhases(p)'
  BY <1>1, <1>3, <1>4 DEF PodPhases, Attempting
<1>6. Clock(p) <= stamp[p] + AttemptLatency /\ stamp[p] <= Clock(p)
  BY <1>2 DEF PodInv, PodPhases, Attempting
<1>7. PodTiming(p)'
  BY <1>1, <1>3, <1>4, <1>6 DEF SafeTiming, PodTiming, Clock, Attempting
<1>8. PodClaim(p)'
  BY <1>1, <1>2, <1>3, <1>4 DEF PodInv, PodClaim, IInv, TypeOK, Lease, NoLease
<1>9. QED
  BY <1>5, <1>7, <1>8 DEF PodInv

(* The one step that writes the Lease, for every pod. *)
LEMMA WriteAppliedInv ==
    ASSUME SafeTiming, IInv, NEW p \in Pod, WriteApplied(p), NEW q \in Pod
    PROVE  PodInv(q)'
<1> USE ConstantsAssumption
<1>1. loop[p] = "write" /\ current[p]
  BY DEF WriteApplied, WriteAccepted
<1>2. PodInv(q) /\ PodInv(p)
  BY DEF IInv
<1>3. /\ lease'.holder = p /\ lease'.renewTime = stamp[p]
      /\ loop' = [loop EXCEPT ![p] = "applied"]
      /\ \A r \in Pod : ~current'[r]
      /\ now' = now /\ stamp' = stamp /\ wakeAt' = wakeAt
      /\ isLeader' = isLeader /\ lastRenew' = lastRenew
      /\ service' = service /\ stopBy' = stopBy
  BY DEF WriteApplied, elector, process
<1>4. loop \in [Pod -> LoopStates]
  BY DEF IInv, TypeOK
<1>5. CASE q = p
  <2>1. loop'[p] = "applied"
    BY <1>3, <1>4
  <2>2. PodPhases(p)'
    BY <1>1, <1>2, <1>3, <2>1 DEF PodInv, PodPhases, Attempting, Clock
  <2>3. PodTiming(p)'
    BY <1>1, <1>2, <1>3, <2>1 DEF PodInv, PodTiming, Attempting, Clock
  <2>4. PodClaim(p)'
    BY <1>1, <1>2, <1>3, <2>1 DEF PodInv, PodTiming, PodClaim, Attempting
  <2>5. QED
    BY <1>5, <2>2, <2>3, <2>4 DEF PodInv
<1>6. CASE q # p
  <2>1. service[q] = "none" /\ loop[q] # "applied"
    BY <1>1, <1>6, NoTakeover
  <2>2. loop'[q] = loop[q]
    BY <1>3, <1>4, <1>6
  <2>3. PodPhases(q)'
    BY <1>2, <1>3, <2>2 DEF PodInv, PodPhases, Clock
  <2>4. PodTiming(q)' /\ PodClaim(q)'
    BY <1>3, <2>1, <2>2 DEF PodTiming, PodClaim
  <2>5. QED
    BY <2>3, <2>4 DEF PodInv
<1>7. QED
  BY <1>5, <1>6

(* A pod's step other than a write leaves the other pods and the Lease     *)
(* alone.                                                                  *)
LEMMA OtherPods ==
    ASSUME TypeOK, NEW p \in Pod, NEW q \in Pod, p # q,
           Attempt(p) \/ Lifecycle(p), ~WriteApplied(p)
    PROVE  UNCHANGED <<now, lease, PodVars(q)>>
<1>1. ASSUME Down(p) PROVE UNCHANGED PodVars(q)
  BY <1>1 DEF Down, PodVars, TypeOK
<1>2. ASSUME Sleep(p), UNCHANGED <<elector, process>>
      PROVE UNCHANGED PodVars(q)
  BY <1>2 DEF Sleep, PodVars, TypeOK, elector, process
<1>3. ASSUME NEW leading \in BOOLEAN, RenewLoopReturns(p, leading)
      PROVE UNCHANGED PodVars(q)
  BY <1>1, <1>3 DEF RenewLoopReturns, PodVars, TypeOK
<1>4. ASSUME AttemptFailed(p) PROVE UNCHANGED PodVars(q)
  BY <1>2, <1>3, <1>4 DEF AttemptFailed
<1>5. CASE Attempt(p)
  <2>1. CASE BeginAttempt(p) \/ GetAvailable(p)
    BY <2>1 DEF BeginAttempt, GetAvailable, PodVars, TypeOK, elector, process
  <2>2. CASE GetHeldByOther(p)
    BY <1>2, <1>3, <2>2 DEF GetHeldByOther
  <2>3. CASE CallFails(p) \/ WriteConflict(p) \/ ReplyLost(p)
    BY <1>4, <2>3 DEF CallFails, WriteConflict, ReplyLost
  <2>4. CASE ReplyOk(p)
    BY <2>4 DEF ReplyOk, Sleep, PodVars, TypeOK
  <2>5. QED
    BY <1>5, <2>1, <2>2, <2>3, <2>4 DEF Attempt
<1>6. CASE Lifecycle(p)
  <2>1. CASE Start(p)
    BY <2>1 DEF Start, PodVars, TypeOK, elector, process
  <2>2. CASE StopSignal(p)
    BY <1>1, <1>3, <2>2 DEF StopSignal, TypeOK
  <2>3. CASE ServiceEnds(p)
    <3>1. CASE Down(p)
      BY <1>1, <2>3, <3>1 DEF ServiceEnds
    <3>2. CASE ~Down(p)
      BY <2>3, <3>2 DEF ServiceEnds, PodVars, TypeOK, elector
    <3>3. QED
      BY <3>1, <3>2
  <2>4. CASE Exit(p) \/ StopCompletes(p) \/ Crash(p)
    BY <1>1, <2>4 DEF Exit, StopCompletes, Crash
  <2>5. QED
    BY <1>6, <2>1, <2>2, <2>3, <2>4 DEF Lifecycle
<1>7. QED
  BY <1>5, <1>6

LEMMA MovingPod ==
    ASSUME SafeTiming, IInv, NEW p \in Pod,
           Attempt(p) \/ Lifecycle(p), ~WriteApplied(p)
    PROVE  PodInv(p)'
<1> USE ConstantsAssumption
<1>1. PodInv(p)
  BY DEF IInv
<1>2. /\ now \in Nat /\ lastRenew[p] \in Nat /\ stamp[p] \in Nat
      /\ wakeAt[p] \in Nat /\ ClockOffset[p] \in Nat
      /\ loop \in [Pod -> LoopStates] /\ stamp \in [Pod -> Nat]
      /\ wakeAt \in [Pod -> Nat] /\ current \in [Pod -> BOOLEAN]
      /\ service \in [Pod -> ServiceStates]
  BY DEF IInv, TypeOK
<1>3. CASE BeginAttempt(p)
  <2>1. /\ loop[p] = "sleep" /\ loop'[p] = "get"
        /\ stamp'[p] = Clock(p) /\ current' = current
        /\ now' = now /\ lease' = lease
        /\ lastRenew' = lastRenew /\ isLeader' = isLeader
        /\ service' = service /\ stopBy' = stopBy
    BY <1>2, <1>3 DEF BeginAttempt, elector, process
  <2>2. PodPhases(p)'
    BY <1>1, <1>2, <2>1 DEF PodInv, PodPhases, Attempting, Clock
  <2>3. PodTiming(p)'
    BY <1>1, <1>2, <2>1 DEF PodInv, PodPhases, PodTiming, Attempting, Clock
  <2>4. PodClaim(p)'
    BY <1>1, <1>2, <2>1 DEF PodInv, PodPhases, PodClaim
  <2>5. QED
    BY <2>2, <2>3, <2>4 DEF PodInv
<1>4. CASE GetAvailable(p)
  <2>1. /\ loop[p] = "get" /\ loop'[p] = "write" /\ stamp' = stamp
        /\ now' = now /\ lease' = lease
        /\ lastRenew' = lastRenew /\ isLeader' = isLeader
        /\ service' = service /\ stopBy' = stopBy
    BY <1>2, <1>4 DEF GetAvailable, elector, process
  <2>2. \/ lease.holder = Nobody
        \/ lease.holder = p
        \/ IsExpired(lease, stamp[p])
    BY <1>4 DEF GetAvailable, NoLease
  <2>3. PodPhases(p)' /\ PodTiming(p)'
    BY <1>1, <1>2, <2>1 DEF PodInv, PodPhases, PodTiming, Attempting, Clock
  <2>4. PodClaim(p)'
    BY <1>1, <2>1, <2>2 DEF PodInv, PodClaim, IsExpired
  <2>5. QED
    BY <2>3, <2>4 DEF PodInv
<1>5. CASE GetHeldByOther(p)
  <2>1. CASE RenewLoopReturns(p, FALSE)
    BY <1>5, <2>1, LoopReturnsPod DEF GetHeldByOther
  <2>2. CASE ~RenewLoopReturns(p, FALSE)
    BY <1>5, <2>2, FailedSleepPod DEF GetHeldByOther, Attempting
  <2>3. QED
    BY <2>1, <2>2
<1>6. CASE CallFails(p) \/ WriteConflict(p) \/ ReplyLost(p)
  BY <1>6, AttemptFailedPod
     DEF CallFails, WriteConflict, ReplyLost, Attempting
<1>7. CASE ReplyOk(p)
  BY <1>7, ReplyOkPod
<1>8. CASE Start(p)
  <2>1. /\ loop'[p] = "sleep" /\ wakeAt'[p] = now /\ service[p] = "none"
        /\ loop[p] = "down" /\ now' = now /\ lease' = lease
        /\ stamp' = stamp /\ current' = current
        /\ lastRenew' = lastRenew /\ isLeader' = isLeader
        /\ service' = service /\ stopBy' = stopBy
    BY <1>1, <1>2, <1>8 DEF Start, elector, process, PodInv, PodPhases
  <2>2. QED
    BY <1>1, <1>2, <2>1
       DEF PodInv, PodPhases, PodTiming, PodClaim, Attempting
<1>9. CASE StopSignal(p)
  <2>1. CASE Down(p)
    BY <1>9, <2>1, DownPod DEF StopSignal
  <2>2. CASE ~Down(p)
    BY <1>9, <2>2, LoopReturnsPod DEF StopSignal, IInv, TypeOK
  <2>3. QED
    BY <2>1, <2>2
<1>10. CASE ServiceEnds(p)
  <2>1. CASE Down(p)
    BY <1>10, <2>1, DownPod DEF ServiceEnds
  <2>2. CASE ~Down(p)
    <3>1. /\ service[p] = "running" /\ service'[p] = "ended"
          /\ loop[p] \in Attempting
          /\ now' = now /\ lease' = lease /\ loop' = loop
          /\ stamp' = stamp /\ current' = current /\ wakeAt' = wakeAt
          /\ lastRenew' = lastRenew /\ isLeader' = isLeader
          /\ stopBy' = stopBy
      BY <1>2, <1>10, <2>2 DEF ServiceEnds, elector
    <3>2. QED
      BY <1>1, <1>2, <3>1
         DEF PodInv, PodPhases, PodTiming, PodClaim, Attempting, Clock, IsExpired
  <2>3. QED
    BY <2>1, <2>2
<1>11. CASE Exit(p) \/ StopCompletes(p) \/ Crash(p)
  BY <1>11, DownPod DEF Exit, StopCompletes, Crash
<1>12. QED
  BY <1>3, <1>4, <1>5, <1>6, <1>7, <1>8, <1>9, <1>10, <1>11
     DEF Attempt, Lifecycle

LEMMA TickPod ==
    ASSUME IInv, NEW p \in Pod, Tick
    PROVE  PodInv(p)'
<1> USE ConstantsAssumption
<1>1. /\ now \in Nat /\ lastRenew[p] \in Nat /\ stamp[p] \in Nat
      /\ wakeAt[p] \in Nat /\ stopBy[p] \in Nat /\ ClockOffset[p] \in Nat
  BY DEF IInv, TypeOK
<1>2. PodInv(p) /\ InTime(p)
  BY DEF IInv, Tick
<1>3. /\ now' = now + 1 /\ lease' = lease /\ loop' = loop
      /\ stamp' = stamp /\ current' = current /\ wakeAt' = wakeAt
      /\ lastRenew' = lastRenew /\ isLeader' = isLeader
      /\ service' = service /\ stopBy' = stopBy
  BY DEF Tick, elector, process
<1>4. PodPhases(p)'
  BY <1>1, <1>2, <1>3 DEF PodInv, PodPhases, InTime, Clock
<1>5. PodTiming(p)'
  BY <1>1, <1>2, <1>3 DEF PodInv, PodTiming, Clock
<1>6. PodClaim(p)'
  BY <1>2, <1>3 DEF PodInv, PodClaim, IsExpired
<1>7. QED
  BY <1>4, <1>5, <1>6 DEF PodInv

LEMMA NextIInv == SafeTiming /\ IInv /\ [Next]_vars => IInv'
<1> SUFFICES ASSUME SafeTiming, IInv, [Next]_vars PROVE IInv'
  OBVIOUS
<1>1. TypeOK'
  BY NextTypeOK DEF IInv
<1>2. ASSUME NEW q \in Pod PROVE PodInv(q)'
  <2>1. PodInv(q)
    BY DEF IInv
  <2>2. CASE UNCHANGED vars
    BY <2>1, <2>2, Untouched DEF vars, elector, process, PodVars
  <2>3. CASE Tick
    BY <2>3, TickPod
  <2>4. ASSUME NEW p \in Pod, Attempt(p) \/ Lifecycle(p) PROVE PodInv(q)'
    <3>1. CASE WriteApplied(p)
      BY <3>1, WriteAppliedInv
    <3>2. CASE ~WriteApplied(p) /\ p = q
      BY <2>4, <3>2, MovingPod
    <3>3. CASE ~WriteApplied(p) /\ p # q
      BY <2>1, <2>4, <3>3, OtherPods, Untouched DEF IInv
    <3>4. QED
      BY <3>1, <3>2, <3>3
  <2>5. QED
    BY <2>2, <2>3, <2>4 DEF Next
<1>3. QED
  BY <1>1, <1>2 DEF IInv

LEMMA Invariance ==
    ASSUME SafeTiming
    PROVE  Spec => []IInv
<1>1. IInv /\ [Next]_vars => IInv'
  BY NextIInv
<1>2. QED
  BY InitIInv, <1>1, PTL DEF Spec

-----------------------------------------------------------------------------
(* What follows from it *)

(* While a pod's IB socket may be open, the Lease names that pod. *)
THEOREM LiveOwnsLease ==
    ASSUME SafeTiming
    PROVE  Spec => []AccessorOwnsLease
<1>1. IInv => AccessorOwnsLease
  BY DEF IInv, PodInv, PodClaim, AccessorOwnsLease, Live
<1>2. QED
  BY Invariance, <1>1, PTL

(* run_with_leadership never lets two pods hold an IB connection, for      *)
(* every number of pods and every timing that satisfies SafeTiming.        *)
THEOREM MutualExclusion ==
    ASSUME SafeTiming
    PROVE  Spec => []AtMostOneAccessor
<1>1. IInv => AtMostOneAccessor
  BY DEF IInv, PodInv, PodClaim, AtMostOneAccessor, Live
<1>2. QED
  BY Invariance, <1>1, PTL

(* At most one elector reports leadership at any time. *)
THEOREM UniqueLeader ==
    ASSUME SafeTiming
    PROVE  Spec => []AtMostOneLeader
<1>1. IInv => AtMostOneLeader
  BY DEF IInv, PodInv, PodPhases, PodClaim, AtMostOneLeader
<1>2. QED
  BY Invariance, <1>1, PTL

(* A leader that cannot renew closes its socket within LeadershipBound of  *)
(* its last renewal.                                                       *)
THEOREM BoundedLeadership ==
    ASSUME SafeTiming
    PROVE  Spec => []CutOffLeaderStops
<1>1. ASSUME IInv PROVE CutOffLeaderStops
  <2> SUFFICES ASSUME NEW p \in Pod, Live(p)
               PROVE  Clock(p) - lastRenew[p] <= LeadershipBound
    BY DEF CutOffLeaderStops
  <2>1. Clock(p) <= lastRenew[p] + LeadershipBound
    BY <1>1, WithinBound DEF Live
  <2>2. Clock(p) \in Nat /\ lastRenew[p] \in Nat /\ LeadershipBound \in Nat
    BY <1>1, ConstantsAssumption DEF IInv, TypeOK, Clock, LeadershipBound
  <2>3. QED
    BY <2>1, <2>2
<1>2. QED
  BY Invariance, <1>1, PTL

(* A Lease changes hands only after the taker's clock saw it expire.       *)
THEOREM NoEarlyTakeover ==
    ASSUME SafeTiming
    PROVE  Spec => TakeoverOnlyAfterExpiry
<1> DEFINE Holds ==
      /\ lease # NoLease
      /\ lease'.holder # lease.holder
      => Clock(lease'.holder) > lease.renewTime + LeaseDuration
<1>1. ASSUME IInv, [Next]_vars PROVE [Holds]_vars
  <2> SUFFICES ASSUME Next, lease # NoLease, lease'.holder # lease.holder
               PROVE  Clock(lease'.holder) > lease.renewTime + LeaseDuration
    BY <1>1
  <2>1. PICK p \in Pod : WriteApplied(p)
    <3>1. ~Tick
      BY DEF Tick
    <3>2. PICK p \in Pod : Attempt(p) \/ Lifecycle(p)
      BY <3>1 DEF Next
    <3>3. CASE WriteApplied(p)
      BY <3>3
    <3>4. CASE ~WriteApplied(p)
      BY <3>2, <3>4
         DEF Attempt, Lifecycle, BeginAttempt, GetAvailable, GetHeldByOther,
             CallFails, WriteConflict, ReplyOk, ReplyLost, Start, StopSignal,
             ServiceEnds, Exit, StopCompletes, Crash
    <3>5. QED
      BY <3>3, <3>4
  <2>2. lease'.holder = p /\ current[p] /\ loop[p] = "write"
    BY <2>1 DEF WriteApplied, WriteAccepted
  <2>3. lease.holder \in Pod /\ lease.renewTime \in Nat
    BY <1>1 DEF IInv, TypeOK, Lease
  <2>4. IsExpired(lease, stamp[p])
    BY <1>1, <2>2, <2>3, ConstantsAssumption DEF IInv, PodInv, PodClaim
  <2>5. stamp[p] <= Clock(p)
    BY <1>1, <2>2 DEF IInv, PodInv, PodPhases, Attempting
  <2>6. stamp[p] \in Nat /\ Clock(p) \in Nat
    BY <1>1, ConstantsAssumption DEF IInv, TypeOK, Clock
  <2>7. QED
    BY <2>2, <2>3, <2>4, <2>5, <2>6, ConstantsAssumption DEF IsExpired
<1>2. QED
  BY Invariance, <1>1, PTL DEF Spec, TakeoverOnlyAfterExpiry

-----------------------------------------------------------------------------
(* Refinement *)

Accessors == {p \in Pod : Live(p)}

LEMMA StepRefines ==
    ASSUME IInv, IInv', [Next]_vars
    PROVE  [Abstract!Next]_Accessors
<1>1. \A p, q \in Pod : Live(p) /\ Live(q) => p = q
  BY DEF IInv, PodInv, PodClaim, Live
<1>2. CASE service' = service
  BY <1>2 DEF Accessors, Live
<1>3. CASE service' # service
  <2>1. PICK p \in Pod : Attempt(p) \/ Lifecycle(p)
    BY <1>3 DEF Next, Tick, process, vars
  <2>2. ~WriteApplied(p)
    BY <1>3 DEF WriteApplied, process
  <2>3. \A q \in Pod : q # p => service'[q] = service[q]
    BY <2>1, <2>2, OtherPods DEF IInv, PodVars
  <2>4. CASE Live(p) <=> Live(p)'
    <3>1. Accessors' = Accessors
      BY <2>3, <2>4 DEF Accessors, Live
    <3>2. QED
      BY <3>1
  <2>5. CASE Live(p) /\ ~Live(p)'
    <3>1. p \in Accessors /\ Accessors' = Accessors \ {p}
      BY <2>3, <2>5 DEF Accessors, Live
    <3>2. QED
      BY <3>1 DEF Abstract!Next, Abstract!Close, Accessors
  <2>6. CASE ~Live(p) /\ Live(p)'
    <3>1. \A q \in Pod : Live(q)' => q = p
      BY <2>6 DEF IInv, PodInv, PodClaim, Live
    <3>2. Accessors = {} /\ Accessors' = {p}
      BY <2>3, <2>6, <3>1 DEF Accessors, Live
    <3>3. QED
      BY <3>2 DEF Abstract!Next, Abstract!Open, Accessors
  <2>7. QED
    BY <2>4, <2>5, <2>6
<1>4. QED
  BY <1>2, <1>3

(* The election implements SingleAccessor: the pods take turns on the IB   *)
(* socket.                                                                 *)
THEOREM Refinement ==
    ASSUME SafeTiming
    PROVE  Spec => ImplementsSingleAccessor
<1>1. Init => Abstract!Init
  BY DEF Init, Abstract!Init, Live
<1>2. IInv /\ IInv' /\ [Next]_vars => [Abstract!Next]_Accessors
  BY StepRefines
<1>3. QED
  BY Invariance, <1>1, <1>2, PTL
     DEF Spec, ImplementsSingleAccessor, Abstract!Spec, Accessors

-----------------------------------------------------------------------------
(* Failover *)

(* How far a standby's loop can be from the time at which it could have    *)
(* had the Lease, in real time: its last attempt found the Lease taken, or *)
(* lost the race for it (it holds a resource_version that is not current). *)
StandbyInv(p) ==
    loop[p] # "down" /\ service[p] = "none" =>
        /\ loop[p] = "sleep" =>
              wakeAt[p] <= EligibleSince(p) + AttemptLatency + RetryPeriod
        /\ loop[p] \in Attempting =>
              stamp[p] - ClockOffset[p]
                 <= EligibleSince(p) + AttemptLatency + RetryPeriod + LoopDelay
        /\ loop[p] = "write" /\ ~current[p] =>
              stamp[p] - ClockOffset[p] <= EligibleSince(p)

(* The holder's next write is no older than the one it holds the Lease by, *)
(* after a restart as well.                                                *)
HolderInv(p) ==
    lease.holder = p =>
        /\ lease.renewTime <= Clock(p)
        /\ loop[p] \in Attempting => lease.renewTime <= stamp[p]

FailoverInv ==
    /\ upSince \in [Pod -> Nat]
    /\ \A p \in Pod : StandbyInv(p) /\ HolderInv(p)

(* The types one pod's step is about. *)
LEMMA PodTypes ==
    ASSUME TypeOK, upSince \in [Pod -> Nat], NEW p \in Pod
    PROVE  /\ now \in Nat /\ lease.renewTime \in Nat
           /\ loop[p] \in LoopStates /\ service[p] \in ServiceStates
           /\ stamp[p] \in Nat /\ wakeAt[p] \in Nat /\ upSince[p] \in Nat
           /\ ClockOffset[p] \in Nat
           /\ EligibleSince(p) \in Int
           /\ upSince[p] <= EligibleSince(p)
BY ConstantsAssumption DEF TypeOK, Lease, NoLease, EligibleSince

(* What a standby waits for only moves forward while it waits.             *)
LEMMA EligibleLater ==
    ASSUME TypeOK, TypeOK', FailoverInv, NEW p \in Pod, upSince'[p] = upSince[p],
           lease = NoLease \/ (lease' # NoLease /\ lease.renewTime <= lease'.renewTime)
    PROVE  EligibleSince(p)' \in Int /\ EligibleSince(p) <= EligibleSince(p)'
BY ConstantsAssumption
   DEF TypeOK, FailoverInv, Lease, NoLease, EligibleSince

(* A standby that is not touched, while the Lease stays as it is. *)
LEMMA UntouchedStandby ==
    ASSUME FailoverInv, NEW p \in Pod, UNCHANGED lease, now <= now',
           TypeOK, TypeOK',
           UNCHANGED PodVars(p), upSince'[p] = upSince[p]
    PROVE  StandbyInv(p)' /\ HolderInv(p)'
<1>1. EligibleSince(p)' = EligibleSince(p)
  BY DEF EligibleSince
<1>2. StandbyInv(p)'
  BY <1>1 DEF FailoverInv, StandbyInv, PodVars
<1>3. HolderInv(p)'
  BY ConstantsAssumption DEF FailoverInv, HolderInv, PodVars, Clock, TypeOK, Lease, NoLease
<1>. QED BY <1>2, <1>3

(* The step that writes the Lease, for the pod that writes and for those   *)
(* whose race it ends.                                                     *)
LEMMA WriteAppliedFailover ==
    ASSUME SafeTiming, IInv, IInv', FailoverInv, NEW p \in Pod, WriteApplied(p),
           NEW q \in Pod, upSince'[q] = upSince[q]
    PROVE  StandbyInv(q)' /\ HolderInv(q)'
<1>. USE ConstantsAssumption
<1>1. /\ loop[p] = "write" /\ current[p]
      /\ lease' = [holder |-> p, renewTime |-> stamp[p]]
      /\ lease' # NoLease
      /\ loop' = [loop EXCEPT ![p] = "applied"]
      /\ now' = now /\ stamp' = stamp /\ wakeAt' = wakeAt /\ service' = service
  BY DEF WriteApplied, WriteAccepted, process, NoLease
<1>2. /\ stamp[p] \in Nat /\ stamp[q] \in Nat /\ now \in Nat
      /\ ClockOffset[p] \in Nat /\ ClockOffset[q] \in Nat
      /\ lease.renewTime \in Nat
      /\ loop \in [Pod -> LoopStates]
      /\ EligibleSince(q) \in Int
  BY PodTypes DEF IInv, FailoverInv, TypeOK
<1>3. stamp[p] <= Clock(p) /\ Clock(p) <= stamp[p] + AttemptLatency
  BY <1>1 DEF IInv, PodInv, PodPhases, Attempting
<1>4. lease = NoLease \/ lease.renewTime <= stamp[p]
  <2>1. CASE lease.holder = Nobody
    BY <2>1 DEF IInv, TypeOK, Lease
  <2>2. CASE lease.holder = p
    BY <1>1, <2>2 DEF FailoverInv, HolderInv, Attempting
  <2>3. CASE IsExpired(lease, stamp[p])
    BY <1>2, <2>3 DEF IsExpired
  <2>. QED BY <1>1, <2>1, <2>2, <2>3 DEF IInv, PodInv, PodClaim
<1>5. EligibleSince(q)' \in Int /\ EligibleSince(q) <= EligibleSince(q)'
  BY <1>1, <1>4, EligibleLater DEF IInv
<1>6. HolderInv(q)'
  BY <1>1, <1>2, <1>3 DEF HolderInv, Clock
<1>7. CASE q = p
  <2>1. loop'[p] = "applied" /\ stamp'[p] = stamp[p]
    BY <1>1, <1>2
  <2>. QED BY <1>1, <1>2, <1>5, <1>6, <1>7, <2>1
           DEF FailoverInv, StandbyInv, Attempting
<1>8. CASE q # p
  <2>1. loop'[q] = loop[q] /\ wakeAt'[q] = wakeAt[q] /\ stamp'[q] = stamp[q]
    BY <1>1, <1>2, <1>8
  <2>2. ASSUME loop[q] = "write" PROVE stamp[q] - ClockOffset[q] <= EligibleSince(q)'
    <3>1. stamp[q] <= Clock(q)
      BY <2>2 DEF IInv, PodInv, PodPhases, Attempting
    <3>2. LeadershipBound \in Nat /\ AttemptLatency <= LeadershipBound
      BY DEF LeadershipBound
    <3>3. LeadershipBound + ClockOffset[q] <= LeaseDuration + ClockOffset[p]
      BY DEF SafeTiming
    <3>4. stamp[p] + LeaseDuration - ClockOffset[q] <= EligibleSince(q)'
      <4>1. upSince[q] \in Nat
        BY DEF FailoverInv
      <4>. QED BY <1>1, <1>2, <4>1 DEF EligibleSince
    <3>. QED BY <1>2, <1>3, <1>5, <3>1, <3>2, <3>3, <3>4 DEF Clock
  <2>3. wakeAt[q] \in Nat
    BY DEF IInv, TypeOK
  <2>. QED BY <1>1, <1>2, <1>5, <1>6, <2>1, <2>2, <2>3
           DEF FailoverInv, StandbyInv, Attempting
<1>. QED BY <1>7, <1>8

(* A standby's attempt that gives the Lease up for now: it ends in a sleep *)
(* that is over soon enough.                                               *)
LEMMA StandbySleeps ==
    ASSUME IInv, FailoverInv, NEW p \in Pod, Sleep(p), UNCHANGED <<now, lease>>,
           upSince'[p] = upSince[p], loop[p] \in Attempting,
           stamp[p] - ClockOffset[p] <= EligibleSince(p)
    PROVE  StandbyInv(p)' /\ HolderInv(p)'
<1>. USE ConstantsAssumption
<1>1. /\ loop'[p] = "sleep" /\ wakeAt'[p] = now + RetryPeriod
  BY DEF Sleep, IInv, TypeOK
<1>2. Clock(p) <= stamp[p] + AttemptLatency
  BY DEF IInv, PodInv, PodPhases
<1>3. EligibleSince(p)' = EligibleSince(p) /\ EligibleSince(p) \in Int
      /\ stamp[p] \in Nat /\ now \in Nat /\ ClockOffset[p] \in Nat
  BY PodTypes DEF EligibleSince, IInv, FailoverInv
<1>4. StandbyInv(p)'
  BY <1>1, <1>2, <1>3 DEF StandbyInv, Clock, Attempting
<1>5. HolderInv(p)'
  BY <1>1 DEF FailoverInv, HolderInv, Attempting, Clock
<1>. QED BY <1>4, <1>5

(* A pod that is not a standby after a step that leaves the Lease alone.   *)
LEMMA NotStandby ==
    ASSUME IInv, FailoverInv, NEW p \in Pod, UNCHANGED <<now, lease>>,
           \/ loop'[p] = "down"
           \/ loop'[p] \in {"sleep", "done"} /\ service'[p] # "none"
           \/ loop'[p] = loop[p] /\ stamp'[p] = stamp[p] /\ service'[p] # "none"
    PROVE  StandbyInv(p)' /\ HolderInv(p)'
<1>1. StandbyInv(p)'
  BY DEF StandbyInv
<1>2. HolderInv(p)'
  BY DEF FailoverInv, HolderInv, Attempting, Clock
<1>. QED BY <1>1, <1>2

(* What the loop returning leaves. *)
LEMMA ReturnedIsNotStandby ==
    ASSUME IInv, FailoverInv, NEW p \in Pod, NEW leading \in BOOLEAN,
           Down(p) \/ RenewLoopReturns(p, leading), UNCHANGED <<now, lease>>
    PROVE  StandbyInv(p)' /\ HolderInv(p)'
<1>1. CASE Down(p)
  BY <1>1, NotStandby DEF Down, IInv, TypeOK
<1>2. CASE ~Down(p)
  <2>1. loop'[p] = "done" /\ service'[p] = "stopping"
    BY <1>2 DEF RenewLoopReturns, IInv, TypeOK
  <2>. QED BY <2>1, NotStandby
<1>. QED BY <1>1, <1>2

(* Every other step of a pod, while the API server answers. *)
LEMMA MovingStandby ==
    ASSUME SafeTiming, ~BackendFaults, IInv, IInv', FailoverInv,
           NEW p \in Pod, Attempt(p) \/ Lifecycle(p), ~WriteApplied(p),
           upSince'[p] = IF loop[p] = "down" /\ loop'[p] # "down"
                         THEN now ELSE upSince[p]
    PROVE  StandbyInv(p)' /\ HolderInv(p)'
<1>. USE ConstantsAssumption
<1>1. PodPhases(p) /\ StandbyInv(p) /\ HolderInv(p)
  BY DEF IInv, PodInv, FailoverInv
<1>2. /\ now \in Nat /\ lease.renewTime \in Nat
      /\ loop[p] \in LoopStates /\ service[p] \in ServiceStates
      /\ stamp[p] \in Nat /\ wakeAt[p] \in Nat /\ upSince[p] \in Nat
      /\ ClockOffset[p] \in Nat
      /\ EligibleSince(p) \in Int
  BY PodTypes DEF IInv, FailoverInv
<1>3. TypeOK
  BY DEF IInv
<1>4. CASE BeginAttempt(p)
  <2>1. /\ loop[p] = "sleep" /\ loop'[p] = "get" /\ stamp'[p] = Clock(p)
        /\ now' = now /\ lease' = lease /\ service' = service
        /\ upSince'[p] = upSince[p] /\ now >= wakeAt[p]
    BY <1>3, <1>4 DEF BeginAttempt, process, TypeOK
  <2>2. EligibleSince(p)' = EligibleSince(p)
    BY <2>1 DEF EligibleSince
  <2>3. now <= wakeAt[p] + LoopDelay
    BY <1>1, <2>1 DEF PodPhases
  <2>4. StandbyInv(p)'
    BY <1>1, <1>2, <2>1, <2>2, <2>3 DEF StandbyInv, Clock, Attempting
  <2>5. HolderInv(p)'
    BY <1>1, <1>2, <2>1 DEF HolderInv, Clock
  <2>. QED BY <2>4, <2>5
<1>5. CASE GetAvailable(p)
  <2>1. /\ loop[p] = "get" /\ loop'[p] = "write" /\ stamp' = stamp
        /\ current'[p] = TRUE
        /\ now' = now /\ lease' = lease /\ service' = service
        /\ upSince'[p] = upSince[p]
    BY <1>3, <1>5 DEF GetAvailable, process, TypeOK
  <2>2. EligibleSince(p)' = EligibleSince(p)
    BY <2>1 DEF EligibleSince
  <2>3. StandbyInv(p)'
    BY <1>1, <1>2, <2>1, <2>2 DEF StandbyInv, Attempting
  <2>4. HolderInv(p)'
    BY <1>1, <2>1 DEF HolderInv, Attempting, Clock
  <2>. QED BY <2>3, <2>4
<1>6. CASE GetHeldByOther(p)
  <2>1. CASE service[p] = "none" /\ Sleep(p)
    <3>1. stamp[p] - ClockOffset[p] <= EligibleSince(p)
      BY <1>2, <1>6 DEF GetHeldByOther, IsExpired, EligibleSince
    <3>2. upSince'[p] = upSince[p] /\ loop[p] \in Attempting /\ UNCHANGED <<now, lease>>
      BY <1>6 DEF GetHeldByOther, Attempting
    <3>. QED BY <2>1, <3>1, <3>2, StandbySleeps
  <2>2. CASE RenewLoopReturns(p, FALSE)
    BY <1>6, <2>2, ReturnedIsNotStandby DEF GetHeldByOther
  <2>. QED BY <1>6, <2>1, <2>2 DEF GetHeldByOther
<1>7. CASE WriteConflict(p)
  <2>1. /\ loop[p] = "write" /\ ~current[p] /\ loop[p] \in Attempting
        /\ UNCHANGED <<now, lease>> /\ upSince'[p] = upSince[p]
    BY <1>7 DEF WriteConflict, WriteAccepted, Attempting
  <2>2. CASE service[p] = "none" /\ Sleep(p)
    <3>1. stamp[p] - ClockOffset[p] <= EligibleSince(p)
      BY <1>1, <2>1, <2>2 DEF StandbyInv
    <3>. QED BY <2>1, <2>2, <3>1, StandbySleeps
  <2>3. CASE service[p] # "none" /\ Sleep(p) /\ UNCHANGED <<elector, process>>
    BY <1>3, <2>1, <2>3, NotStandby DEF Sleep, process, TypeOK
  <2>4. CASE RenewLoopReturns(p, FALSE)
    BY <2>1, <2>4, ReturnedIsNotStandby
  <2>. QED BY <1>7, <2>2, <2>3, <2>4 DEF WriteConflict, AttemptFailed
<1>8. CASE ReplyOk(p)
  <2>1. loop'[p] = "sleep" /\ service'[p] # "none" /\ UNCHANGED <<now, lease>>
    BY <1>2, <1>3, <1>8 DEF ReplyOk, Sleep, TypeOK
  <2>. QED BY <2>1, NotStandby
<1>9. CASE Start(p)
  <2>1. /\ loop'[p] = "sleep" /\ wakeAt'[p] = now /\ upSince'[p] = now
        /\ now' = now /\ lease' = lease /\ service' = service
    BY <1>3, <1>9 DEF Start, process, TypeOK
  <2>2. EligibleSince(p)' \in Int /\ now <= EligibleSince(p)'
    BY <1>2, <2>1 DEF EligibleSince
  <2>3. StandbyInv(p)'
    BY <1>2, <2>1, <2>2 DEF StandbyInv, Attempting
  <2>4. HolderInv(p)'
    BY <1>1, <2>1 DEF HolderInv, Attempting, Clock
  <2>. QED BY <2>3, <2>4
<1>10. CASE StopSignal(p)
  BY <1>3, <1>10, ReturnedIsNotStandby DEF StopSignal, TypeOK
<1>11. CASE ServiceEnds(p)
  <2>1. CASE Down(p)
    BY <1>11, <2>1, ReturnedIsNotStandby DEF ServiceEnds
  <2>2. CASE ~Down(p)
    <3>1. /\ loop'[p] = loop[p] /\ stamp'[p] = stamp[p] /\ service'[p] # "none"
          /\ UNCHANGED <<now, lease>>
      BY <1>3, <1>11, <2>2 DEF ServiceEnds, TypeOK
    <3>. QED BY <3>1, NotStandby
  <2>. QED BY <2>1, <2>2
<1>12. CASE Exit(p) \/ StopCompletes(p) \/ Crash(p)
  BY <1>12, ReturnedIsNotStandby DEF Exit, StopCompletes, Crash
<1>. QED
  BY <1>4, <1>5, <1>6, <1>7, <1>8, <1>9, <1>10, <1>11, <1>12
     DEF Attempt, Lifecycle, CallFails, ReplyLost

LEMMA NextFailoverInv ==
    ASSUME SafeTiming, ~BackendFaults, IInv, IInv', FailoverInv,
           [ObservedNext]_ObservedVars
    PROVE  FailoverInv'
<1>1. CASE UNCHANGED ObservedVars
  BY <1>1 DEF ObservedVars, vars, elector, process, FailoverInv, StandbyInv, HolderInv,
              EligibleSince, Clock
<1>2. CASE ObservedNext
  <2>1. upSince' = [p \in Pod |-> IF loop[p] = "down" /\ loop'[p] # "down"
                                  THEN now ELSE upSince[p]]
    BY <1>2 DEF ObservedNext
  <2>2. upSince' \in [Pod -> Nat]
    BY <2>1 DEF FailoverInv, IInv, TypeOK
  <2>3. ASSUME NEW q \in Pod PROVE StandbyInv(q)' /\ HolderInv(q)'
    <3>1. TypeOK /\ TypeOK'
      BY DEF IInv
    <3>2. CASE Tick
      <4>1. /\ UNCHANGED <<lease, PodVars(q)>> /\ loop' = loop /\ now' = now + 1
        BY <3>2 DEF Tick, PodVars, elector, process
      <4>2. upSince'[q] = upSince[q] /\ now <= now'
        BY <2>1, <3>1, <4>1 DEF TypeOK
      <4>. QED BY <3>1, <4>1, <4>2, UntouchedStandby
    <3>3. ASSUME NEW p \in Pod, Attempt(p) \/ Lifecycle(p)
          PROVE  StandbyInv(q)' /\ HolderInv(q)'
      <4>1. CASE WriteApplied(p)
        <5>1. \A r \in Pod : loop[r] = "down" <=> loop'[r] = "down"
          BY <3>1, <4>1 DEF WriteApplied, TypeOK
        <5>. QED BY <2>1, <4>1, <5>1, WriteAppliedFailover
      <4>2. CASE ~WriteApplied(p) /\ p = q
        BY <2>1, <3>3, <4>2, MovingStandby
      <4>3. CASE ~WriteApplied(p) /\ p # q
        <5>1. UNCHANGED <<now, lease, PodVars(q)>>
          BY <3>1, <3>3, <4>3, OtherPods
        <5>2. upSince'[q] = upSince[q] /\ now <= now'
          BY <2>1, <3>1, <5>1 DEF PodVars, TypeOK
        <5>. QED BY <3>1, <5>1, <5>2, UntouchedStandby
      <4>. QED BY <4>1, <4>2, <4>3
    <3>. QED BY <1>2, <3>2, <3>3 DEF ObservedNext, Next
  <2>. QED BY <2>2, <2>3 DEF FailoverInv
<1>. QED BY <1>1, <1>2

(* While the API server answers, no standby waits longer than              *)
(* FailoverLatency after the Lease became free, for every number of pods   *)
(* that compete for it: who loses the race finds a fresh Lease.            *)
THEOREM BoundedFailover ==
    ASSUME SafeTiming, ~BackendFaults
    PROVE  ObservedSpec => []FailoverBound
<1>1. ObservedInit => IInv /\ FailoverInv
  <2>1. ASSUME ObservedInit, NEW p \in Pod PROVE StandbyInv(p) /\ HolderInv(p)
    BY <2>1, ConstantsAssumption
       DEF ObservedInit, Init, StandbyInv, HolderInv, NoLease
  <2>. QED BY <2>1, InitIInv DEF ObservedInit, FailoverInv
<1>2. IInv /\ FailoverInv /\ [ObservedNext]_ObservedVars => IInv' /\ FailoverInv'
  <2>1. [ObservedNext]_ObservedVars => [Next]_vars
    BY DEF ObservedNext, ObservedVars
  <2>. QED BY <2>1, NextIInv, NextFailoverInv
<1>3. IInv /\ FailoverInv => FailoverBound
  <2>. SUFFICES ASSUME IInv, FailoverInv,
                       NEW p \in Pod, loop[p] # "down", service[p] = "none"
                PROVE  now <= EligibleSince(p) + FailoverLatency
    BY DEF FailoverBound
  <2>1. PodPhases(p) /\ StandbyInv(p)
    BY DEF IInv, PodInv, FailoverInv
  <2>2. /\ now \in Nat /\ stamp[p] \in Nat /\ wakeAt[p] \in Nat
        /\ ClockOffset[p] \in Nat /\ EligibleSince(p) \in Int
        /\ loop[p] \in {"sleep"} \cup Attempting
    BY <2>1, PodTypes DEF IInv, FailoverInv, PodPhases, LoopStates, Attempting
  <2>. QED BY <2>1, <2>2, ConstantsAssumption
           DEF PodPhases, StandbyInv, Clock, FailoverLatency
<1>. QED BY <1>1, <1>2, <1>3, PTL DEF ObservedSpec

=============================================================================
