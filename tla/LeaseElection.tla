--------------------------- MODULE LeaseElection ---------------------------
(***************************************************************************)
(* Active-standby election of the pod that may open the IB socket          *)
(* (src/src/bifrost_socket/ib/lease.py).  Several pods of one role share a *)
(* coordination.k8s.io Lease.  A pod waits in `acquire` until it holds the *)
(* Lease, then runs its IB service beside `renew_until_lost`; when the     *)
(* renew loop returns the service is cancelled and the process exits, to   *)
(* be restarted as a standby with the same identity.                       *)
(*                                                                         *)
(* Time is discrete.  A backend call is several steps, because the Lease   *)
(* may change between `get` and `update`, and because the reply to an      *)
(* update that was applied may be late or lost.  The upper bounds on how   *)
(* long a step may take are CONSTANTS; Tick cannot pass a bound.           *)
(*                                                                         *)
(*   now        real time                                                  *)
(*   lease      the Lease object: holder and renewTime; or NoLease         *)
(*   loop[p]    where p's election loop is (see LoopStates)                *)
(*   stamp[p]   the `now` p read from its own clock for this attempt       *)
(*   current[p] whether the resource_version p got in this attempt is      *)
(*              still the stored one: nobody has written since p's get     *)
(*   wakeAt[p]  when p's sleep between two attempts is over                *)
(*   isLeader[p], lastRenew[p]   the elector's two fields                  *)
(*   service[p] p's IB service (see ServiceStates)                         *)
(*   stopBy[p]  when the cancelled service has unwound at the latest       *)
(***************************************************************************)

EXTENDS Integers

CONSTANTS
    Pod,             \* the replicas of one IB role: elector identities
    Nobody,          \* the holder of the Lease that does not exist yet
    LeaseDuration,   \* lease_duration_sec
    RenewDeadline,   \* renew_deadline_sec
    RetryPeriod,     \* retry_period_sec
    LoopDelay,       \* a sleep ends at most this much late (busy event loop)
    AttemptLatency,  \* get and create/update together take at most this long
    StopLatency,     \* a cancelled service has disconnected after this long
    ClockOffset,     \* how far each pod's wall clock is ahead of real time
    BackendFaults,   \* whether calls to the API server may fail
    MaxTime          \* bound on `now`

ASSUME ConstantsAssumption ==
    /\ Nobody \notin Pod
    /\ LeaseDuration \in Nat
    /\ RenewDeadline \in Nat
    /\ RetryPeriod \in Nat
    /\ LoopDelay \in Nat
    /\ AttemptLatency \in Nat
    /\ StopLatency \in Nat
    /\ ClockOffset \in [Pod -> Nat]
    /\ BackendFaults \in BOOLEAN
    /\ MaxTime \in Nat

VARIABLES now, lease, loop, stamp, current, wakeAt, isLeader, lastRenew,
          service, stopBy

elector == <<isLeader, lastRenew>>
process == <<service, stopBy>>
vars == <<now, lease, loop, stamp, current, wakeAt, elector, process>>

(* down: no process; sleep: in _wait_or_stop; get, write: that backend     *)
(* call is under way; applied: the API server has stored the write and the *)
(* reply is under way; done: renew_until_lost has returned.                *)
LoopStates == {"down", "sleep", "get", "write", "applied", "done"}

(* none: standby; running; stopping: cancelled, IB not yet disconnected;   *)
(* ended: returned or raised on its own while an attempt was under way.    *)
ServiceStates == {"none", "running", "stopping", "ended"}

Lease == [holder : Pod, renewTime : Nat]
NoLease == [holder |-> Nobody, renewTime |-> 0]

Attempting == {"get", "write", "applied"}

-----------------------------------------------------------------------------
(* Helpers *)

Clock(p) == now + ClockOffset[p]

(* A slip of is_expired: `>=` for `>`. *)
IsExpiredInclusive(record, t) == t - record.renewTime >= LeaseDuration

(* LeaseRecord.is_expired, at the time `t` of the asking pod's clock. *)
IsExpired(record, t) == t - record.renewTime > LeaseDuration

(* A slip of update: a replace that does not send the resource_version. *)
WriteWithoutCas(p) == TRUE

(* Compare-and-swap: a create needs the Lease to be absent still, an       *)
(* update needs the resource_version that get returned.                    *)
WriteAccepted(p) == current[p]

(* The pod's IB socket may be open. *)
Live(p) == service[p] \in {"running", "stopping"}

(* The latest real time at which the step p is in must be over. *)
InTime(p) ==
    /\ loop[p] = "sleep" => now < wakeAt[p] + LoopDelay
    /\ loop[p] \in Attempting => Clock(p) < stamp[p] + AttemptLatency
    /\ service[p] = "stopping" => now < stopBy[p]

-----------------------------------------------------------------------------

Init ==
    /\ now = 0
    /\ lease = NoLease
    /\ loop = [p \in Pod |-> "down"]
    /\ stamp = [p \in Pod |-> 0]
    /\ current = [p \in Pod |-> FALSE]
    /\ wakeAt = [p \in Pod |-> 0]
    /\ isLeader = [p \in Pod |-> FALSE]
    /\ lastRenew = [p \in Pod |-> 0]
    /\ service = [p \in Pod |-> "none"]
    /\ stopBy = [p \in Pod |-> 0]

(* The process is gone, and its socket with it: the OS closes it. *)
Down(p) ==
    /\ loop' = [loop EXCEPT ![p] = "down"]
    /\ stamp' = [stamp EXCEPT ![p] = 0]
    /\ wakeAt' = [wakeAt EXCEPT ![p] = 0]
    /\ isLeader' = [isLeader EXCEPT ![p] = FALSE]
    /\ lastRenew' = [lastRenew EXCEPT ![p] = 0]
    /\ service' = [service EXCEPT ![p] = "none"]
    /\ stopBy' = [stopBy EXCEPT ![p] = 0]
    /\ current' = [current EXCEPT ![p] = FALSE]

(* A slip of the sleep: the wrong setting. *)
SleepLeaseDuration(p) ==
    /\ loop' = [loop EXCEPT ![p] = "sleep"]
    /\ wakeAt' = [wakeAt EXCEPT ![p] = now + LeaseDuration]
    /\ stamp' = [stamp EXCEPT ![p] = 0]
    /\ current' = [current EXCEPT ![p] = FALSE]

(* _wait_or_stop(retry_period_sec) begins. *)
Sleep(p) ==
    /\ loop' = [loop EXCEPT ![p] = "sleep"]
    /\ wakeAt' = [wakeAt EXCEPT ![p] = now + RetryPeriod]
    /\ stamp' = [stamp EXCEPT ![p] = 0]
    /\ current' = [current EXCEPT ![p] = FALSE]

(* renew_until_lost returns: run_with_leadership cancels the service and   *)
(* waits for it, or exits at once when the service has ended already.      *)
RenewLoopReturns(p, leading) ==
    \/ /\ service[p] = "running"
       /\ loop' = [loop EXCEPT ![p] = "done"]
       /\ stamp' = [stamp EXCEPT ![p] = 0]
       /\ current' = [current EXCEPT ![p] = FALSE]
       /\ wakeAt' = [wakeAt EXCEPT ![p] = 0]
       /\ isLeader' = [isLeader EXCEPT ![p] = leading]
       /\ service' = [service EXCEPT ![p] = "stopping"]
       /\ stopBy' = [stopBy EXCEPT ![p] = now + StopLatency]
       /\ UNCHANGED lastRenew
    \/ /\ service[p] = "ended"
       /\ Down(p)

(* Slips of the deadline check: dropped, and against the wrong setting. *)
RenewDeadlineNever(p) == FALSE
LeaseDurationPassed(p) == Clock(p) - lastRenew[p] > LeaseDuration

(* LeaseAttempt.FAILED: a standby retries; a leader retries until its      *)
(* renew deadline has passed, and then _expire_self ends its leadership.   *)
RenewDeadlinePassed(p) == Clock(p) - lastRenew[p] > RenewDeadline

AttemptFailed(p) ==
    \/ /\ \/ service[p] = "none"
          \/ ~RenewDeadlinePassed(p)
       /\ Sleep(p)
       /\ UNCHANGED <<elector, process>>
    \/ /\ service[p] # "none"
       /\ RenewDeadlinePassed(p)
       /\ RenewLoopReturns(p, FALSE)

-----------------------------------------------------------------------------
(* Actions *)

(* The pod is started, by the first rollout or after an exit or a crash:   *)
(* acquire makes its first attempt without waiting.                        *)
Start(p) ==
    /\ loop[p] = "down"
    /\ loop' = [loop EXCEPT ![p] = "sleep"]
    /\ wakeAt' = [wakeAt EXCEPT ![p] = now]
    /\ UNCHANGED <<now, lease, stamp, current, elector, process>>

(* try_acquire_or_renew(self.clock()): the clock is read before the calls. *)
BeginAttempt(p) ==
    /\ loop[p] = "sleep"
    /\ now >= wakeAt[p]
    /\ loop' = [loop EXCEPT ![p] = "get"]
    /\ stamp' = [stamp EXCEPT ![p] = Clock(p)]
    /\ wakeAt' = [wakeAt EXCEPT ![p] = 0]
    /\ UNCHANGED <<now, lease, current, elector, process>>

(* get returns no Lease, our own, or one that has expired: go on to write. *)
GetAvailable(p) ==
    /\ loop[p] = "get"
    /\ \/ lease = NoLease
       \/ lease.holder = p
       \/ IsExpired(lease, stamp[p])
    /\ loop' = [loop EXCEPT ![p] = "write"]
    /\ current' = [current EXCEPT ![p] = TRUE]
    /\ UNCHANGED <<now, lease, stamp, wakeAt, elector, process>>

(* get returns another pod's valid Lease: HELD_BY_OTHER, a definitive loss *)
(* for a leader, another wait for a standby.                               *)
GetHeldByOther(p) ==
    /\ loop[p] = "get"
    /\ lease # NoLease
    /\ lease.holder # p
    /\ ~IsExpired(lease, stamp[p])
    /\ \/ /\ service[p] = "none"
          /\ Sleep(p)
          /\ UNCHANGED <<elector, process>>
       \/ RenewLoopReturns(p, FALSE)
    /\ UNCHANGED <<now, lease>>

(* get, create or update fails without an effect on the Lease. *)
CallFails(p) ==
    /\ BackendFaults
    /\ loop[p] \in {"get", "write"}
    /\ AttemptFailed(p)
    /\ UNCHANGED <<now, lease>>

(* The API server stores the record: create, renewal or takeover. *)
WriteApplied(p) ==
    /\ loop[p] = "write"
    /\ WriteAccepted(p)
    /\ lease' = [holder |-> p, renewTime |-> stamp[p]]
    /\ loop' = [loop EXCEPT ![p] = "applied"]
    /\ current' = [q \in Pod |-> FALSE]
    /\ UNCHANGED <<now, stamp, wakeAt, elector, process>>

(* LeaseConflict: somebody wrote since get. *)
WriteConflict(p) ==
    /\ loop[p] = "write"
    /\ ~WriteAccepted(p)
    /\ AttemptFailed(p)
    /\ UNCHANGED <<now, lease>>

(* The write succeeded: _mark_leader.  A standby leaves acquire and starts *)
(* its service; a leader's renew loop goes on.                             *)
ReplyOk(p) ==
    /\ loop[p] = "applied"
    /\ isLeader' = [isLeader EXCEPT ![p] = TRUE]
    /\ lastRenew' = [lastRenew EXCEPT ![p] = stamp[p]]
    /\ service' = [service EXCEPT ![p] = IF @ = "none" THEN "running" ELSE @]
    /\ Sleep(p)
    /\ UNCHANGED <<now, lease, stopBy>>

(* The write was applied, but the pod sees an error. *)
ReplyLost(p) ==
    /\ BackendFaults
    /\ loop[p] = "applied"
    /\ AttemptFailed(p)
    /\ UNCHANGED <<now, lease>>

(* SIGTERM while the loop sleeps (a signal that comes during an attempt    *)
(* takes effect in the sleep after it): acquire returns False, or          *)
(* renew_until_lost returns with is_leader still set.                      *)
StopSignal(p) ==
    /\ loop[p] = "sleep"
    /\ \/ /\ service[p] = "none"
          /\ Down(p)
       \/ RenewLoopReturns(p, isLeader[p])
    /\ UNCHANGED <<now, lease>>

(* The service returns or raises: run_with_leadership cancels the renew    *)
(* loop in its sleep and exits.  During an attempt the event loop is       *)
(* blocked; only the operator's service thread can end then.               *)
ServiceEnds(p) ==
    /\ service[p] = "running"
    /\ \/ /\ loop[p] = "sleep"
          /\ Down(p)
       \/ /\ loop[p] \in Attempting
          /\ service' = [service EXCEPT ![p] = "ended"]
          /\ UNCHANGED <<loop, stamp, current, wakeAt, elector, stopBy>>
    /\ UNCHANGED <<now, lease>>

(* The attempt that was under way when the service ended is over: exit. *)
Exit(p) ==
    /\ service[p] = "ended"
    /\ loop[p] = "sleep"
    /\ Down(p)
    /\ UNCHANGED <<now, lease>>

(* The cancelled service has disconnected; the process exits.  The Lease   *)
(* is not released.                                                        *)
StopCompletes(p) ==
    /\ service[p] = "stopping"
    /\ Down(p)
    /\ UNCHANGED <<now, lease>>

Crash(p) ==
    /\ loop[p] # "down"
    /\ Down(p)
    /\ UNCHANGED <<now, lease>>

Tick ==
    /\ now < MaxTime
    /\ \A p \in Pod : InTime(p)
    /\ now' = now + 1
    /\ UNCHANGED <<lease, loop, stamp, current, wakeAt, elector, process>>

Attempt(p) ==
    \/ BeginAttempt(p)
    \/ GetAvailable(p)
    \/ GetHeldByOther(p)
    \/ CallFails(p)
    \/ WriteApplied(p)
    \/ WriteConflict(p)
    \/ ReplyOk(p)
    \/ ReplyLost(p)

Lifecycle(p) ==
    \/ Start(p)
    \/ StopSignal(p)
    \/ ServiceEnds(p)
    \/ Exit(p)
    \/ StopCompletes(p)
    \/ Crash(p)

Next ==
    \/ Tick
    \/ \E p \in Pod : Attempt(p) \/ Lifecycle(p)

Spec == Init /\ [][Next]_vars

-----------------------------------------------------------------------------
(* Properties *)

(* Every variable has its type.  Process-local state is zero when no       *)
(* process runs.                                                           *)
TypeOK ==
    /\ now \in Nat
    /\ lease \in Lease \cup {NoLease}
    /\ loop \in [Pod -> LoopStates]
    /\ stamp \in [Pod -> Nat]
    /\ current \in [Pod -> BOOLEAN]
    /\ wakeAt \in [Pod -> Nat]
    /\ isLeader \in [Pod -> BOOLEAN]
    /\ lastRenew \in [Pod -> Nat]
    /\ service \in [Pod -> ServiceStates]
    /\ stopBy \in [Pod -> Nat]

(* Real time from a leader's last successful renewal (when it read its     *)
(* clock for it) until its socket is closed, at the latest: the deadline   *)
(* check just misses, one more sleep and attempt follow, then the service  *)
(* unwinds.                                                                *)
LeadershipBound ==
    RenewDeadline + RetryPeriod + LoopDelay + AttemptLatency + StopLatency

(* The timing under which the election is safe: the old leader is gone     *)
(* before any other clock sees the Lease expire.  With the defaults 15, 10 *)
(* and 2 seconds this leaves 3 seconds for latency, unwinding and skew.    *)
SafeTiming ==
    /\ AttemptLatency <= RenewDeadline
    /\ \A p, q \in Pod :
          LeadershipBound + ClockOffset[q] <= LeaseDuration + ClockOffset[p]

(* The promise of run_with_leadership: at most one pod has an IB           *)
(* connection open, whatever is retried, lost, late or crashed.            *)
AtMostOneAccessor ==
    \A p, q \in Pod : Live(p) /\ Live(q) => p = q

(* The core W4 invariant of tests/test_ib_lease.py: at most one elector    *)
(* reports leadership at any time.                                         *)
AtMostOneLeader ==
    \A p, q \in Pod : isLeader[p] /\ isLeader[q] => p = q

(* While a pod's IB socket may be open, the Lease names that pod, also     *)
(* during the attempts that fail and while the service unwinds.            *)
AccessorOwnsLease ==
    \A p \in Pod : Live(p) => lease.holder = p

(* A leader cut off from the API server gives the socket up in bounded     *)
(* time: renew_deadline_sec is only checked after a failed attempt.        *)
CutOffLeaderStops ==
    \A p \in Pod : Live(p) => Clock(p) - lastRenew[p] <= LeadershipBound

(* A pod never takes a Lease over from another while that other's renewal  *)
(* is within lease_duration_sec of the taker's clock.                      *)
TakeoverOnlyAfterExpiry ==
    [][ /\ lease # NoLease
        /\ lease'.holder # lease.holder
        => Clock(lease'.holder) > lease.renewTime + LeaseDuration ]_vars

(* Safety as a refinement: pods take turns on one external resource. *)
Abstract == INSTANCE SingleAccessor WITH accessors <- {p \in Pod : Live(p)}

(* The election implements the abstract turn-taking. *)
ImplementsSingleAccessor == Abstract!Spec

=============================================================================
