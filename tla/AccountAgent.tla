---------------------------- MODULE AccountAgent ----------------------------
(***************************************************************************)
(* The IB Account Agent: IbAccountAgent.run with its sessions and the probe*)
(* loop beside them (src/src/bifrost_socket/ib/account_agent/              *)
(* ib_account_agent.py), its snapshots (redis_writer.py) and the parallel  *)
(* heartbeat reconnect (connection_lifecycle.py).  Session and probe are   *)
(* tasks of one event loop; drops and fills arrive on the threads of the   *)
(* clients, between any two steps.  How a client connects is IbClient's.   *)
(*                                                                         *)
(*   conn[s]       the API of slot s's client is up                        *)
(*   blind         the slots that are up although their clients'           *)
(*                 `_connected_state` is False                             *)
(*   handlers[s]   how often the session's handlers are registered with    *)
(*                 the present connection of s                             *)
(*   held[s]       the connector of s the session is about to subscribe,   *)
(*                 or awaits the open orders of, is connected ("up"), or   *)
(*                 it has lost its connection ("down"); or there is none   *)
(*   main          where the service's task is (see MainStates)            *)
(*   streak        host_fail_streak                                        *)
(*   probe         where the probe task is (see ProbeStates)               *)
(*   targets       the slots of a heartbeat's attempt                      *)
(*   due           the service heartbeat is due                            *)
(*   disconnected  _session_disconnected                                   *)
(*   lost          a connection was lost since the loop's last check       *)
(*   leaving, cancelled, stop   a CancelledError is leaving the session,   *)
(*                 the service's task was cancelled, _stop                 *)
(*   fills         the fills handed to on_sec_fill so far                  *)
(*   buffer[f]     how often _fill_rows has fill f                         *)
(*   taken[f]      how often the session is about to write fill f          *)
(*   written[f]    how often fill f was added to the Redis stream          *)
(*   changes, failures, failed   how many changes of the world and faults  *)
(*                 there were, and the kinds of the faults                 *)
(***************************************************************************)

EXTENDS Integers, FiniteSets

CONSTANTS
    Slot,          \* the configured slots: "Host", and maybe "Secondary"
    FailLimit,     \* HOST_FAIL_ITERATIONS_BEFORE_SESSION_RESET
    Fill,          \* the Secondary's fills
    Faults,        \* which calls may fail (see FaultKinds)
    MaxChanges,    \* bound on drops, stops and cancellations
    MaxFailures    \* bound on faults

(* Publishing a status message, a request to IB, XADD of a snapshot.       *)
FaultKinds == {"publish", "request", "stream"}

ASSUME ConstantsAssumption ==
    /\ "Host" \in Slot /\ Slot \subseteq {"Host", "Secondary"}
    /\ FailLimit \in Nat \ {0}
    /\ Fill = {} \/ "Secondary" \in Slot
    /\ Faults \subseteq FaultKinds
    /\ MaxChanges \in Nat
    /\ MaxFailures \in Nat

VARIABLES conn, blind, handlers, held, main, streak, probe, targets, due,
          disconnected, lost, leaving, cancelled, stop, fills, buffer, taken,
          written, changes, failures, failed

links == <<conn, blind, handlers, held>>
probing == <<probe, targets, due>>
ending == <<leaving, cancelled, stop>>
linked == <<links, lost>>
executions == <<fills, buffer, taken, written>>
bounds == <<changes, failures, failed>>
vars == <<linked, main, streak, probing, disconnected, ending, executions, bounds>>

(* start: the session begins; connect: both clients connect; begin: the    *)
(* connectors are looked up; hostorders, secorders: subscribed, awaiting   *)
(* the open orders; check: the while condition; accounts: in               *)
(* _accounts_snapshot; copy, clear, write: the fills on their way; wait;   *)
(* closing, joining, hangup: the finally block, waiting for the probe task *)
(* and disconnecting; ended: back in run; delay; final; stopped.           *)
MainStates == {"start", "connect", "begin", "hostorders", "secorders", "check",
               "accounts", "copy", "clear", "write", "wait", "closing",
               "joining", "hangup", "ended", "delay", "final", "stopped"}

(* The session's try block, apart from the step that clears the buffer.    *)
Serving == {"hostorders", "secorders", "check", "accounts", "copy", "write", "wait"}

(* off: no task, or one that has ended; dead: ended by an exception.       *)
ProbeStates == {"off", "wait", "reconnect", "dead"}

Second == Slot \ {"Host"}

(* The session holds no connector. *)
NoneHeld == [s \in Slot |-> "none"]

(* An empty list of fills. *)
NoFills == [f \in Fill |-> 0]

-----------------------------------------------------------------------------
(* Helpers *)

Fault(kind) ==
    /\ kind \in Faults
    /\ failures < MaxFailures
    /\ failures' = failures + 1
    /\ failed' = failed \cup {kind}
    /\ UNCHANGED changes

Change ==
    /\ changes < MaxChanges
    /\ changes' = changes + 1
    /\ UNCHANGED <<failures, failed>>

(* A call succeeds and main goes on to s, or it fails and goes to t. *)
Either(kind, s, t) ==
    \/ main' = s /\ UNCHANGED bounds
    \/ main' = t /\ Fault(kind)

(* Handlers are added to those of the same connection; 2 stands for more.  *)
Subscribed(s) ==
    [handlers EXCEPT ![s] = IF @ = 2 THEN 2 ELSE @ + 1]

(* ensure_connected for the slots of S: one that is up stays as it is, for *)
(* any other there is a new connector, connected or not and without        *)
(* handlers.                                                               *)
Connects(S) ==
    /\ conn' \in [Slot -> BOOLEAN]
    /\ \A s \in Slot : conn[s] \/ s \notin S => conn'[s] = conn[s]
    /\ held' = [s \in Slot |-> IF conn[s] \/ s \notin S THEN held[s] ELSE "none"]
    /\ UNCHANGED <<blind, handlers, lost>>

(* `_connected_state` *)
Reported(s) == conn[s] /\ s \notin blind

-----------------------------------------------------------------------------

Init ==
    /\ conn = [s \in Slot |-> FALSE]
    /\ blind = {}
    /\ handlers = [s \in Slot |-> 0]
    /\ held = NoneHeld
    /\ main = "start"
    /\ streak = 0
    /\ probe = "off"
    /\ targets = {}
    /\ due = FALSE
    /\ disconnected = FALSE
    /\ lost = FALSE
    /\ leaving = FALSE
    /\ cancelled = FALSE
    /\ stop = FALSE
    /\ fills = {}
    /\ buffer = NoFills
    /\ taken = NoFills
    /\ written = NoFills
    /\ changes = 0
    /\ failures = 0
    /\ failed = {}

StartSession ==
    /\ main = "start"
    /\ main' = "connect"
    /\ disconnected' = FALSE
    /\ buffer' = NoFills
    /\ UNCHANGED <<linked, streak, probing, ending, fills, taken, written, bounds>>

(* Both slots at once.  Only the Host's failure ends the session, and      *)
(* before its try: a Secondary that is up stays so.                        *)
ConnectReturns ==
    /\ main = "connect"
    /\ Connects(Slot)
    /\ main' = IF conn'["Host"] THEN "begin" ELSE "ended"
    /\ UNCHANGED <<streak, probing, disconnected, ending, executions, bounds>>

(* The connectors are put into local variables, the health is published,   *)
(* the probe task is created and the Host subscribed.                      *)
Begin ==
    /\ main = "begin"
    /\ Either("publish", "hostorders", "ended")
    /\ IF main' = "hostorders"
       THEN /\ handlers' = IF conn["Host"] THEN Subscribed("Host") ELSE handlers
            /\ held' = [s \in Slot |-> IF conn[s] THEN "up" ELSE "none"]
            /\ probe' = "wait"
       ELSE UNCHANGED <<handlers, held, probe>>
    /\ UNCHANGED <<conn, blind, lost, streak, targets, due, disconnected, ending,
                   executions>>

(* The Host's open orders are there, or their request failed; then the     *)
(* Secondary is subscribed, on the connector looked up before.  If that has*)
(* lost its connection by now it gets no handlers.                         *)
SubscribeSecondary ==
    /\ main = "hostorders"
    /\ main' = "secorders"
    /\ handlers' = IF \E s \in Second : held[s] = "up"
                   THEN Subscribed("Secondary") ELSE handlers
    /\ held' = [held EXCEPT !["Host"] = "none"]
    /\ UNCHANGED <<conn, blind, lost, streak, probing, disconnected, ending, executions,
                   bounds>>

EnterLoop ==
    /\ main = "secorders"
    /\ main' = "check"
    /\ streak' = 0
    /\ held' = NoneHeld
    /\ UNCHANGED <<conn, blind, handlers, lost, probing, disconnected, ending, executions,
                   bounds>>

(* Requests on a connector that has lost its connection connect it: those  *)
(* for the open orders, and get_positions if the connection is lost right  *)
(* before it.  The client is not told, its `_connected_state` stays False, *)
(* and the new connection has no handlers.                                 *)
Requested(s) ==
    \/ main = "hostorders" /\ s = "Host" /\ held[s] = "down"
    \/ main = "secorders" /\ s \in Second /\ held[s] = "down"
    \/ main = "accounts" /\ lost

RequestReconnects(s) ==
    /\ Requested(s)
    /\ ~conn[s]
    /\ conn' = [conn EXCEPT ![s] = TRUE]
    /\ blind' = blind \cup {s}
    /\ held' = [held EXCEPT ![s] = "none"]
    /\ UNCHANGED <<handlers, lost, main, streak, probing, disconnected, ending,
                   executions, bounds>>

(* So many iterations without the Host end the session. *)
Exhausted(n) == n >= FailLimit

(* The while condition, the disconnect event and the Host's snapshot.      *)
Iterate ==
    /\ main = "check"
    /\ LET next == IF conn["Host"] THEN 0 ELSE streak + 1
           over == stop \/ disconnected
       IN  /\ streak' = IF over THEN streak ELSE next
           /\ main' = IF over \/ Exhausted(next) THEN "closing" ELSE "accounts"
    /\ lost' = FALSE
    /\ UNCHANGED <<links, probing, disconnected, ending, executions, bounds>>

(* The accounts' requests return or fail, because a connection was lost or *)
(* otherwise; a ConnectionError ends the session, any other only this      *)
(* snapshot.  A slot that was down all along is not asked.                 *)
AccountsReturn ==
    /\ main = "accounts"
    /\ main' = "copy"
    /\ UNCHANGED <<linked, streak, probing, disconnected, ending, executions, bounds>>

AccountsFail ==
    /\ main = "accounts"
    /\ main' \in {"wait", "closing"}
    /\ \/ lost /\ UNCHANGED bounds
       \/ Fault("request")
    /\ UNCHANGED <<linked, streak, probing, disconnected, ending, executions>>

(* A slip of the snapshot: the rows are cleared before they are copied. *)
ClearedFirst ==
    /\ main = "copy"
    /\ main' = "clear"
    /\ buffer' = NoFills
    /\ taken' = buffer'
    /\ UNCHANGED <<linked, streak, probing, disconnected, ending, fills, written, bounds>>

(* fills = list(self._fill_rows) *)
CopyFills ==
    /\ main = "copy"
    /\ main' = "clear"
    /\ taken' = buffer
    /\ UNCHANGED <<linked, streak, probing, disconnected, ending, fills, buffer,
                   written, bounds>>

(* A slip of the snapshot: the rows are left in the buffer. *)
RowsKept == UNCHANGED buffer

(* self._fill_rows.clear() *)
RowsCleared == buffer' = NoFills

ClearFills ==
    /\ main = "clear"
    /\ main' = "write"
    /\ RowsCleared
    /\ UNCHANGED <<linked, streak, probing, disconnected, ending, fills, taken,
                   written, bounds>>

(* write_snapshot, which swallows what Redis raises, and the health, whose *)
(* error is caught as well.                                                *)
WriteSnapshot ==
    /\ main = "write"
    /\ main' = "wait"
    /\ taken' = NoFills
    /\ \/ /\ written' = [f \in Fill |-> written[f] + taken[f]]
          /\ UNCHANGED bounds
       \/ /\ Fault("stream")
          /\ UNCHANGED written
    /\ UNCHANGED <<linked, streak, probing, disconnected, ending, fills, buffer>>

WaitReturns ==
    /\ main = "wait"
    /\ main' = "check"
    /\ UNCHANGED <<linked, streak, probing, disconnected, ending, executions, bounds>>

(* finally: an exception the probe task has ended with is raised here, and *)
(* the clients are not disconnected.                                       *)
CancelProbe ==
    /\ main = "closing"
    /\ probe' = "off"
    /\ \/ probe \in {"wait", "reconnect"} /\ main' = "joining" /\ UNCHANGED leaving
       \/ probe = "off" /\ main' = "hangup" /\ UNCHANGED leaving
       \/ probe = "dead" /\ main' = "ended" /\ leaving' = FALSE
    /\ UNCHANGED <<linked, streak, targets, due, disconnected, cancelled, stop,
                   executions, bounds>>

Join ==
    /\ main = "joining"
    /\ main' = "hangup"
    /\ UNCHANGED <<linked, streak, probing, disconnected, ending, executions, bounds>>

(* A slip of the finally block: the Secondary is left connected. *)
HostOnly == {"Host"}

(* The clients the finally block disconnects. *)
Clients == Slot

HangUp ==
    /\ main = "hangup"
    /\ main' = "ended"
    /\ conn' = [s \in Slot |-> conn[s] /\ s \notin Clients]
    /\ blind' = blind \ Clients
    /\ handlers' = [s \in Slot |-> IF s \in Clients THEN 0 ELSE handlers[s]]
    /\ held' = NoneHeld
    /\ UNCHANGED <<lost, streak, probing, disconnected, ending, executions, bounds>>

(* run: a CancelledError and a stop end its loop; else the health is       *)
(* published, whose error ends the process, and the next session waits.    *)
Ended ==
    /\ main = "ended"
    /\ IF leaving \/ stop
       THEN main' = "final" /\ UNCHANGED bounds
       ELSE Either("publish", "delay", "stopped")
    /\ UNCHANGED <<linked, streak, probing, disconnected, ending, executions>>

Delay ==
    /\ main = "delay"
    /\ main' = IF stop THEN "final" ELSE "start"
    /\ UNCHANGED <<linked, streak, probing, disconnected, ending, executions, bounds>>

(* The service-stopped messages and the last health, or their error. *)
Final ==
    /\ main = "final"
    /\ main' = "stopped"
    /\ UNCHANGED <<linked, streak, probing, disconnected, ending, executions, bounds>>

(* The process is gone, and restarted. *)
Restart ==
    /\ main = "stopped"
    /\ main' = "start"
    /\ conn' = [s \in Slot |-> FALSE]
    /\ blind' = {}
    /\ handlers' = [s \in Slot |-> 0]
    /\ held' = NoneHeld
    /\ streak' = 0
    /\ probe' = "off"
    /\ targets' = {}
    /\ due' = FALSE
    /\ disconnected' = FALSE
    /\ lost' = FALSE
    /\ leaving' = FALSE
    /\ cancelled' = FALSE
    /\ stop' = FALSE
    /\ buffer' = NoFills
    /\ taken' = NoFills
    /\ UNCHANGED <<fills, written, bounds>>

-----------------------------------------------------------------------------
(* _probe_loop *)

(* A slip of the probe: it does not tell the session. *)
Unnoticed == disconnected

(* A Host that is not reported as connected ends the session. *)
Noticed == disconnected \/ ~Reported("Host")

(* A slip of the heartbeat: it only looks after the Host. *)
DownHost == {s \in {"Host"} : ~Reported(s)}

(* The slots a heartbeat wants to reconnect: for one that is blind its     *)
(* ensure_connected returns at once.                                       *)
Down == {s \in Slot : ~Reported(s)}

(* The probe interval has passed.  When the heartbeat is due and a slot is *)
(* down, the hint is published, whose error nobody catches, and an attempt *)
(* of each such slot follows.                                              *)
ProbeTick ==
    /\ probe = "wait"
    /\ ~stop
    /\ disconnected' = Noticed
    /\ due' = FALSE
    /\ \/ /\ due /\ Down # {}
          /\ probe' = "reconnect"
          /\ targets' = Down
          /\ UNCHANGED bounds
       \/ /\ due /\ Down # {}
          /\ Fault("publish")
          /\ probe' = "dead"
          /\ UNCHANGED targets
       \/ /\ ~due \/ Down = {}
          /\ UNCHANGED <<probe, targets, bounds>>
    /\ UNCHANGED <<linked, main, streak, ending, executions>>

ProbeStops ==
    /\ probe = "wait"
    /\ stop
    /\ probe' = "off"
    /\ UNCHANGED <<linked, main, streak, targets, due, disconnected, ending,
                   executions, bounds>>

(* heartbeat_reconnect_slots_parallel: each connects, fails or times out.  *)
ReconnectReturns ==
    /\ probe = "reconnect"
    /\ Connects(targets)
    /\ probe' = "wait"
    /\ targets' = {}
    /\ UNCHANGED <<main, streak, due, disconnected, ending, executions, bounds>>

-----------------------------------------------------------------------------
(* The outside *)

Drop(s) ==
    /\ conn[s]
    /\ Change
    /\ conn' = [conn EXCEPT ![s] = FALSE]
    /\ blind' = blind \ {s}
    /\ handlers' = [handlers EXCEPT ![s] = 0]
    /\ held' = [held EXCEPT ![s] = IF @ = "up" THEN "down" ELSE @]
    /\ lost' = TRUE
    /\ UNCHANGED <<main, streak, probing, disconnected, ending, executions>>

(* A fill is reported on the Secondary's connection: on_sec_fill, once for *)
(* each handler.  A fill without a handler is not reported again.          *)
FillArrives(f) ==
    /\ f \notin fills
    /\ \E s \in Second :
           /\ handlers[s] > 0
           /\ buffer' = [buffer EXCEPT ![f] = handlers[s]]
    /\ fills' = fills \cup {f}
    /\ UNCHANGED <<linked, main, streak, probing, disconnected, ending, taken,
                   written, bounds>>

StopSignal ==
    /\ ~stop
    /\ main # "stopped"
    /\ Change
    /\ stop' = TRUE
    /\ UNCHANGED <<linked, main, streak, probing, disconnected, leaving, cancelled,
                   executions>>

(* run_with_leadership cancels the service's task.  Before the session's   *)
(* try its finally block is passed by; while it waits for the probe task   *)
(* the CancelledError is swallowed.                                        *)
Cancel ==
    /\ ~cancelled
    /\ Change
    /\ cancelled' = TRUE
    /\ \/ /\ main \in {"connect", "hostorders", "secorders", "hangup"}
          /\ main' = "ended"
          /\ leaving' = TRUE
       \/ /\ main \in {"accounts", "wait"}
          /\ main' = "closing"
          /\ leaving' = TRUE
       \/ /\ main = "joining"
          /\ UNCHANGED <<main, leaving>>
       \/ /\ main = "delay"
          /\ main' = "stopped"
          /\ UNCHANGED leaving
    /\ UNCHANGED <<linked, streak, probing, disconnected, stop, executions>>

HeartbeatDue ==
    /\ ~due
    /\ due' = TRUE
    /\ UNCHANGED <<linked, main, streak, probe, targets, disconnected, ending,
                   executions, bounds>>

MainStep ==
    \/ StartSession
    \/ ConnectReturns
    \/ Begin
    \/ SubscribeSecondary
    \/ EnterLoop
    \/ \E s \in Slot : RequestReconnects(s)
    \/ Iterate
    \/ AccountsReturn
    \/ AccountsFail
    \/ CopyFills
    \/ ClearFills
    \/ WriteSnapshot
    \/ WaitReturns
    \/ CancelProbe
    \/ Join
    \/ HangUp
    \/ Ended
    \/ Delay
    \/ Final
    \/ Restart

ProbeStep ==
    \/ ProbeTick
    \/ ProbeStops
    \/ ReconnectReturns

Outside ==
    \/ \E s \in Slot : Drop(s)
    \/ \E f \in Fill : FillArrives(f)
    \/ StopSignal
    \/ Cancel
    \/ HeartbeatDue

Next == MainStep \/ ProbeStep \/ Outside

(* Both tasks are scheduled and time passes; somebody who tries again and  *)
(* again to connect a slot succeeds in the end.                            *)
Fairness ==
    /\ WF_vars(MainStep)
    /\ WF_vars(ProbeStep)
    /\ WF_vars(HeartbeatDue)
    /\ SF_vars(ConnectReturns /\ conn'["Host"])
    /\ \A s \in Second : SF_vars(ReconnectReturns /\ s \in targets /\ conn'[s])

Spec == Init /\ [][Next]_vars
FairSpec == Spec /\ Fairness

-----------------------------------------------------------------------------
(* Properties *)

(* Every variable has its type; handlers belong to a connection that is up.*)
TypeOK ==
    /\ conn \in [Slot -> BOOLEAN]
    /\ handlers \in [Slot -> 0..2]
    /\ \A s \in Slot : ~conn[s] => handlers[s] = 0 /\ s \notin blind
    /\ blind \subseteq Slot
    /\ held \in [Slot -> {"none", "up", "down"}]
    /\ \A s \in Slot : held[s] = "up" => conn[s]
    /\ main \in MainStates
    /\ streak \in 0..FailLimit
    /\ probe \in ProbeStates
    /\ targets \subseteq Slot
    /\ \A x \in {due, disconnected, lost, leaving, cancelled, stop} : x \in BOOLEAN
    /\ fills \subseteq Fill
    /\ {buffer, taken} \subseteq [Fill -> 0..2]
    /\ written \in [Fill -> Nat]
    /\ \A f \in Fill \ fills : buffer[f] + taken[f] + written[f] = 0
    /\ changes \in 0..MaxChanges
    /\ failures \in 0..MaxFailures
    /\ failed \subseteq Faults

(* No connection gets the handlers twice, over all sessions, drops and     *)
(* reconnects: each event is counted, and each fill recorded, once.  (A    *)
(* probe task killed by a failing status message keeps the finally block   *)
(* from disconnecting, and the next session subscribes again.)             *)
SubscribedOnce ==
    "publish" \notin failed => \A s \in Slot : handlers[s] <= 1

(* No fill is written to the stream twice, over all snapshots and sessions,*)
(* unless handlers were added twice (see SubscribedOnce).                  *)
WrittenOnce ==
    "publish" \notin failed => \A f \in Fill : written[f] <= 1

(* A fill the session has in its buffer is written while the session lasts,*)
(* unless a write of a snapshot fails, which loses what was taken out of   *)
(* the buffer for it.  Nothing is promised of a fill that arrives between  *)
(* the copy of the buffer and its clearing ("clear"), nor of one that is   *)
(* left when the session ends: the next session clears the buffer.         *)
FillIsWritten ==
    \A f \in Fill :
        buffer[f] > 0 /\ main \in Serving
            ~> \/ written[f] > 0
               \/ main \in {"closing", "ended"}
               \/ "stream" \in failed

(* Again and again the Host is connected with the session's handlers: a    *)
(* heartbeat, or a request, that reconnects it leaves the handlers behind, *)
(* so the session has to begin anew.  It never does when a request has     *)
(* reconnected the Host and the probe task, which alone looks at           *)
(* `_connected_state`, was killed by a failing status message.             *)
HostIsServed ==
    []<>(handlers["Host"] > 0 \/ ("Host" \in blind /\ probe = "dead"))

(* Again and again a configured Secondary is connected and known to be,    *)
(* unless a status message failed: no session has to begin anew for it.    *)
(* The exception is a Secondary that a request has connected: it is up, but*)
(* without handlers and reported as down, and no heartbeat changes that.   *)
SecondaryRecovers ==
    \A s \in Second : []<>(Reported(s) \/ s \in blind \/ "publish" \in failed)

(* That ends with the session, and no later: whatever stops, cancels or    *)
(* fails it, the next session begins with clients that know what they are. *)
(* (The exception is the one of SubscribedOnce.)                           *)
SessionsBeginSighted ==
    main \in {"start", "connect", "begin"} /\ "publish" \notin failed => blind = {}

=============================================================================
