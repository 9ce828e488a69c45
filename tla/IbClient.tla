------------------------------- MODULE IbClient -------------------------------
(***************************************************************************)
(* One IB client of a process: BaseIbClient with its IBConnector           *)
(* (src/src/bifrost_socket/ib/connector/ib_client.py, ib_connector.py).    *)
(* The client owns at most one connector, which owns one ib_insync session.*)
(* Coroutines run interleaved on the client's event loop; they give way at *)
(* the lock, while a connection is made and while a request is under way.  *)
(* ensure_connected and disconnect take the lock; a request does not, and  *)
(* its connector reconnects by itself when it finds its session down.  (The*)
(* Account Agent's requests run on the loop of the service, not of the     *)
(* client: they give way at the same points.)                              *)
(*                                                                         *)
(*   owner      the service the client belongs to: the Operator makes one  *)
(*              call at a time; the Account Agent has a session and a probe*)
(*              loop side by side                                          *)
(*   connector  the client's `_connector`; NoConnector is None             *)
(*   open       the connectors whose session is up (`is_connected`)        *)
(*   reported   `_connected_state`, which the health is made from          *)
(*   lock       the task that holds `_lock`, or Nobody                     *)
(*   pc[t]      where task t is (see States)                               *)
(*   job[t]     what t was called for                                      *)
(*   mine[t]    the connector t connects or makes its request on           *)
(*   cancelled  the tasks whose caller's wait_for has timed out: cancelled,*)
(*              not yet unwound, while the caller goes on                  *)
(***************************************************************************)

EXTENDS Integers, FiniteSets

CONSTANTS
    Task,            \* the coroutines that may be alive at a time
    Nobody,          \* no task
    Owners,          \* the services looked at
    MaxConnectors,   \* bound on the connectors somebody refers to
    MaxOpen          \* bound on the sessions a self-made reconnect adds to

ASSUME ConstantsAssumption ==
    /\ Nobody \notin Task
    /\ Owners \subseteq {"operator", "agent"}
    /\ MaxConnectors \in Nat
    /\ MaxOpen \in Nat
    /\ MaxOpen + Cardinality(Task) < MaxConnectors

VARIABLES owner, connector, open, reported, lock, pc, job, mine, cancelled

client == <<connector, open, reported>>
tasks == <<pc, job, mine, cancelled>>
vars == <<owner, client, lock, tasks>>

Connector == 1..MaxConnectors
NoConnector == 0

(* wait: for the lock, to connect; connect: in connector.connect, with the *)
(* lock; use: a request is under way; own: connector.connect from inside a *)
(* request, without the lock; closing: disconnect waits for the lock.      *)
States == {"idle", "wait", "connect", "use", "own", "closing"}

Jobs == {"none", "heartbeat", "request", "disconnect"}

-----------------------------------------------------------------------------
(* Helpers *)

(* `connected` *)
Connected == connector \in open

(* The connectors that nobody refers to and whose session is down: there is*)
(* always one (see ConstantsAssumption).                                   *)
Unused == {k \in Connector \ open : k # connector /\ \A t \in Task : mine[t] # k}

(* A new IBConnector. *)
Fresh == CHOOSE k \in Unused : TRUE

Release == lock' = Nobody

(* A slip of _disconnect_impl: it does not take the lock. *)
LockIgnored == TRUE

LockFree == lock = Nobody

(* A slip of _ensure_connected_impl: no handler for disconnectedEvent. *)
EventUnhandled == UNCHANGED reported

(* _on_ib_disconnected_event, which every connector that was connected by  *)
(* _ensure_connected_impl calls, the client's present one or not.          *)
OnDisconnected == reported' = FALSE

Finish(t) ==
    /\ pc' = [pc EXCEPT ![t] = "idle"]
    /\ job' = [job EXCEPT ![t] = "none"]
    /\ mine' = [mine EXCEPT ![t] = NoConnector]
    /\ cancelled' = cancelled \ {t}

(* ensure_connected has returned: a request goes on to use the connector.  *)
(* A heartbeat is done.                                                    *)
Proceed(t) ==
    \/ /\ job[t] = "request"
       /\ pc' = [pc EXCEPT ![t] = "use"]
       /\ mine' = [mine EXCEPT ![t] = connector]
       /\ UNCHANGED <<job, cancelled>>
    \/ /\ job[t] = "heartbeat"
       /\ Finish(t)

-----------------------------------------------------------------------------

Init ==
    /\ owner \in Owners
    /\ connector = NoConnector
    /\ open = {}
    /\ reported = FALSE
    /\ lock = Nobody
    /\ pc = [t \in Task |-> "idle"]
    /\ job = [t \in Task |-> "none"]
    /\ mine = [t \in Task |-> NoConnector]
    /\ cancelled = {}

(* A caller waits for its calls, cancelled ones excepted.  A session ends  *)
(* its probe loop before it disconnects.                                   *)
Excludes(j) == IF owner = "operator" \/ j = "disconnect" THEN Jobs ELSE {j, "disconnect"}

Call(t, j) ==
    /\ pc[t] = "idle"
    /\ \A u \in Task :
          pc[u] # "idle" /\ job[u] \in Excludes(j) => u \in cancelled
    /\ job' = [job EXCEPT ![t] = j]

(* A request: it uses the connection, or makes one first. *)
CallRequest(t) ==
    /\ Call(t, "request")
    /\ IF Connected
       THEN /\ pc' = [pc EXCEPT ![t] = "use"]
            /\ mine' = [mine EXCEPT ![t] = connector]
       ELSE /\ pc' = [pc EXCEPT ![t] = "wait"]
            /\ UNCHANGED mine
    /\ UNCHANGED <<owner, client, lock, cancelled>>

(* ensure_connected(1) of a service heartbeat, for a slot that is reported *)
(* down.  When the API is up it returns at once and changes nothing.       *)
CallHeartbeat(t) ==
    /\ Call(t, "heartbeat")
    /\ ~reported
    /\ ~Connected
    /\ pc' = [pc EXCEPT ![t] = "wait"]
    /\ UNCHANGED <<owner, client, lock, mine, cancelled>>

CallDisconnect(t) ==
    /\ Call(t, "disconnect")
    /\ pc' = [pc EXCEPT ![t] = "closing"]
    /\ UNCHANGED <<owner, client, lock, mine, cancelled>>

(* With the lock, somebody else has connected in the meantime. *)
LockFindsConnected(t) ==
    /\ pc[t] = "wait"
    /\ t \notin cancelled
    /\ LockFree
    /\ Connected
    /\ Proceed(t)
    /\ UNCHANGED <<owner, client, lock>>

(* With the lock: the stale connector is dropped (its disconnect returns   *)
(* at once, it is not connected) and a new one starts to connect.          *)
LockAndConnect(t) ==
    /\ pc[t] = "wait"
    /\ t \notin cancelled
    /\ LockFree
    /\ ~Connected
    /\ Unused # {}
    /\ lock' = t
    /\ connector' = Fresh
    /\ mine' = [mine EXCEPT ![t] = Fresh]
    /\ reported' = FALSE
    /\ pc' = [pc EXCEPT ![t] = "connect"]
    /\ UNCHANGED <<owner, open, job, cancelled>>

ConnectOk(t) ==
    /\ pc[t] = "connect"
    /\ open' = open \cup {mine[t]}
    /\ reported' = TRUE
    /\ lock' = Nobody
    /\ Proceed(t)
    /\ UNCHANGED <<owner, connector>>

(* A slip: another attempt instead of the error, still with the lock. *)
ConnectRetries(t) ==
    /\ pc[t] = "connect"
    /\ connector' = Fresh
    /\ mine' = [mine EXCEPT ![t] = Fresh]
    /\ UNCHANGED <<owner, open, reported, lock, pc, job, cancelled>>

(* Every port and client id was refused: RuntimeError. *)
ConnectFails(t) ==
    /\ pc[t] = "connect"
    /\ connector' = NoConnector
    /\ reported' = FALSE
    /\ lock' = Nobody
    /\ Finish(t)
    /\ UNCHANGED <<owner, open>>

(* wait_for(reconnect(), connect_timeout_sec) times out in the caller. *)
Cancel(t) ==
    /\ job[t] = "heartbeat"
    /\ t \notin cancelled
    /\ cancelled' = cancelled \cup {t}
    /\ UNCHANGED <<owner, client, lock, pc, job, mine>>

(* CancelledError arrives: it releases the lock, and leaves the connector. *)
Unwind(t) ==
    /\ t \in cancelled
    /\ \/ /\ pc[t] = "wait"
          /\ UNCHANGED lock
       \/ /\ pc[t] = "connect"
          /\ Release
    /\ Finish(t)
    /\ UNCHANGED <<owner, client>>

(* The request's answer is in, or its error is swallowed by the caller. *)
RequestReturns(t) ==
    /\ pc[t] = "use"
    /\ Finish(t)
    /\ UNCHANGED <<owner, client, lock>>

(* The next call of the request: `if not self.is_connected: connect()`. *)
RequestReconnects(t) ==
    /\ pc[t] = "use"
    /\ mine[t] \notin open
    /\ pc' = [pc EXCEPT ![t] = "own"]
    /\ UNCHANGED <<owner, client, lock, job, mine, cancelled>>

OwnConnectOk(t) ==
    /\ pc[t] = "own"
    /\ Cardinality(open) < MaxOpen
    /\ open' = open \cup {mine[t]}
    /\ pc' = [pc EXCEPT ![t] = "use"]
    /\ UNCHANGED <<owner, connector, reported, lock, job, mine, cancelled>>

OwnConnectFails(t) ==
    /\ pc[t] = "own"
    /\ Finish(t)
    /\ UNCHANGED <<owner, client, lock>>

(* A historical data request fails with a drop: _mark_connection_dropped;  *)
(* fetch_bars_range then disconnects the client, fetch_bars does not.      *)
(* Only the Operator asks for them.                                        *)
RequestFindsDrop(t) ==
    /\ owner = "operator"
    /\ pc[t] = "use"
    /\ open' = open \ {mine[t]}
    /\ IF mine[t] \in open THEN OnDisconnected ELSE UNCHANGED reported
    /\ \/ Finish(t)
       \/ /\ pc' = [pc EXCEPT ![t] = "closing"]
          /\ job' = [job EXCEPT ![t] = "disconnect"]
          /\ mine' = [mine EXCEPT ![t] = NoConnector]
          /\ UNCHANGED cancelled
    /\ UNCHANGED <<owner, connector, lock>>

(* _disconnect_impl, with the lock. *)
Close(t) ==
    /\ pc[t] = "closing"
    /\ LockFree
    /\ open' = open \ {connector}
    /\ connector' = NoConnector
    /\ reported' = FALSE
    /\ Finish(t)
    /\ UNCHANGED <<owner, lock>>

(* TWS restarts, or the socket drops: disconnectedEvent. *)
Drop(k) ==
    /\ k \in open
    /\ open' = open \ {k}
    /\ OnDisconnected
    /\ UNCHANGED <<owner, connector, lock, tasks>>

TakesLock(t) == LockFindsConnected(t) \/ LockAndConnect(t) \/ Close(t)

Proceeds(t) ==
    \/ ConnectOk(t)
    \/ ConnectFails(t)
    \/ Unwind(t)
    \/ RequestReturns(t)
    \/ RequestReconnects(t)
    \/ OwnConnectOk(t)
    \/ OwnConnectFails(t)
    \/ RequestFindsDrop(t)

Calls(t) ==
    \/ CallRequest(t)
    \/ CallHeartbeat(t)
    \/ CallDisconnect(t)
    \/ Cancel(t)

Next ==
    \/ \E t \in Task : Calls(t) \/ TakesLock(t) \/ Proceeds(t)
    \/ \E k \in Connector : Drop(k)

(* Every attempt and request returns, a heartbeat finds the time, and the  *)
(* lock is fair (asyncio.Lock wakes waiters in order).                     *)
Fairness ==
    \A t \in Task :
        /\ WF_vars(Proceeds(t))
        /\ SF_vars(TakesLock(t))
        /\ WF_vars(CallHeartbeat(t))

Spec == Init /\ [][Next]_vars
FairSpec == Spec /\ Fairness

-----------------------------------------------------------------------------
(* Properties *)

(* Every variable has its type; the lock is held by a task that connects.  *)
TypeOK ==
    /\ owner \in Owners
    /\ connector \in Connector \cup {NoConnector}
    /\ open \subseteq Connector
    /\ reported \in BOOLEAN
    /\ pc \in [Task -> States]
    /\ lock \in {t \in Task : pc[t] = "connect"} \cup {Nobody}
    /\ job \in [Task -> Jobs]
    /\ mine \in [Task -> Connector \cup {NoConnector}]
    /\ cancelled \subseteq {t \in Task : job[t] = "heartbeat"}

(* In the Operator, whose timed-out reconnects may still be unwinding when *)
(* it makes its next call, every open session is the one of the client's   *)
(* connector, which disconnect will close: no second session of its own    *)
(* holds a client id when it connects.                                     *)
SerialCallerHasNoOrphan ==
    owner = "operator" => open \subseteq {connector}

(* In every service, whoever runs beside whom: the client does not let go  *)
(* of a connector whose session is up, and a session is opened by the      *)
(* client's own connector, under the lock, or by a connector that          *)
(* reconnects inside of a request.  The latter is the only way to a        *)
(* session beside the client's: in the Account Agent, whose requests keep  *)
(* a connector while the probe loop replaces it, the "at most one live IB  *)
(* eConnect per Lease" of lease.py:432-433 fails that way.                 *)
OnlyRequestsMakeOrphans ==
    [][ /\ connector' # connector => connector \notin open'
        /\ \A k \in open' \ open :
              k = connector' \/ \E t \in Task : pc[t] = "own" /\ mine[t] = k ]_vars

(* In the Operator, when disconnect returns nothing is connected, and      *)
(* nothing that was cancelled before it connects afterwards.               *)
DisconnectIsFinal ==
    [][ owner = "operator" =>
            /\ \A t \in Task : pc[t] = "closing" /\ pc'[t] = "idle" => open' = {}
            /\ connector = NoConnector => open' \subseteq open ]_vars

(* What is reported as connected is connected: a drop, a failed attempt, a *)
(* cancelled one and a disconnect all clear it.                            *)
ReportedIsUp ==
    reported => Connected

(* No task waits for the lock for ever, whatever is cancelled.             *)
LockIsGranted ==
    \A t \in Task : pc[t] \in {"wait", "closing"} ~> pc[t] \notin {"wait", "closing"}

=============================================================================
