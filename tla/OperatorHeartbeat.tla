-------------------------- MODULE OperatorHeartbeat --------------------------
(***************************************************************************)
(* The IB Operator's two threads and the health they publish               *)
(* (src/src/bifrost_socket/ib/operator/service.py).  The main thread       *)
(* serves commands and, when the service heartbeat is due, makes one       *)
(* reconnect attempt; the probe thread publishes the slots' state every    *)
(* probe interval, so that a long command does not make the health stale.  *)
(* Both write the health hash and the message center through the same      *)
(* `_tick`, without a common lock.  Commands themselves are in OperatorRpc;*)
(* the names the two modules share have the prefix HB here, so that one    *)
(* module of proofs extends both.                                          *)
(*                                                                         *)
(*   gateway[s]  whether slot s's TWS / IB Gateway accepts a connection    *)
(*   conn[s]     `_connected_state` of the slot's client                   *)
(*   blind       the slots whose API is up although `_connected_state` is  *)
(*               False: IbClient shows how a command leaves them so        *)
(*   due         the heartbeat interval has passed since the last tick     *)
(*   main        where the main thread is (see MainStates)                 *)
(*   job         the slot being reconnected                                *)
(*   hint        the reconnect-in-progress label both threads share        *)
(*   tick[w]     where writer w is in _tick; snap[w] what it has read      *)
(*   health      the published hash: conn, hint, alive                     *)
(*   told[s]     the connection status the tracker last saw                *)
(*   stop        the stop event both threads share                         *)
(*   raised      an exception is leaving the loop function                 *)
(*   lapses      what the shutdown only logs: a probe tick outlasted the   *)
(*               join, or the shutdown's health could not be written       *)
(*   disturbances  how many outages, drops, commands and failed calls      *)
(*               there were                                                *)
(***************************************************************************)

EXTENDS Integers

CONSTANTS
    HasSecondary,     \* whether ib2_host is configured
    ClearsHint,       \* external: an empty label is written over the old one
    MaxDisturbances   \* bound on outages, drops, commands and failed calls

ASSUME HBConstants ==
    /\ HasSecondary \in BOOLEAN
    /\ ClearsHint \in BOOLEAN
    /\ MaxDisturbances \in Nat

VARIABLES gateway, conn, blind, due, main, job, hint, tick, snap,
          health, told, stop, raised, lapses, disturbances

slots == <<gateway, conn, blind>>
heartbeat == <<due, job, hint>>
published == <<health, told>>
ending == <<stop, raised, lapses>>
hbVars == <<slots, heartbeat, main, tick, snap, published, ending, disturbances>>

Slot == IF HasSecondary THEN {"Host", "Secondary"} ELSE {"Host"}
NoSlot == "none"

(* connect: the health was written once, the first connection is next;     *)
(* loop: the while condition; reconnect: one attempt is under way; tell:   *)
(* write_health_now; serve: reading and executing commands; join,          *)
(* disconnect: the finally block; final: the shutdown's health; exiting:   *)
(* the loop function has returned or raised; exited.                       *)
MainStates == {"connect", "loop", "reconnect", "tell", "serve", "join",
               "disconnect", "final", "exiting", "exited"}

Writer == {"main", "probe"}

(* off: the probe thread does not run; wait: not in _tick; hint: the slots *)
(* have been read, the hint is next; write; publish.                       *)
TickStates == {"off", "wait", "hint", "write", "publish"}

Health == [conn : [Slot -> BOOLEAN], hint : Slot \cup {NoSlot}, alive : BOOLEAN]

AllDown == [s \in Slot |-> FALSE]
NoSnapshot == [conn |-> AllDown, hint |-> NoSlot, alive |-> FALSE]

-----------------------------------------------------------------------------

HBInit ==
    /\ gateway \in [Slot -> BOOLEAN]
    /\ conn = AllDown
    /\ blind = {}
    /\ due = FALSE
    /\ main = "connect"
    /\ job = NoSlot
    /\ hint = NoSlot
    /\ tick = [w \in Writer |-> IF w = "main" THEN "wait" ELSE "off"]
    /\ snap = [w \in Writer |-> NoSnapshot]
    /\ health = [conn |-> AllDown, hint |-> NoSlot, alive |-> TRUE]
    /\ told = AllDown
    /\ stop = FALSE
    /\ raised = FALSE
    /\ lapses = {}
    /\ disturbances = 0

(* Something goes wrong, or a command meddles. *)
Disturbed ==
    /\ disturbances < MaxDisturbances
    /\ disturbances' = disturbances + 1

(* A slip of `reconnect_hint.set("")`: the label is left as it is.         *)
LabelKept == hint

(* The label once the attempt is over. *)
ClearedLabel == NoSlot

(* A slip of health_dict: once reported connected, a slot stays so. *)
StickyReading ==
    [conn |-> [s \in Slot |-> conn[s] \/ told[s]], hint |-> NoSlot, alive |-> TRUE]

(* record_ib_probe and health_dict: every slot's `_connected_state`. *)
Reading == [conn |-> conn, hint |-> NoSlot, alive |-> TRUE]

(* Connecting succeeds only while the gateway accepts, and may fail even   *)
(* then (client id in use, timeout); a connected client is left alone.     *)
Connects(s, connected) == connected => conn[s] \/ gateway[s]

(* The first Host connection, whose failure is swallowed, the health write *)
(* after it, and the start of the probe thread.                            *)
InitialConnect ==
    /\ main = "connect"
    /\ \E ok \in BOOLEAN :
          /\ Connects("Host", ok)
          /\ conn' = [conn EXCEPT !["Host"] = ok]
    /\ health' = [conn |-> conn', hint |-> NoSlot, alive |-> TRUE]
    /\ told' = conn'
    /\ tick' = [tick EXCEPT !["probe"] = "wait"]
    /\ main' = "loop"
    /\ UNCHANGED <<gateway, blind, heartbeat, snap, ending, disturbances>>

(* The tracker's part of a health write raises: it may have seen some of   *)
(* the slots.                                                              *)
ToldInPart(reading) ==
    \E seen \in SUBSET Slot :
        told' = [s \in Slot |-> IF s \in seen THEN reading[s] ELSE told[s]]

(* One of the two health writes around the first connection raises: they   *)
(* come before the try, so there is neither a finally nor a last health.   *)
StartRaises ==
    /\ main = "connect"
    /\ Disturbed
    /\ \/ UNCHANGED <<conn, health, told>>
       \/ \E ok \in BOOLEAN :
             /\ Connects("Host", ok)
             /\ conn' = [conn EXCEPT !["Host"] = ok]
             /\ health' = [conn |-> conn', hint |-> NoSlot, alive |-> TRUE]
             /\ ToldInPart(conn')
    /\ main' = "exiting"
    /\ raised' = TRUE
    /\ UNCHANGED <<gateway, blind, heartbeat, tick, snap, stop, lapses>>

-----------------------------------------------------------------------------
(* _tick, in either thread: read the slots, read the hint, write, publish. *)

InTick(w) == tick[w] \in {"hint", "write", "publish"}

Enter(w) ==
    /\ tick' = [tick EXCEPT ![w] = "hint"]
    /\ snap' = [snap EXCEPT ![w] = Reading]
    /\ UNCHANGED <<slots, heartbeat, main, published, ending, disturbances>>

(* The probe interval has passed; the thread leaves its wait when stop is  *)
(* set.                                                                    *)
ProbeTick ==
    /\ tick["probe"] = "wait"
    /\ ~stop
    /\ Enter("probe")

ProbeStops ==
    /\ tick["probe"] = "wait"
    /\ stop
    /\ tick' = [tick EXCEPT !["probe"] = "off"]
    /\ UNCHANGED <<slots, heartbeat, main, snap, published, ending, disturbances>>

TellBegins ==
    /\ main = "tell"
    /\ tick["main"] = "wait"
    /\ Enter("main")

ReadHint(w) ==
    /\ tick[w] = "hint"
    /\ tick' = [tick EXCEPT ![w] = "write"]
    /\ snap' = [snap EXCEPT ![w].hint = hint]
    /\ UNCHANGED <<slots, heartbeat, main, published, ending, disturbances>>

WriteHealth(w) ==
    /\ tick[w] = "write"
    /\ tick' = [tick EXCEPT ![w] = "publish"]
    /\ health' = [snap[w] EXCEPT
                    !.hint = IF @ # NoSlot \/ ClearsHint THEN @ ELSE health.hint]
    /\ UNCHANGED <<slots, heartbeat, main, snap, told, ending, disturbances>>

(* IbOperatorHealthWriter.write swallows a failing Redis. *)
WriteHealthFails(w) ==
    /\ tick[w] = "write"
    /\ Disturbed
    /\ tick' = [tick EXCEPT ![w] = "publish"]
    /\ UNCHANGED <<slots, heartbeat, main, snap, published, ending>>

(* publish_operator_slots: the tracker sees the same reading.  It ends the *)
(* probe's tick, or the main thread's write_health_now.                    *)
Publish(w) ==
    /\ tick[w] = "publish"
    /\ tick' = [tick EXCEPT ![w] = "wait"]
    /\ snap' = [snap EXCEPT ![w] = NoSnapshot]
    /\ told' = snap[w].conn
    /\ main' = IF w = "main" THEN "serve" ELSE main
    /\ UNCHANGED <<slots, heartbeat, health, ending, disturbances>>

(* The tracker raises.  The probe thread goes on; the main thread leaves   *)
(* the loop, for nothing but finally is around its write_health_now.       *)
PublishRaises(w) ==
    /\ tick[w] = "publish"
    /\ Disturbed
    /\ tick' = [tick EXCEPT ![w] = "wait"]
    /\ snap' = [snap EXCEPT ![w] = NoSnapshot]
    /\ ToldInPart(snap[w].conn)
    /\ \/ /\ w = "probe"
          /\ UNCHANGED <<main, ending>>
       \/ /\ w = "main"
          /\ main' = "join"
          /\ stop' = TRUE
          /\ raised' = TRUE
          /\ UNCHANGED lapses
    /\ UNCHANGED <<slots, heartbeat, health>>

TickStep(w) == ReadHint(w) \/ WriteHealth(w) \/ Publish(w)

-----------------------------------------------------------------------------
(* The main loop *)

(* ServiceHeartbeatClock.tick: time passes until it will return True. *)
HeartbeatDue ==
    /\ ~due
    /\ main \notin {"connect", "exiting", "exited"}
    /\ due' = TRUE
    /\ UNCHANGED <<slots, main, job, hint, tick, snap,
                   published, ending, disturbances>>

LoopQuiet ==
    /\ main = "loop"
    /\ ~stop
    /\ ~due
    /\ main' = "serve"
    /\ UNCHANGED <<slots, heartbeat, tick, snap, published, ending, disturbances>>

(* A slip of the choice: the `elif` for Secondary is forgotten. *)
TargetHostOnly == IF ~conn["Host"] THEN "Host" ELSE NoSlot

(* The slot the heartbeat reconnects: Host first, Secondary only while     *)
(* Host is connected.                                                      *)
Target ==
    IF ~conn["Host"] THEN "Host"
    ELSE IF HasSecondary /\ ~conn["Secondary"] THEN "Secondary"
    ELSE NoSlot

LoopHeartbeat ==
    /\ main = "loop"
    /\ ~stop
    /\ due
    /\ due' = FALSE
    /\ job' = Target
    /\ hint' = Target
    /\ main' = IF Target = NoSlot THEN "serve" ELSE "reconnect"
    /\ UNCHANGED <<slots, tick, snap, published, ending, disturbances>>

(* One ensure_connected(1), whose failure and timeout stay local.  It is a *)
(* no-op when the API is up already, whatever `_connected_state` says.     *)
Reconnect(ok) ==
    /\ main = "reconnect"
    /\ Connects(job, ok)
    /\ conn' = [conn EXCEPT ![job] = ok /\ job \notin blind]
    /\ job' = NoSlot
    /\ hint' = ClearedLabel
    /\ main' = "tell"
    /\ UNCHANGED <<gateway, blind, due, tick, snap, published, ending, disturbances>>

(* Reading commands ends, with or without one executed. *)
ServeReturns ==
    /\ main = "serve"
    /\ main' = "loop"
    /\ UNCHANGED <<slots, heartbeat, tick, snap, published, ending, disturbances>>

(* A write_result that raises leaves the loop; finally sets stop, and the  *)
(* exception goes on when it is over.                                      *)
LoopRaises ==
    /\ main = "serve"
    /\ Disturbed
    /\ main' = "join"
    /\ stop' = TRUE
    /\ raised' = TRUE
    /\ UNCHANGED <<slots, heartbeat, tick, snap, published, lapses>>

LoopStops ==
    /\ main = "loop"
    /\ stop
    /\ main' = "join"
    /\ UNCHANGED <<slots, heartbeat, tick, snap, published, ending, disturbances>>

(* A slip of the shutdown: the probe thread is not joined. *)
NotJoined == TRUE

(* probe_thread.join returns because the thread is over, *)
JoinOver == tick["probe"] = "off"

Join ==
    /\ main = "join"
    /\ JoinOver
    /\ main' = "disconnect"
    /\ UNCHANGED <<slots, heartbeat, tick, snap, published, ending, disturbances>>

(* or because of its timeout, while a tick hangs on Redis: not looked at.  *)
JoinTimesOut ==
    /\ main = "join"
    /\ InTick("probe")
    /\ main' = "disconnect"
    /\ lapses' = lapses \cup {"join"}
    /\ UNCHANGED <<slots, heartbeat, tick, snap, published, stop, raised, disturbances>>

(* Then the exception that left the loop, if there is one, goes on. *)
Disconnected == main' = IF raised THEN "exiting" ELSE "final"

DisconnectAll ==
    /\ main = "disconnect"
    /\ conn' = AllDown
    /\ blind' = {}
    /\ Disconnected
    /\ UNCHANGED <<gateway, heartbeat, tick, snap, published, ending, disturbances>>

(* A client's disconnect raises, which is swallowed: its slot stays up. *)
DisconnectFails ==
    /\ main = "disconnect"
    /\ Disturbed
    /\ \E kept \in SUBSET Slot :
          /\ conn' = [s \in Slot |-> s \in kept /\ conn[s]]
          /\ blind' = blind \cap kept
    /\ Disconnected
    /\ UNCHANGED <<gateway, heartbeat, tick, snap, published, ending>>

(* The slots' disconnects are published, and write_shutdown marks them     *)
(* disconnected and the service dead, whatever health_dict says.           *)
FinalHealth ==
    /\ main = "final"
    /\ health' = [health EXCEPT !.conn = AllDown, !.alive = FALSE]
    /\ main' = "exiting"
    /\ UNCHANGED <<slots, heartbeat, tick, snap, told, ending, disturbances>>

(* Publishing raises, so that write_shutdown is not reached; or that fails *)
(* and only logs it.                                                       *)
FinalHealthFails ==
    /\ main = "final"
    /\ Disturbed
    /\ \/ raised' = TRUE /\ UNCHANGED lapses
       \/ lapses' = lapses \cup {"write"} /\ UNCHANGED raised
    /\ main' = "exiting"
    /\ UNCHANGED <<slots, heartbeat, tick, snap, published, stop>>

(* The interpreter exits and takes the daemon thread, and what is still    *)
(* connected, with it.                                                     *)
Exit ==
    /\ main = "exiting"
    /\ conn' = AllDown
    /\ blind' = {}
    /\ main' = "exited"
    /\ tick' = [tick EXCEPT !["probe"] = "off"]
    /\ snap' = [snap EXCEPT !["probe"] = NoSnapshot]
    /\ UNCHANGED <<gateway, heartbeat, published, ending, disturbances>>

-----------------------------------------------------------------------------
(* Commands and the outside *)

(* A command's own ensure_connected; the commands disconnect_all and       *)
(* reconnect_all (Host, then Secondary, not tried when Host fails); or a   *)
(* drop during a command after which the connector itself reconnects.      *)
CommandChangesSlots ==
    /\ main = "serve"
    /\ Disturbed
    /\ \/ \E s \in Slot \ blind :
             /\ gateway[s]
             /\ conn' = [conn EXCEPT ![s] = TRUE]
             /\ UNCHANGED blind
       \/ /\ conn' = AllDown
          /\ blind' = {}
       \/ /\ gateway["Host"] \/ conn["Host"]
          /\ conn' = [s \in Slot |-> conn[s] \/ (gateway[s] /\ s \notin blind)]
          /\ UNCHANGED blind
       \/ \E s \in Slot :
             /\ conn[s] /\ gateway[s]
             /\ conn' = [conn EXCEPT ![s] = FALSE]
             /\ blind' = blind \cup {s}
    /\ UNCHANGED <<gateway, heartbeat, main, tick, snap, published, ending>>

(* TWS goes down (nightly restart), with its connection, or comes back. *)
GatewayChanges(s) ==
    /\ Disturbed
    /\ gateway' = [gateway EXCEPT ![s] = ~@]
    /\ conn' = IF gateway[s] THEN [conn EXCEPT ![s] = FALSE] ELSE conn
    /\ blind' = blind \ {s}
    /\ UNCHANGED <<heartbeat, main, tick, snap, published, ending>>

(* disconnectedEvent: the socket drops while TWS stays up. *)
ConnectionDrops(s) ==
    /\ conn[s] \/ s \in blind
    /\ Disturbed
    /\ conn' = [conn EXCEPT ![s] = FALSE]
    /\ blind' = blind \ {s}
    /\ UNCHANGED <<gateway, heartbeat, main, tick, snap, published, ending>>

StopIsSet ==
    /\ ~stop
    /\ main \notin {"exiting", "exited"}
    /\ stop' = TRUE
    /\ UNCHANGED <<slots, heartbeat, main, tick, snap, published, raised, lapses,
                   disturbances>>

MainStep ==
    \/ InitialConnect
    \/ TellBegins
    \/ TickStep("main")
    \/ LoopQuiet
    \/ LoopHeartbeat
    \/ \E ok \in BOOLEAN : Reconnect(ok)
    \/ ServeReturns
    \/ LoopStops
    \/ Join
    \/ JoinTimesOut
    \/ DisconnectAll
    \/ FinalHealth
    \/ Exit

ProbeStep ==
    \/ ProbeTick
    \/ ProbeStops
    \/ TickStep("probe")

Failure ==
    \/ StartRaises
    \/ \E w \in Writer : WriteHealthFails(w) \/ PublishRaises(w)
    \/ LoopRaises
    \/ DisconnectFails
    \/ FinalHealthFails

Outside ==
    \/ CommandChangesSlots
    \/ \E s \in Slot : GatewayChanges(s) \/ ConnectionDrops(s)
    \/ StopIsSet

HBNext == MainStep \/ ProbeStep \/ HeartbeatDue \/ Failure \/ Outside

(* Both threads are scheduled, time passes, and a gateway that accepts     *)
(* connections does not refuse every attempt for ever.                     *)
HBFairness ==
    /\ WF_hbVars(MainStep)
    /\ WF_hbVars(ProbeStep)
    /\ WF_hbVars(HeartbeatDue)
    /\ \A s \in Slot : SF_hbVars(Reconnect(TRUE) /\ job = s)

HBSpec == HBInit /\ [][HBNext]_hbVars
HBFairSpec == HBSpec /\ HBFairness

-----------------------------------------------------------------------------
(* Properties *)

(* Every variable has its type. *)
HBTypeOK ==
    /\ gateway \in [Slot -> BOOLEAN]
    /\ conn \in [Slot -> BOOLEAN]
    /\ blind \subseteq Slot
    /\ due \in BOOLEAN
    /\ main \in MainStates
    /\ job \in Slot \cup {NoSlot}
    /\ hint \in Slot \cup {NoSlot}
    /\ tick \in [Writer -> TickStates]
    /\ snap \in [Writer -> Health]
    /\ health \in Health
    /\ told \in [Slot -> BOOLEAN]
    /\ stop \in BOOLEAN
    /\ raised \in BOOLEAN
    /\ lapses \subseteq {"join", "write"}
    /\ disturbances \in 0..MaxDisturbances

(* When the service was stopped and its process is gone, the hash says so, *)
(* whichever of the two threads wrote last, and even if a disconnect       *)
(* failed.  There are three exceptions: an exception left the loop         *)
(* function, a tick outlasted the join, or the last write itself failed.   *)
DownAfterStop ==
    main = "exited" /\ ~raised /\ lapses = {}
        => ~health.alive /\ health.conn = AllDown

(* A slot whose gateway comes up for good, and Host's with it, gets        *)
(* connected, unless a command has left one of them blind or an exception  *)
(* ended the service: neither the order Host first, the probe nor failing  *)
(* health writes starve it.                                                *)
SlotsRecover ==
    \A s \in Slot :
        <>[](gateway["Host"] /\ gateway[s] /\ blind = {})
            => <>[](stop \/ raised \/ conn[s])

(* What is published is what holds, in the end: a stale reading that one   *)
(* thread writes after the other's fresh one does not stay, and a write    *)
(* that failed is made up for.                                             *)
HealthConverges ==
    <>[](stop \/ raised \/ (health.conn = conn /\ told = conn))

(* A reconnect label is always taken back, although the probe may publish  *)
(* it after the main thread has cleared it.                                *)
HintIsTakenBack ==
    []<>(stop \/ health.hint = NoSlot)

=============================================================================
