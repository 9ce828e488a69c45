------------------------------- MODULE IbConnect -------------------------------
(***************************************************************************)
(* How the clients of several services get their API sessions: the walk of *)
(* IBConnector.connect over ports and client ids, one attempt at a time    *)
(* (src/src/bifrost_socket/ib/connector/ib_connector.py), as it is called  *)
(* by _ensure_connected_impl, under the client's lock, and by a request    *)
(* that finds its session down, without it (ib_client.py).  IbClient has   *)
(* the tasks inside one client; here the clients share the gateways.       *)
(*                                                                         *)
(* The Operator makes one call at a time.  In the Account Agent a request  *)
(* may walk while ensure_connected, called by the probe loop, replaces its *)
(* connector: it then connects a former connector, whose session is an     *)
(* orphan, that nobody disconnects.                                        *)
(*                                                                         *)
(*   up            the ports a TWS or gateway process listens on           *)
(*   sessions      the client ids in use at the gateways, with their client*)
(*                 and whether that is still there ("live") or the gateway *)
(*                 has not noticed its end ("stale")                       *)
(*   client_id[c]  the id the client starts its walks from, and reports    *)
(*   connector[c]  port, client_id and state of the client's `_connector`  *)
(*   walk[w]       the walk under way of a client or of its request: where *)
(*                 it began, how far it may go and what it tries next      *)
(*   former        the clients whose request walks on a former connector   *)
(*   faults        how many faults there have been                         *)
(*                                                                         *)
(* Two variables only observe:                                             *)
(*   steady[w]     what was in reach of w's walk and free since it began   *)
(*   own[c]        the client's session was made by one of its requests    *)
(***************************************************************************)

EXTENDS Integers, FiniteSets

CONSTANTS
    Clients,      \* the IB clients of the services
    Port,         \* a client's configured port
    ClientId,     \* a client's configured id
    FullPorts,    \* port steps of a full connect (5)
    FullIds,      \* client ids of a full connect (10)
    HeartbeatOnly,\* clients that after their start are reconnected only by
                  \* heartbeats
    Beside,       \* clients whose requests run beside their other calls: the
                  \* Account Agent's
    MaxFaults     \* bound on the faults

ASSUME ConstantsAssumption ==
    /\ Port \in [Clients -> Nat]
    /\ ClientId \in [Clients -> Nat]
    /\ FullPorts \in Nat \ {0}
    /\ FullIds \in Nat \ {0}
    /\ HeartbeatOnly \subseteq Clients
    /\ Beside \subseteq Clients
    /\ MaxFaults \in Nat

VARIABLES up, sessions, client_id, connector, walk, former, faults, steady, own

vars == <<up, sessions, client_id, connector, walk, former, faults, steady, own>>

Ports == UNION {Port[c] .. Port[c] + FullPorts - 1 : c \in Clients}

(* Who walks: a client in ensure_connected, or its request. *)
Walkers == Clients \X {"client", "request"}

Itself(c) == <<c, "client">>

Request(c) == <<c, "request">>

(* A walk: its first port and id, the number of each it may try, and the   *)
(* attempt that is next.                                                   *)
Walk(port, id, ports, ids) ==
    [port0 |-> port, id0 |-> id, ports |-> ports, ids |-> ids, port |-> port, id |-> id]

NoWalk == [ports |-> 0]

Reach(w) == (w.port0 .. w.port0 + w.ports - 1) \X (w.id0 .. w.id0 + w.ids - 1)

Taken(p, i) == \E s \in sessions : s.port = p /\ s.id = i

Free(p, i) == p \in up /\ ~Taken(p, i)

Live(c) == [port |-> connector[c].port, id |-> connector[c].id, client |-> c, state |-> "live"]

Connected(c) == connector[c].state = "up"

(* A live session that is not the one of its client's connector. *)
Orphan(s) == s.state = "live" /\ ~(Connected(s.client) /\ s = Live(s.client))

Orphans(c) == {s \in sessions : s.client = c /\ Orphan(s)}

(* The gateway notices the end of some live sessions at once, and keeps the*)
(* ids of the others in use.                                               *)
Break(broken) ==
    \E kept \in SUBSET broken :
        sessions' = (sessions \ broken) \cup {[s EXCEPT !.state = "stale"] : s \in kept}

(* A fault, as long as there may be one. *)
Fault ==
    /\ faults < MaxFaults
    /\ faults' = faults + 1

-----------------------------------------------------------------------------

Init ==
    /\ up \in SUBSET Ports
    /\ sessions = {}
    /\ client_id = ClientId
    /\ connector = [c \in Clients |-> [port |-> Port[c], id |-> ClientId[c], state |-> "none"]]
    /\ walk = [w \in Walkers |-> NoWalk]
    /\ former = {}
    /\ faults = 0
    /\ steady = [w \in Walkers |-> {}]
    /\ own = [c \in Clients |-> FALSE]

(* A slip: a walk starts from the port of the last connector. *)
LastPort(c) == connector[c].port

(* A walk of the client starts from its port, which is the configured one. *)
FirstPort(c) == Port[c]

(* Nothing under way keeps the client from calling ensure_connected: no    *)
(* walk of its own, and no request of a service with one call at a time.   *)
MayCall(c) ==
    /\ walk[Itself(c)] = NoWalk
    /\ c \in Beside \/ walk[Request(c)] = NoWalk

(* A new connector with the client's port and id, which connects.  A       *)
(* request that walks on the client's connector goes on with that one.     *)
Replace(c, ports, ids) ==
    /\ connector' = [connector EXCEPT ![c] =
                        [port |-> FirstPort(c), id |-> client_id[c], state |-> "none"]]
    /\ walk' = [walk EXCEPT ![Itself(c)] = Walk(FirstPort(c), client_id[c], ports, ids)]
    /\ former' = IF walk[Request(c)] = NoWalk THEN former ELSE former \cup {c}
    /\ UNCHANGED <<up, sessions, client_id, faults, own>>

(* A slip of _ensure_connected_impl: it does not look whether the client   *)
(* is connected.                                                           *)
BeginUnasked(c, ports, ids) == MayCall(c) /\ Replace(c, ports, ids)

(* _ensure_connected_impl: not connected, so it makes a new connector with *)
(* the client's port and id, and connects it.                              *)
Begin(c, ports, ids) == MayCall(c) /\ ~Connected(c) /\ Replace(c, ports, ids)

(* At a service's start, at the start of a session, before a request. *)
FullConnect(c) == Begin(c, FullPorts, FullIds)

(* ensure_connected(max_connect_attempts=1). *)
HeartbeatConnect(c) == Begin(c, 1, 1)

(* A request finds the session of its connector down: self.connect(), from *)
(* where that connector was, on its port only.  It takes no lock; its first*)
(* attempt may come after the client has replaced the connector.           *)
RequestConnect(c) ==
    /\ walk[Request(c)] = NoWalk
    /\ connector[c].state = "down"
    /\ walk' = [walk EXCEPT ![Request(c)] = Walk(connector[c].port, connector[c].id, 1, FullIds)]
    /\ UNCHANGED <<up, sessions, client_id, connector, former, faults, own>>

(* The walk of w is over. *)
Stop(w) ==
    /\ walk' = [walk EXCEPT ![w] = NoWalk]
    /\ former' = IF w[2] = "request" THEN former \ {w[1]} ELSE former

(* The walk has failed.  _ensure_connected_impl drops its connector, a     *)
(* request leaves it.                                                      *)
GiveUp(w) ==
    /\ Stop(w)
    /\ UNCHANGED <<up, sessions, client_id, connector, own>>

(* The walk goes on with another attempt. *)
Goes(w, port, id) ==
    /\ walk' = [walk EXCEPT ![w].port = port, ![w].id = id]
    /\ UNCHANGED <<up, sessions, client_id, connector, former, own>>

(* A slip of the loops: the next port goes on with the id after the last.  *)
NextPortNextId(w) ==
    \/ /\ walk[w].port < walk[w].port0 + walk[w].ports - 1
       /\ Goes(w, walk[w].port + 1, walk[w].id + 1)
    \/ /\ walk[w].port >= walk[w].port0 + walk[w].ports - 1
       /\ GiveUp(w)

(* A slip: a refusal ends the walk. *)
NoNextPort(w) == GiveUp(w)

(* Connection refused: the next port from the first id on, if there is one.*)
NextPort(w) ==
    \/ /\ walk[w].port < walk[w].port0 + walk[w].ports - 1
       /\ Goes(w, walk[w].port + 1, walk[w].id0)
    \/ /\ walk[w].port >= walk[w].port0 + walk[w].ports - 1
       /\ GiveUp(w)

(* Any other failure: the next id.  The last one ends the walk, whatever   *)
(* other ports there were: it was not a refusal.                           *)
NextId(w) ==
    \/ /\ walk[w].id < walk[w].id0 + walk[w].ids - 1
       /\ Goes(w, walk[w].port, walk[w].id + 1)
    \/ /\ walk[w].id >= walk[w].id0 + walk[w].ids - 1
       /\ GiveUp(w)

Refused(w) ==
    /\ walk[w] # NoWalk
    /\ walk[w].port \notin up
    /\ NextPort(w)
    /\ UNCHANGED faults

InUse(w) ==
    /\ walk[w] # NoWalk
    /\ walk[w].port \in up
    /\ Taken(walk[w].port, walk[w].id)
    /\ NextId(w)
    /\ UNCHANGED faults

(* The attempt times out, or the gateway drops it. *)
AttemptFails(w) ==
    /\ walk[w] # NoWalk
    /\ Free(walk[w].port, walk[w].id)
    /\ NextId(w)
    /\ Fault

(* The session that a walk gets. *)
Won(w) == [port |-> walk[w].port, id |-> walk[w].id, client |-> w[1], state |-> "live"]

(* The client's connector has the session.  _ensure_connected_impl takes   *)
(* over its id, a request does not.                                        *)
Serves(w) ==
    LET c == w[1] IN
    /\ connector' = [connector EXCEPT ![c] =
                        [port |-> walk[w].port, id |-> walk[w].id, state |-> "up"]]
    /\ client_id' = [client_id EXCEPT ![c] = IF w[2] = "request" THEN @ ELSE walk[w].id]
    /\ own' = [own EXCEPT ![c] = w[2] = "request"]

Succeed(w) ==
    /\ walk[w] # NoWalk
    /\ Free(walk[w].port, walk[w].id)
    /\ sessions' = sessions \cup {Won(w)}
    /\ IF w[2] = "request" /\ w[1] \in former
       THEN UNCHANGED <<client_id, connector, own>>
       ELSE Serves(w)
    /\ Stop(w)
    /\ UNCHANGED <<up, faults>>

(* disconnect(): the session is closed and the connector dropped.  The     *)
(* services do not call it while a request is under way.                   *)
Disconnect(c) ==
    /\ Connected(c)
    /\ walk[Request(c)] = NoWalk
    /\ sessions' = sessions \ {Live(c)}
    /\ connector' = [connector EXCEPT ![c].state = "none"]
    /\ UNCHANGED <<up, client_id, walk, former, faults, own>>

-----------------------------------------------------------------------------
(* The gateways and the processes *)

(* The client's socket breaks. *)
SocketBreaks(c) ==
    /\ Connected(c)
    /\ Fault
    /\ connector' = [connector EXCEPT ![c].state = "down"]
    /\ Break({Live(c)})
    /\ UNCHANGED <<up, client_id, walk, former, own>>

(* These sessions break.  A request that used one of them as an orphan, and*)
(* is under way still, may connect again from there.                       *)
OrphansBreak(broken) ==
    \E again \in SUBSET {s \in broken : Orphan(s) /\ walk[Request(s.client)] = NoWalk} :
        /\ \A s, t \in again : s.client = t.client => s = t
        /\ former' = former \cup {s.client : s \in again}
        /\ walk' = [w \in Walkers |->
              IF \E s \in again : w = Request(s.client)
              THEN LET s == CHOOSE s \in again : w = Request(s.client)
                   IN Walk(s.port, s.id, 1, FullIds)
              ELSE walk[w]]

OrphanBreaks(s) ==
    /\ Orphan(s)
    /\ Fault
    /\ Break({s})
    /\ OrphansBreak({s})
    /\ UNCHANGED <<up, client_id, connector, own>>

(* The gateway frees the id of a client that is gone. *)
Expire ==
    /\ \E s \in sessions :
          /\ s.state = "stale"
          /\ sessions' = sessions \ {s}
    /\ UNCHANGED <<up, client_id, connector, walk, former, faults, own>>

GatewayStops(p) ==
    /\ p \in up
    /\ Fault
    /\ up' = up \ {p}
    /\ sessions' = {s \in sessions : s.port # p}
    /\ connector' = [c \in Clients |->
          IF Connected(c) /\ connector[c].port = p
          THEN [connector[c] EXCEPT !.state = "down"] ELSE connector[c]]
    /\ OrphansBreak({s \in sessions : s.port = p})
    /\ UNCHANGED <<client_id, own>>

GatewayStarts(p) ==
    /\ p \notin up
    /\ up' = up \cup {p}
    /\ UNCHANGED <<sessions, client_id, connector, walk, former, faults, own>>

(* The service's process ends and is started again with its configuration. *)
Restart(c) ==
    /\ Fault
    /\ client_id' = [client_id EXCEPT ![c] = ClientId[c]]
    /\ connector' = [connector EXCEPT ![c] =
                        [port |-> Port[c], id |-> ClientId[c], state |-> "none"]]
    /\ walk' = [walk EXCEPT ![Itself(c)] = NoWalk, ![Request(c)] = NoWalk]
    /\ former' = former \ {c}
    /\ own' = [own EXCEPT ![c] = FALSE]
    /\ Break({s \in sessions : s.client = c /\ s.state = "live"})
    /\ UNCHANGED up

-----------------------------------------------------------------------------

(* What each walk could have had all the time: at its beginning all that is*)
(* free in its reach, then what stays free and was not tried in vain.      *)
Observe ==
    steady' = [w \in Walkers |->
        IF walk'[w] = NoWalk
        THEN {}
        ELSE {x \in IF walk[w] = NoWalk
                    THEN Reach(walk'[w])
                    ELSE IF walk'[w] # walk[w]
                         THEN steady[w] \ {<<walk[w].port, walk[w].id>>}
                         ELSE steady[w] :
                 Free(x[1], x[2])'}]

Attempt(w) == Refused(w) \/ InUse(w) \/ Succeed(w)

Begins(c) == FullConnect(c) \/ HeartbeatConnect(c) \/ RequestConnect(c)

Acts(c) ==
    \/ Begins(c)
    \/ Disconnect(c)
    \/ SocketBreaks(c)
    \/ Restart(c)

Gateways ==
    \/ Expire
    \/ \E s \in sessions : OrphanBreaks(s)
    \/ \E p \in Ports : GatewayStops(p) \/ GatewayStarts(p)

Next ==
    /\ \/ \E c \in Clients : Acts(c)
       \/ \E w \in Walkers : Attempt(w) \/ AttemptFails(w)
       \/ Gateways
    /\ Observe

(* Attempts end, a gateway notices a client's end; a service that is down  *)
(* calls again, whatever its requests do meanwhile.                        *)
Fairness ==
    /\ \A w \in Walkers : WF_vars(Attempt(w) /\ Observe)
    /\ \A c \in Clients :
          IF c \in HeartbeatOnly
          THEN SF_vars(HeartbeatConnect(c) /\ Observe)
          ELSE SF_vars(FullConnect(c) /\ Observe)
    /\ WF_vars(Expire /\ Observe)

Spec == Init /\ [][Next]_vars
FairSpec == Spec /\ Fairness

-----------------------------------------------------------------------------
(* Properties *)

ClientIds == Nat

(* Every variable has its type. *)
TypeOK ==
    /\ up \subseteq Ports
    /\ sessions \subseteq
          [port : Ports, id : ClientIds, client : Clients, state : {"live", "stale"}]
    /\ client_id \in [Clients -> ClientIds]
    /\ connector \in
          [Clients -> [port : Ports, id : ClientIds, state : {"none", "down", "up"}]]
    /\ \A w \in Walkers : walk[w] # NoWalk =>
          /\ <<walk[w].port, walk[w].id>> \in Reach(walk[w])
          /\ steady[w] \subseteq Reach(walk[w])
    /\ former \subseteq {c \in Clients : walk[Request(c)] # NoWalk}
    /\ faults \in 0 .. MaxFaults
    /\ own \in [Clients -> BOOLEAN]

(* A live session is the one of its client's connector, which disconnect() *)
(* will close, but in the Account Agent: there a request that reconnects   *)
(* beside the probe loop leaves orphans, that nobody closes, and as many as*)
(* there have been faults: each is paid for by a session that broke.       *)
LiveSessionIsKnown ==
    \A c \in Clients :
        /\ c \notin Beside => Orphans(c) = {}
        /\ Cardinality(Orphans(c)) <= faults

(* The client id a service reports (client.client_id) is the one its       *)
(* session has, unless a request has made that session by itself.          *)
ReportedIdIsUsed ==
    \A c \in Clients : Connected(c) /\ ~own[c] => client_id[c] = connector[c].id

(* A walk passes over nothing that was free from its beginning to its end: *)
(* what it gets comes before all of that, in the order of ports, then ids, *)
(* and when it fails there was none up to the port where it stopped.       *)
(* Others connect, break and expire meanwhile.                             *)
NothingFreeIsSkipped ==
    [][ \A w \in Walkers : walk[w] # NoWalk /\ walk'[w] = NoWalk =>
          \A x \in steady[w] :
             \/ x[1] > walk[w].port
             \/ /\ Won(w) \in sessions' \ sessions
                /\ x[1] = walk[w].port
                /\ x[2] >= walk[w].id
             \/ faults' # faults ]_vars

(* A client that connects in full is connected again and again, if from    *)
(* some time on a port in its reach is listened on and no orphan is left:  *)
(* a stale id of its own or an id that another client has drifted to does  *)
(* not shut it out.                                                        *)
ServedInReach ==
    \A c \in Clients \ HeartbeatOnly :
        <>[](/\ up \cap (Port[c] .. Port[c] + FullPorts - 1) # {}
             /\ \A s \in sessions : ~Orphan(s))
            => []<>Connected(c)

(* A client that only heartbeats reconnect needs its configured port and   *)
(* the id it last had: it is connected again and again if from some time on*)
(* the port is listened on and no other client, and no orphan, has the id. *)
ServedAtItsPlace ==
    \A c \in HeartbeatOnly :
        <>[](/\ Port[c] \in up
             /\ \A s \in sessions :
                   s.port = Port[c] /\ s.id = client_id[c] => s.client = c /\ ~Orphan(s))
            => []<>Connected(c)

=============================================================================
