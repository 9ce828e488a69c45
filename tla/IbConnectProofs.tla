--------------------------- MODULE IbConnectProofs ---------------------------
(***************************************************************************)
(* Theorems about the walks over ports and client ids, for every set of    *)
(* clients, every configuration of their ports and ids, every length of a  *)
(* walk and any number of faults.                                          *)
(***************************************************************************)

EXTENDS IbConnect, FiniteSetTheorems, TLAPS

-----------------------------------------------------------------------------
(* The inductive invariant *)

WalkType ==
    [port0 : Nat, id0 : Nat, ports : Nat \ {0}, ids : Nat \ {0}, port : Nat, id : Nat]

Session == [port : Ports, id : Nat, client : Clients, state : {"live", "stale"}]

(* A client that walks is not connected; a request that walks on the       *)
(* client's connector has found it down.                                   *)
Matches(c) ==
    /\ walk[Itself(c)] # NoWalk => connector[c].state = "none"
    /\ walk[Request(c)] # NoWalk /\ c \notin former => connector[c].state = "down"
    /\ c \in former => c \in Beside /\ walk[Request(c)] # NoWalk

(* Every walk keeps to the ports. *)
WalkInv ==
    /\ walk \in [Walkers -> WalkType \cup {NoWalk}]
    /\ \A w \in Walkers : walk[w] # NoWalk =>
          walk[w].port0 .. walk[w].port0 + walk[w].ports - 1 \subseteq Ports
    /\ \A c \in Clients : Matches(c)

(* What has been free since the walk began is free, in reach, and not      *)
(* behind the walk.                                                        *)
SteadyInv ==
    \A w \in Walkers : walk[w] # NoWalk =>
        \A x \in steady[w] :
            /\ x \in Reach(walk[w])
            /\ Free(x[1], x[2])
            /\ \/ x[1] > walk[w].port
               \/ x[1] = walk[w].port /\ x[2] >= walk[w].id

(* Sessions that broke and may still become orphans: the connector's, that *)
(* a request finds down, and the one that its request is connecting again. *)
Owed(c) ==
    (IF connector[c].state = "down" THEN 1 ELSE 0) + (IF c \in former THEN 1 ELSE 0)

(* An orphan, and what may become one, is paid for by a fault. *)
Paid(c) ==
    /\ IsFiniteSet(Orphans(c))
    /\ c \notin Beside => Orphans(c) = {}
    /\ Cardinality(Orphans(c)) + Owed(c) <= faults

OrphanInv == \A c \in Clients : Paid(c)

IInv == TypeOK /\ WalkInv /\ OrphanInv /\ ReportedIdIsUsed /\ SteadyInv

-----------------------------------------------------------------------------
(* How a walk moves *)

(* The walk begins: by a client that is not connected, or its request. *)
Started(w) ==
    /\ walk[w] = NoWalk
    /\ walk'[w] \in WalkType
    /\ walk'[w].port = walk'[w].port0
    /\ walk'[w].id = walk'[w].id0
    /\ walk'[w].port0 .. walk'[w].port0 + walk'[w].ports - 1 \subseteq Ports

(* It has been refused, and goes on with the next port. *)
OnToPort(w) ==
    /\ walk[w] # NoWalk
    /\ walk[w].port \notin up
    /\ walk[w].port < walk[w].port0 + walk[w].ports - 1
    /\ walk'[w] = [walk[w] EXCEPT !.port = walk[w].port + 1, !.id = walk[w].id0]

(* An id has failed, and it goes on with the next one. *)
OnToId(w) ==
    /\ walk[w] # NoWalk
    /\ walk[w].id < walk[w].id0 + walk[w].ids - 1
    /\ walk'[w] = [walk[w] EXCEPT !.port = walk[w].port, !.id = walk[w].id + 1]

(* It ends: on a port that refuses, on a last id that is taken, with a     *)
(* session, or by a fault.                                                 *)
Ended(w) ==
    /\ walk[w] # NoWalk
    /\ walk'[w] = NoWalk
    /\ \/ walk[w].port \notin up
       \/ /\ Taken(walk[w].port, walk[w].id)
          /\ walk[w].id >= walk[w].id0 + walk[w].ids - 1
       \/ Won(w) \in sessions' \ sessions
       \/ faults' # faults

(* Walkers are clients and their requests, and no two are the same. *)
LEMMA WalkerKinds ==
    /\ \A c \in Clients : Itself(c) \in Walkers /\ Request(c) \in Walkers
    /\ \A w \in Walkers : w[1] \in Clients /\ (w = Itself(w[1]) \/ w = Request(w[1]))
    /\ \A c, d \in Clients : Itself(c) # Request(d)
    /\ \A c \in Clients : /\ Itself(c)[1] = c /\ Itself(c)[2] = "client"
                          /\ Request(c)[1] = c /\ Request(c)[2] = "request"
BY DEF Walkers, Itself, Request

(* The first port of a client and those after it are ports. *)
LEMMA FullReach ==
    ASSUME NEW c \in Clients, NEW n \in 1 .. FullPorts
    PROVE  /\ Port[c] \in Nat
           /\ Port[c] .. Port[c] + n - 1 \subseteq Ports
           /\ Port[c] \in Ports
<1>1. Port[c] \in Nat /\ FullPorts \in Nat
  BY ConstantsAssumption
<1>2. Port[c] .. Port[c] + n - 1 \subseteq Port[c] .. Port[c] + FullPorts - 1
  BY <1>1
<1>3. Port[c] \in Port[c] .. Port[c] + FullPorts - 1
  BY <1>1
<1>. QED BY <1>1, <1>2, <1>3 DEF Ports

(* Ports are natural numbers. *)
LEMMA PortsAreNat == Ports \subseteq Nat
BY ConstantsAssumption DEF Ports

(* A full connect and a heartbeat's have these reaches. *)
LEMMA BeginLimits ==
    ASSUME NEW c \in Clients, FullConnect(c) \/ HeartbeatConnect(c)
    PROVE  \E n \in 1 .. FullPorts, m \in Nat \ {0} : Begin(c, n, m)
<1>1. 1 \in 1 .. FullPorts /\ FullPorts \in 1 .. FullPorts /\ FullIds \in Nat \ {0}
  BY ConstantsAssumption
<1>. QED BY <1>1 DEF FullConnect, HeartbeatConnect

(* A walk on one port from a place where there was a session. *)
LEMMA OnePortWalk ==
    ASSUME NEW p \in Ports, NEW i \in Nat
    PROVE  LET v == Walk(p, i, 1, FullIds) IN
           /\ v \in WalkType
           /\ v.port = v.port0 /\ v.id = v.id0
           /\ v.port0 .. v.port0 + v.ports - 1 \subseteq Ports
<1>. DEFINE v == Walk(p, i, 1, FullIds)
<1>1. p \in Nat /\ FullIds \in Nat \ {0}
  BY PortsAreNat, ConstantsAssumption
<1>2. v \in WalkType /\ v.port = p /\ v.port0 = p /\ v.id = i /\ v.id0 = i /\ v.ports = 1
  BY <1>1 DEF Walk, WalkType
<1>3. p + 1 - 1 = p
  BY <1>1
<1>4. p .. p = {p}
  BY <1>1
<1>. QED BY <1>2, <1>3, <1>4

(* When sessions break, requests that connect again do so from an orphan's *)
(* place, and the other walks stay.                                        *)
LEMMA AskedAgain ==
    ASSUME TypeOK, NEW broken \in SUBSET sessions, OrphansBreak(broken)
    PROVE  /\ walk' = [w \in Walkers |-> walk'[w]]
           /\ \A w \in Walkers :
                 \/ walk'[w] = walk[w]
                 \/ \E s \in broken :
                       /\ Orphan(s) /\ w = Request(s.client) /\ s.client \in former'
                       /\ walk[w] = NoWalk
                       /\ walk'[w] = Walk(s.port, s.id, 1, FullIds)
           /\ former \subseteq former'
           /\ \A c \in former' \ former :
                 \E s \in broken : /\ Orphan(s) /\ s.client = c
                                   /\ walk'[Request(c)] = Walk(s.port, s.id, 1, FullIds)
<1>1. PICK again \in SUBSET {s \in broken : Orphan(s) /\ walk[Request(s.client)] = NoWalk} :
        /\ \A s, t \in again : s.client = t.client => s = t
        /\ former' = former \cup {s.client : s \in again}
        /\ walk' = [w \in Walkers |->
              IF \E s \in again : w = Request(s.client)
              THEN LET s == CHOOSE s \in again : w = Request(s.client)
                   IN Walk(s.port, s.id, 1, FullIds)
              ELSE walk[w]]
  BY DEF OrphansBreak
<1>2. walk' = [w \in Walkers |-> walk'[w]]
  BY <1>1
<1>3. ASSUME NEW w \in Walkers, walk'[w] # walk[w]
      PROVE  \E s \in broken :
                /\ Orphan(s) /\ w = Request(s.client) /\ s.client \in former'
                /\ walk[w] = NoWalk
                /\ walk'[w] = Walk(s.port, s.id, 1, FullIds)
  <2>1. \E s \in again : w = Request(s.client)
    BY <1>1, <1>3
  <2>. DEFINE s == CHOOSE s \in again : w = Request(s.client)
  <2>2. s \in again /\ w = Request(s.client)
    BY <2>1
  <2>3. walk'[w] = Walk(s.port, s.id, 1, FullIds)
    BY <1>1, <2>1
  <2>. HIDE DEF s
  <2>4. s \in broken /\ Orphan(s) /\ walk[Request(s.client)] = NoWalk
    BY <2>2
  <2>5. s.client \in former'
    BY <1>1, <2>2
  <2>. QED BY <2>2, <2>3, <2>4, <2>5
<1>4. ASSUME NEW c \in former' \ former
      PROVE  \E s \in broken : /\ Orphan(s) /\ s.client = c
                               /\ walk'[Request(c)] = Walk(s.port, s.id, 1, FullIds)
  <2>1. PICK t \in again : t.client = c
    BY <1>1
  <2>2. Request(c) \in Walkers
    BY <2>1, WalkerKinds DEF TypeOK
  <2>. DEFINE s == CHOOSE s \in again : Request(c) = Request(s.client)
  <2>3. s \in again /\ Request(c) = Request(s.client)
    BY <2>1
  <2>4. s.client = c
    BY <2>3 DEF Request
  <2>5. walk'[Request(c)] = Walk(s.port, s.id, 1, FullIds)
    BY <1>1, <2>1, <2>2
  <2>. QED BY <2>3, <2>4, <2>5
<1>. QED BY <1>1, <1>2, <1>3, <1>4

(* These are all the ways a walk moves, or it stays. *)
LEMMA WalkMoves ==
    ASSUME IInv, Next, NEW w \in Walkers
    PROVE  Started(w) \/ OnToPort(w) \/ OnToId(w) \/ Ended(w) \/ walk'[w] = walk[w]
<1>0. ASSUME NEW broken \in SUBSET sessions, OrphansBreak(broken), walk'[w] # walk[w]
      PROVE  \E s \in broken : walk[w] = NoWalk /\ walk'[w] = Walk(s.port, s.id, 1, FullIds)
  BY <1>0, AskedAgain, Zenon DEF IInv
<1>. USE DEF IInv, TypeOK, WalkInv
<1>1. CASE \E d \in Clients : FullConnect(d) \/ HeartbeatConnect(d)
  <2>1. PICK d \in Clients, n \in 1 .. FullPorts, m \in Nat \ {0} : Begin(d, n, m)
    BY <1>1, BeginLimits
  <2>2. CASE w = Itself(d)
    <3>1. walk'[w] = Walk(Port[d], client_id[d], n, m) /\ walk[w] = NoWalk
      BY <2>1, <2>2 DEF Begin, MayCall, Replace, FirstPort
    <3>2. client_id[d] \in Nat /\ n \in Nat \ {0}
      BY DEF ClientIds
    <3>3. walk'[w] \in WalkType
      BY <3>1, <3>2, FullReach DEF Walk, WalkType
    <3>. QED BY <3>1, <3>3, FullReach DEF Started, Walk
  <2>3. CASE w # Itself(d)
    BY <2>1, <2>3 DEF Begin, Replace
  <2>. QED BY <2>2, <2>3
<1>2. CASE \E d \in Clients : RequestConnect(d)
  <2>1. PICK d \in Clients : RequestConnect(d)
    BY <1>2
  <2>2. CASE w = Request(d)
    <3>1. /\ walk'[w] = Walk(connector[d].port, connector[d].id, 1, FullIds)
          /\ walk[w] = NoWalk
      BY <2>1, <2>2 DEF RequestConnect
    <3>2. connector[d].port \in Ports /\ connector[d].id \in Nat
      BY DEF ClientIds
    <3>. QED BY <3>1, <3>2, OnePortWalk DEF Started
  <2>3. CASE w # Request(d)
    BY <2>1, <2>3 DEF RequestConnect
  <2>. QED BY <2>2, <2>3
<1>3. CASE \E v \in Walkers : Refused(v)
  <2>1. PICK v \in Walkers : Refused(v)
    BY <1>3
  <2>2. CASE w = v
    BY <2>1, <2>2 DEF Refused, NextPort, Goes, GiveUp, Stop, OnToPort, Ended
  <2>3. CASE w # v
    BY <2>1, <2>3 DEF Refused, NextPort, Goes, GiveUp, Stop
  <2>. QED BY <2>2, <2>3
<1>4. CASE \E v \in Walkers : InUse(v) \/ AttemptFails(v)
  <2>1. PICK v \in Walkers : InUse(v) \/ AttemptFails(v)
    BY <1>4
  <2>2. CASE w = v
    <3>1. walk[w] # NoWalk /\ NextId(w)
      BY <2>1, <2>2 DEF InUse, AttemptFails
    <3>2. Taken(walk[w].port, walk[w].id) \/ faults' # faults
      BY <2>1, <2>2 DEF InUse, AttemptFails, Fault
    <3>. QED BY <3>1, <3>2 DEF NextId, Goes, GiveUp, Stop, OnToId, Ended
  <2>3. CASE w # v
    BY <2>1, <2>3 DEF InUse, AttemptFails, NextId, Goes, GiveUp, Stop
  <2>. QED BY <2>2, <2>3
<1>5. CASE \E v \in Walkers : Succeed(v)
  <2>1. PICK v \in Walkers : Succeed(v)
    BY <1>5
  <2>2. CASE w = v
    <3>1. Won(w) \notin sessions
      BY <2>1, <2>2 DEF Succeed, Free, Taken, Won
    <3>. QED BY <2>1, <2>2, <3>1 DEF Succeed, Stop, Ended
  <2>3. CASE w # v
    BY <2>1, <2>3 DEF Succeed, Stop
  <2>. QED BY <2>2, <2>3
<1>6. CASE \E d \in Clients : Disconnect(d) \/ SocketBreaks(d)
  BY <1>6 DEF Disconnect, SocketBreaks
<1>7. CASE \E d \in Clients : Restart(d)
  <2>1. PICK d \in Clients : Restart(d)
    BY <1>7
  <2>2. walk'[w] = NoWalk \/ walk'[w] = walk[w]
    BY <2>1 DEF Restart
  <2>. QED BY <2>1, <2>2 DEF Restart, Fault, Ended
<1>8. ASSUME NEW broken \in SUBSET sessions, OrphansBreak(broken)
      PROVE  Started(w) \/ walk'[w] = walk[w]
  <2>1. SUFFICES ASSUME walk'[w] # walk[w]
                 PROVE  Started(w)
    OBVIOUS
  <2>2. PICK s \in broken : walk[w] = NoWalk /\ walk'[w] = Walk(s.port, s.id, 1, FullIds)
    BY <1>0, <1>8, <2>1
  <2>3. s.port \in Ports /\ s.id \in Nat
    BY DEF ClientIds
  <2>. QED BY <2>2, <2>3, OnePortWalk DEF Started
<1>9. CASE Gateways
  <2>1. CASE \E s \in sessions : OrphanBreaks(s)
    BY <1>8, <2>1 DEF OrphanBreaks
  <2>2. CASE \E p \in Ports : GatewayStops(p)
    BY <1>8, <2>2 DEF GatewayStops
  <2>3. CASE Expire \/ \E p \in Ports : GatewayStarts(p)
    BY <2>3 DEF Expire, GatewayStarts
  <2>. QED BY <1>9, <2>1, <2>2, <2>3 DEF Gateways
<1>. QED BY <1>1, <1>2, <1>3, <1>4, <1>5, <1>6, <1>7, <1>9
         DEF Next, Acts, Begins, Attempt

(* Where a walk that moves is, in its own terms. *)
LEMMA WalkKeepsType ==
    ASSUME IInv, Next, NEW w \in Walkers, walk'[w] # NoWalk
    PROVE  /\ walk'[w] \in WalkType
           /\ walk'[w].port0 .. walk'[w].port0 + walk'[w].ports - 1 \subseteq Ports
           /\ <<walk'[w].port, walk'[w].id>> \in Reach(walk'[w])
<1>. USE DEF IInv, WalkInv
<1>1. CASE Started(w)
  BY <1>1 DEF Started, Reach, WalkType
<1>2. CASE OnToPort(w)
  <2>1. walk[w] \in WalkType /\ walk[w] # NoWalk
    BY <1>2 DEF OnToPort
  <2>2. <<walk[w].port, walk[w].id>> \in Reach(walk[w])
    BY <2>1 DEF TypeOK
  <2>3. walk[w].port \in Nat /\ walk[w].port0 \in Nat /\ walk[w].id0 \in Nat
        /\ walk[w].ports \in Nat /\ walk[w].ids \in Nat \ {0}
    BY <2>1 DEF WalkType
  <2>4. walk[w].port + 1 \in Nat
    BY <2>3
  <2>5. /\ walk'[w] \in WalkType
        /\ walk'[w].port = walk[w].port + 1 /\ walk'[w].id = walk[w].id0
        /\ walk'[w].port0 = walk[w].port0 /\ walk'[w].ports = walk[w].ports
        /\ walk'[w].id0 = walk[w].id0 /\ walk'[w].ids = walk[w].ids
    <3>. DEFINE t == [walk[w] EXCEPT !.port = walk[w].port + 1]
    <3>1. /\ t \in WalkType /\ t.port = walk[w].port + 1 /\ t.port0 = walk[w].port0
          /\ t.ports = walk[w].ports /\ t.id0 = walk[w].id0 /\ t.ids = walk[w].ids
      BY <2>1, <2>3 DEF WalkType
    <3>2. walk'[w] = [t EXCEPT !.id = walk[w].id0]
      BY <1>2, Zenon DEF OnToPort
    <3>. HIDE DEF t
    <3>. QED BY <2>3, <3>1, <3>2 DEF WalkType
  <2>6. walk[w].port0 <= walk[w].port
    BY <2>2, <2>3 DEF Reach
  <2>7. <<walk'[w].port, walk'[w].id>> \in Reach(walk'[w])
    BY <1>2, <2>3, <2>5, <2>6 DEF OnToPort, Reach
  <2>. QED BY <1>2, <2>1, <2>5, <2>7 DEF OnToPort
<1>3. CASE OnToId(w)
  <2>1. walk[w] \in WalkType /\ walk[w] # NoWalk
    BY <1>3 DEF OnToId
  <2>2. <<walk[w].port, walk[w].id>> \in Reach(walk[w])
    BY <2>1 DEF TypeOK
  <2>3. walk[w].port \in Nat /\ walk[w].port0 \in Nat /\ walk[w].id0 \in Nat
        /\ walk[w].ports \in Nat /\ walk[w].ids \in Nat \ {0}
        /\ walk[w].id \in Nat /\ walk[w].id + 1 \in Nat
    BY <2>1 DEF WalkType
  <2>4. /\ walk'[w] \in WalkType
        /\ walk'[w].port = walk[w].port /\ walk'[w].id = walk[w].id + 1
        /\ walk'[w].port0 = walk[w].port0 /\ walk'[w].ports = walk[w].ports
        /\ walk'[w].id0 = walk[w].id0 /\ walk'[w].ids = walk[w].ids
    <3>. DEFINE t == [walk[w] EXCEPT !.port = walk[w].port]
    <3>1. /\ t \in WalkType /\ t.port = walk[w].port /\ t.port0 = walk[w].port0
          /\ t.ports = walk[w].ports /\ t.id0 = walk[w].id0 /\ t.ids = walk[w].ids
      BY <2>1, <2>3 DEF WalkType
    <3>2. walk'[w] = [t EXCEPT !.id = walk[w].id + 1]
      BY <1>3, Zenon DEF OnToId
    <3>. HIDE DEF t
    <3>. QED BY <2>3, <3>1, <3>2 DEF WalkType
  <2>5. <<walk'[w].port, walk'[w].id>> \in Reach(walk'[w])
    BY <1>3, <2>2, <2>3, <2>4 DEF OnToId, Reach
  <2>. QED BY <2>1, <2>4, <2>5
<1>4. CASE walk'[w] = walk[w]
  BY <1>4 DEF TypeOK
<1>. QED BY <1>1, <1>2, <1>3, <1>4, WalkMoves DEF Ended

(* The walks are always a function of the walkers. *)
LEMMA WalkFunction ==
    ASSUME IInv, Next
    PROVE  walk' = [w \in Walkers |-> walk'[w]]
<1>0. walk = [w \in Walkers |-> walk[w]]
  BY DEF IInv, WalkInv
<1>1. CASE \E d \in Clients : Begins(d)
  BY <1>0, <1>1 DEF Begins, FullConnect, HeartbeatConnect, RequestConnect, Begin, Replace
<1>2. CASE \E w \in Walkers : Refused(w)
  BY <1>0, <1>2 DEF Refused, NextPort, Goes, GiveUp, Stop
<1>3. CASE \E w \in Walkers : InUse(w) \/ AttemptFails(w)
  BY <1>0, <1>3 DEF InUse, AttemptFails, NextId, Goes, GiveUp, Stop
<1>4. CASE \E w \in Walkers : Succeed(w)
  BY <1>0, <1>4 DEF Succeed, Stop
<1>5. CASE \E d \in Clients : Disconnect(d) \/ SocketBreaks(d) \/ Restart(d)
  BY <1>0, <1>5 DEF Disconnect, SocketBreaks, Restart
<1>6. CASE \E broken \in SUBSET sessions : OrphansBreak(broken)
  BY <1>6, AskedAgain DEF IInv
<1>7. CASE Expire \/ \E p \in Ports : GatewayStarts(p)
  BY <1>0, <1>7 DEF Expire, GatewayStarts
<1>8. CASE \E s \in sessions : OrphanBreaks(s)
  BY <1>6, <1>8 DEF OrphanBreaks
<1>9. CASE \E p \in Ports : GatewayStops(p)
  BY <1>6, <1>9 DEF GatewayStops
<1>. QED BY <1>1, <1>2, <1>3, <1>4, <1>5, <1>7, <1>8, <1>9
         DEF Next, Acts, Attempt, Gateways

(* Every step keeps a client's walks with the connectors they are for. *)
LEMMA MatchStep ==
    ASSUME IInv, Next, NEW c \in Clients
    PROVE  Matches(c)'
<1>. DEFINE m == Itself(c)
            r == Request(c)
<1>1. /\ m \in Walkers /\ r \in Walkers /\ m # r
      /\ m[1] = c /\ r[1] = c /\ m[2] = "client" /\ r[2] = "request"
      /\ \A d \in Clients \ {c} : m # Itself(d) /\ r # Request(d)
      /\ \A d \in Clients : m # Request(d) /\ r # Itself(d)
      /\ \A w \in Walkers : w[1] \in Clients
      /\ \A w \in Walkers : w[1] = c => w = m \/ w = r
  BY DEF Walkers, Itself, Request
<1>2. /\ Matches(c)
      /\ walk \in [Walkers -> WalkType \cup {NoWalk}]
      /\ connector \in [Clients -> [port : Ports, id : Nat, state : {"none", "down", "up"}]]
      /\ NoWalk \notin WalkType
  BY DEF IInv, TypeOK, WalkInv, ClientIds, WalkType, NoWalk
<1>. HIDE DEF m, r
<1>3. ASSUME walk'[m] = walk[m], walk'[r] = walk[r], c \in former' <=> c \in former,
             connector'[c] = connector[c]
      PROVE  Matches(c)'
  BY <1>2, <1>3 DEF Matches, m, r
<1>4. CASE \E d \in Clients : FullConnect(d) \/ HeartbeatConnect(d)
  <2>1. PICK d \in Clients, n \in 1 .. FullPorts, k \in Nat \ {0} : Begin(d, n, k)
    BY <1>4, BeginLimits
  <2>2. CASE d = c
    <3>1. /\ c \in Beside \/ walk[r] = NoWalk
          /\ connector'[c].state = "none"
          /\ walk'[r] = walk[r]
          /\ former' = IF walk[r] = NoWalk THEN former ELSE former \cup {c}
      BY <1>1, <1>2, <2>1, <2>2 DEF Begin, MayCall, Replace, m, r
    <3>. QED BY <1>2, <3>1 DEF Matches, m, r
  <2>3. CASE d # c
    <3>1. /\ walk'[r] = walk[r] /\ walk'[m] = walk[m] /\ connector'[c] = connector[c]
          /\ c \in former' <=> c \in former
      BY <1>1, <1>2, <2>1, <2>3 DEF Begin, Replace
    <3>. QED BY <1>3, <3>1
  <2>. QED BY <2>2, <2>3
<1>5. CASE \E d \in Clients : RequestConnect(d)
  <2>1. PICK d \in Clients : RequestConnect(d)
    BY <1>5
  <2>2. connector' = connector /\ former' = former /\ walk'[m] = walk[m]
    BY <1>1, <1>2, <2>1 DEF RequestConnect
  <2>3. CASE d = c
    <3>1. connector[c].state = "down" /\ walk[r] = NoWalk
      BY <2>1, <2>3 DEF RequestConnect, r
    <3>. QED BY <1>2, <2>2, <3>1 DEF Matches, m, r
  <2>4. CASE d # c
    <3>1. walk'[r] = walk[r]
      BY <1>1, <1>2, <2>1, <2>4 DEF RequestConnect
    <3>. QED BY <1>3, <2>2, <3>1
  <2>. QED BY <2>3, <2>4
<1>6. ASSUME NEW w \in Walkers, walk[w] # NoWalk, Stop(w), connector'[c] = connector[c]
      PROVE  Matches(c)'
  <2>1. walk'[w] = NoWalk /\ \A v \in Walkers \ {w} : walk'[v] = walk[v]
    BY <1>2, <1>6 DEF Stop
  <2>2. CASE w = m
    <3>1. walk'[m] = NoWalk /\ walk'[r] = walk[r] /\ former' = former
      BY <1>1, <1>6, <2>1, <2>2 DEF Stop
    <3>. QED BY <1>2, <1>6, <3>1 DEF Matches, m, r
  <2>3. CASE w = r
    <3>1. walk'[r] = NoWalk /\ walk'[m] = walk[m] /\ c \notin former'
      BY <1>1, <1>6, <2>1, <2>3 DEF Stop
    <3>. QED BY <1>2, <1>6, <3>1 DEF Matches, m, r
  <2>4. CASE w # m /\ w # r
    <3>1. walk'[r] = walk[r] /\ walk'[m] = walk[m] /\ (c \in former' <=> c \in former)
      BY <1>1, <1>6, <2>1, <2>4 DEF Stop
    <3>. QED BY <1>3, <1>6, <3>1
  <2>. QED BY <2>2, <2>3, <2>4
<1>7. ASSUME NEW w \in Walkers, NEW p, NEW i, walk[w] # NoWalk, Goes(w, p, i)
      PROVE  Matches(c)'
  <2>1. /\ connector' = connector /\ former' = former
        /\ \A v \in Walkers \ {w} : walk'[v] = walk[v]
    BY <1>2, <1>7 DEF Goes
  <2>2. walk'[m] # NoWalk => walk[m] # NoWalk
    BY <1>1, <1>7, <2>1
  <2>3. walk[r] # NoWalk <=> walk'[r] # NoWalk
    <3>1. CASE w = r
      <4>1. walk[r] \in WalkType
        BY <1>2, <1>7, <3>1
      <4>2. walk'[r] = [walk[r] EXCEPT !.port = p, !.id = i]
        BY <1>2, <1>7, <3>1 DEF Goes
      <4>3. walk'[r].ports = walk[r].ports
        BY <4>1, <4>2 DEF WalkType
      <4>. QED BY <1>7, <3>1, <4>1, <4>3 DEF WalkType, NoWalk
    <3>2. CASE w # r
      BY <1>1, <2>1, <3>2
    <3>. QED BY <3>1, <3>2
  <2>. QED BY <1>2, <2>1, <2>2, <2>3 DEF Matches, m, r
<1>8. CASE \E w \in Walkers : Refused(w) \/ InUse(w) \/ AttemptFails(w)
  <2>1. PICK w \in Walkers : /\ walk[w] # NoWalk
                             /\ GiveUp(w) \/ \E p, i : Goes(w, p, i)
    BY <1>8 DEF Refused, InUse, AttemptFails, NextPort, NextId
  <2>. QED BY <1>6, <1>7, <2>1 DEF GiveUp
<1>9. CASE \E w \in Walkers : Succeed(w)
  <2>1. PICK w \in Walkers : Succeed(w)
    BY <1>9
  <2>2. /\ walk[w] # NoWalk /\ Stop(w)
        /\ walk'[w] = NoWalk /\ \A v \in Walkers \ {w} : walk'[v] = walk[v]
    BY <1>2, <2>1 DEF Succeed, Stop
  <2>3. CASE (w[2] = "request" /\ w[1] \in former) \/ w[1] # c
    <3>1. connector'[c] = connector[c]
      BY <1>1, <1>2, <2>1, <2>3 DEF Succeed, Serves
    <3>. QED BY <1>6, <2>2, <3>1
  <2>4. CASE w[1] = c /\ ~(w[2] = "request" /\ c \in former)
    <3>1. CASE w = m
      <4>1. connector[c].state = "none"
        BY <1>2, <2>2, <3>1 DEF Matches, m
      <4>2. walk[r] # NoWalk => c \in former
        BY <1>2, <4>1 DEF Matches, r
      <4>3. walk'[m] = NoWalk /\ walk'[r] = walk[r] /\ former' = former
        BY <1>1, <2>2, <3>1 DEF Stop
      <4>. QED BY <1>2, <4>2, <4>3 DEF Matches, m, r
    <3>2. CASE w = r
      <4>1. connector[c].state = "down"
        BY <1>1, <1>2, <2>2, <2>4, <3>2 DEF Matches, r
      <4>2. walk[m] = NoWalk
        BY <1>2, <4>1 DEF Matches, m
      <4>3. walk'[r] = NoWalk /\ walk'[m] = walk[m] /\ c \notin former'
        BY <1>1, <2>2, <3>2 DEF Stop
      <4>. QED BY <4>2, <4>3 DEF Matches, m, r
    <3>. QED BY <1>1, <2>4, <3>1, <3>2
  <2>. QED BY <2>3, <2>4
<1>10. ASSUME walk[m] = NoWalk, walk'[m] = NoWalk, walk'[r] = walk[r],
              c \in former' <=> c \in former, walk[r] # NoWalk => c \in former
       PROVE  Matches(c)'
  BY <1>2, <1>10 DEF Matches, m, r
<1>11. CASE \E d \in Clients : Disconnect(d) \/ SocketBreaks(d)
  <2>1. PICK d \in Clients : Disconnect(d) \/ SocketBreaks(d)
    BY <1>11
  <2>2. walk' = walk /\ former' = former
    BY <2>1 DEF Disconnect, SocketBreaks
  <2>3. CASE d = c
    <3>1. walk[m] = NoWalk /\ (walk[r] # NoWalk => c \in former)
      BY <1>2, <2>1, <2>3 DEF Disconnect, SocketBreaks, Connected, Matches, m, r
    <3>. QED BY <1>10, <2>2, <3>1
  <2>4. CASE d # c
    <3>1. connector'[c] = connector[c]
      BY <1>2, <2>1, <2>4 DEF Disconnect, SocketBreaks
    <3>. QED BY <1>3, <2>2, <3>1
  <2>. QED BY <2>3, <2>4
<1>12. CASE \E d \in Clients : Restart(d)
  <2>1. PICK d \in Clients : Restart(d)
    BY <1>12
  <2>2. CASE d = c
    <3>1. walk'[m] = NoWalk /\ walk'[r] = NoWalk /\ c \notin former'
      BY <1>1, <1>2, <2>1, <2>2 DEF Restart, m, r
    <3>. QED BY <3>1 DEF Matches, m, r
  <2>3. CASE d # c
    <3>1. /\ walk'[m] = walk[m] /\ walk'[r] = walk[r] /\ connector'[c] = connector[c]
          /\ c \in former' <=> c \in former
      BY <1>1, <1>2, <2>1, <2>3 DEF Restart
    <3>. QED BY <1>3, <3>1
  <2>. QED BY <2>2, <2>3
<1>13. ASSUME NEW broken \in SUBSET sessions, OrphansBreak(broken),
              \/ connector'[c] = connector[c]
              \/ connector[c].state = "up" /\ connector'[c].state = "down"
       PROVE  Matches(c)'
  <2>0. TypeOK
    BY DEF IInv
  <2>1. walk'[m] = walk[m]
    <3>1. SUFFICES ASSUME walk'[m] # walk[m] PROVE FALSE
      OBVIOUS
    <3>2. PICK s \in broken : m = Request(s.client)
      BY <1>1, <1>13, <2>0, <3>1, AskedAgain
    <3>3. s.client \in Clients
      BY <2>0 DEF TypeOK
    <3>. QED BY <1>1, <3>2, <3>3
  <2>2. walk'[r] = walk[r] \/ (walk[r] = NoWalk /\ c \in former')
    <3>1. SUFFICES ASSUME walk'[r] # walk[r] PROVE walk[r] = NoWalk /\ c \in former'
      OBVIOUS
    <3>2. PICK s \in broken :
             walk[r] = NoWalk /\ r = Request(s.client) /\ s.client \in former'
      BY <1>1, <1>13, <2>0, <3>1, AskedAgain
    <3>3. s.client = c
      BY <3>2 DEF r, Request
    <3>. QED BY <3>2, <3>3
  <2>3. c \in former => c \in former'
    BY <1>13, <2>0, AskedAgain
  <2>4. ASSUME c \in former', c \notin former
        PROVE  c \in Beside /\ walk'[r] # NoWalk
    <3>2. PICK s \in broken : /\ Orphan(s) /\ s.client = c
                              /\ walk'[Request(c)] = Walk(s.port, s.id, 1, FullIds)
      BY <1>13, <2>0, <2>4, AskedAgain
    <3>3. s \in Orphans(c) /\ s.port \in Ports /\ s.id \in Nat
      BY <2>0, <3>2 DEF Orphans, TypeOK, ClientIds
    <3>4. c \in Beside
      BY <3>3 DEF IInv, OrphanInv, Paid
    <3>5. Walk(s.port, s.id, 1, FullIds) \in WalkType
      BY <3>3, OnePortWalk
    <3>. QED BY <1>2, <3>2, <3>4, <3>5 DEF r
  <2>5. CASE c \in former'
    <3>1. c \in Beside /\ walk'[r] # NoWalk
      BY <1>2, <2>2, <2>4, <2>5 DEF Matches, r
    <3>2. walk'[m] # NoWalk => connector'[c].state = "none"
      BY <1>2, <1>13, <2>1 DEF Matches, m
    <3>. QED BY <2>5, <3>1, <3>2 DEF Matches, m, r
  <2>6. CASE c \notin former'
    BY <1>2, <1>13, <2>1, <2>2, <2>3, <2>6 DEF Matches, m, r
  <2>. QED BY <2>5, <2>6
<1>14. CASE \E s \in sessions : OrphanBreaks(s)
  BY <1>13, <1>14 DEF OrphanBreaks
<1>15. CASE \E p \in Ports : GatewayStops(p)
  <2>1. PICK p \in Ports : GatewayStops(p)
    BY <1>15
  <2>2. \/ connector'[c] = connector[c]
        \/ connector[c].state = "up" /\ connector'[c].state = "down"
    BY <1>2, <2>1 DEF GatewayStops, Connected
  <2>. QED BY <1>13, <2>1, <2>2 DEF GatewayStops
<1>16. CASE Expire \/ \E p \in Ports : GatewayStarts(p)
  BY <1>3, <1>16 DEF Expire, GatewayStarts
<1>. QED BY <1>4, <1>5, <1>8, <1>9, <1>11, <1>12, <1>14, <1>15, <1>16
         DEF Next, Acts, Begins, Attempt, Gateways

(* Every step keeps the walks what they are. *)
LEMMA WalkStep ==
    ASSUME IInv, Next
    PROVE  WalkInv'
<1>1. \A w \in Walkers : walk'[w] \in WalkType \cup {NoWalk}
  BY WalkKeepsType
<1>. QED BY <1>1, WalkFunction, WalkKeepsType, MatchStep DEF WalkInv

(* What a step leaves of the observation: it is free after the step. *)
LEMMA SteadyAfter ==
    ASSUME Next, NEW w \in Walkers, walk'[w] # NoWalk, NEW x \in steady'[w]
    PROVE  /\ Free(x[1], x[2])'
           /\ walk[w] = NoWalk => x \in Reach(walk'[w])
           /\ walk[w] # NoWalk => x \in steady[w]
           /\ walk[w] # NoWalk /\ walk'[w] # walk[w] => x # <<walk[w].port, walk[w].id>>
BY DEF Next, Observe

(* Every step keeps what is observed ahead of the walk. *)
LEMMA SteadyStep ==
    ASSUME IInv, Next
    PROVE  SteadyInv'
<1> SUFFICES ASSUME NEW w \in Walkers, walk'[w] # NoWalk, NEW x \in steady'[w]
             PROVE  /\ x \in Reach(walk'[w])
                    /\ Free(x[1], x[2])'
                    /\ \/ x[1] > walk'[w].port
                       \/ x[1] = walk'[w].port /\ x[2] >= walk'[w].id
  BY DEF SteadyInv
<1>1. Free(x[1], x[2])'
  BY SteadyAfter
<1>2. walk'[w] \in WalkType
  BY WalkKeepsType
<1>3. CASE walk[w] = NoWalk
  <2>1. Started(w)
    BY <1>3, WalkMoves DEF OnToPort, OnToId, Ended
  <2>2. x \in Reach(walk'[w])
    BY <1>3, SteadyAfter
  <2>. QED BY <1>1, <1>2, <2>1, <2>2 DEF Started, Reach, WalkType
<1>4. CASE walk[w] # NoWalk
  <2>1. x \in steady[w] /\ walk[w] \in WalkType
    BY <1>4, SteadyAfter DEF IInv, WalkInv
  <2>2. /\ x \in Reach(walk[w])
        /\ x[1] \in up
        /\ x[1] > walk[w].port \/ (x[1] = walk[w].port /\ x[2] >= walk[w].id)
    BY <1>4, <2>1 DEF IInv, SteadyInv, Free
  <2>3. x[1] \in Nat /\ x[2] \in Nat /\ x = <<x[1], x[2]>>
    BY <2>1, <2>2 DEF Reach, WalkType
  <2>4. CASE OnToPort(w)
    <3>1. /\ walk'[w].port = walk[w].port + 1 /\ walk'[w].id = walk[w].id0
          /\ Reach(walk'[w]) = Reach(walk[w])
      BY <2>1, <2>4 DEF OnToPort, Reach, WalkType
    <3>2. x[1] # walk[w].port
      BY <2>2, <2>4 DEF OnToPort
    <3>3. x[2] >= walk[w].id0
      BY <2>1, <2>2, <2>3 DEF Reach, WalkType
    <3>4. walk[w].port \in Nat /\ walk[w].id0 \in Nat
      BY <2>1 DEF WalkType
    <3>. QED BY <1>1, <2>2, <2>3, <3>1, <3>2, <3>3, <3>4
  <2>5. CASE OnToId(w)
    <3>1. /\ walk'[w].port = walk[w].port /\ walk'[w].id = walk[w].id + 1
          /\ Reach(walk'[w]) = Reach(walk[w])
      BY <2>1, <2>5 DEF OnToId, Reach, WalkType
    <3>2. walk[w].port \in Nat /\ walk[w].id \in Nat
      BY <2>1 DEF WalkType
    <3>3. x # <<walk[w].port, walk[w].id>>
      BY <1>4, <3>1, <3>2, SteadyAfter
    <3>. QED BY <1>1, <2>2, <2>3, <3>1, <3>2, <3>3
  <2>6. CASE walk'[w] = walk[w]
    BY <1>1, <2>2, <2>6
  <2>. QED BY <1>4, <2>4, <2>5, <2>6, WalkMoves DEF Started, Ended
<1>. QED BY <1>3, <1>4

(* Sessions that break are gone, or stay as stale ones. *)
LEMMA Broken ==
    ASSUME TypeOK, NEW broken \in SUBSET Session, Break(broken), NEW s \in sessions'
    PROVE  /\ s \in Session
           /\ s \in sessions \ broken \/ s.state = "stale"
<1>1. PICK kept \in SUBSET broken :
        sessions' = (sessions \ broken) \cup {[t EXCEPT !.state = "stale"] : t \in kept}
  BY DEF Break
<1>2. CASE s \in sessions \ broken
  BY <1>2 DEF TypeOK, Session, ClientIds
<1>3. CASE s \notin sessions \ broken
  <2>1. PICK t \in kept : s = [t EXCEPT !.state = "stale"]
    BY <1>1, <1>3
  <2>. QED BY <2>1 DEF Session
<1>. QED BY <1>2, <1>3

(* Every step keeps the types. *)
LEMMA TypeStep ==
    ASSUME IInv, Next
    PROVE  TypeOK'
<1>1. \A w \in Walkers : walk'[w] # NoWalk =>
         /\ <<walk'[w].port, walk'[w].id>> \in Reach(walk'[w])
         /\ steady'[w] \subseteq Reach(walk'[w])
  BY WalkKeepsType, SteadyStep DEF SteadyInv
<1>2. former' \subseteq {c \in Clients : walk'[Request(c)] # NoWalk}
  <2>1. former' \subseteq Clients
    <3>0. former \subseteq Clients /\ TypeOK
      BY DEF IInv, TypeOK
    <3>1. CASE \E d \in Clients : Begins(d)
      BY <3>0, <3>1 DEF Begins, FullConnect, HeartbeatConnect, RequestConnect, Begin, Replace
    <3>2. CASE \E w \in Walkers : Attempt(w) \/ AttemptFails(w)
      BY <3>0, <3>2 DEF Attempt, AttemptFails, Refused, InUse, Succeed, NextPort, NextId, Goes,
                        GiveUp, Stop
    <3>3. CASE \E d \in Clients : Disconnect(d) \/ SocketBreaks(d) \/ Restart(d)
      BY <3>0, <3>3 DEF Disconnect, SocketBreaks, Restart
    <3>4. ASSUME NEW broken \in SUBSET sessions, OrphansBreak(broken)
          PROVE  former' \subseteq Clients
      <4>1. \A c \in former' \ former : \E s \in sessions : s.client = c
        BY <3>0, <3>4, AskedAgain
      <4>. QED BY <3>0, <4>1 DEF TypeOK
    <3>5. CASE \E s \in sessions : OrphanBreaks(s)
      BY <3>4, <3>5 DEF OrphanBreaks
    <3>6. CASE \E p \in Ports : GatewayStops(p)
      BY <3>4, <3>6 DEF GatewayStops
    <3>7. CASE Expire \/ \E p \in Ports : GatewayStarts(p)
      BY <3>0, <3>7 DEF Expire, GatewayStarts
    <3>. QED BY <3>1, <3>2, <3>3, <3>5, <3>6, <3>7 DEF Next, Acts, Gateways
  <2>. QED BY <2>1, MatchStep DEF Matches
<1>3. up' \subseteq Ports /\ faults' \in 0 .. MaxFaults
  <2>0. up \subseteq Ports /\ faults \in 0 .. MaxFaults /\ MaxFaults \in Nat
    BY ConstantsAssumption DEF IInv, TypeOK
  <2>1. CASE \E d \in Clients : Begins(d)
    BY <2>0, <2>1 DEF Begins, FullConnect, HeartbeatConnect, RequestConnect, Begin, Replace
  <2>2. CASE \E w \in Walkers : Attempt(w) \/ AttemptFails(w)
    BY <2>0, <2>2 DEF Attempt, AttemptFails, Refused, InUse, Succeed, NextPort, NextId, Goes,
                      GiveUp, Fault
  <2>3. CASE \E d \in Clients : Disconnect(d) \/ SocketBreaks(d) \/ Restart(d)
    BY <2>0, <2>3 DEF Disconnect, SocketBreaks, Restart, Fault
  <2>4. CASE Gateways
    <3>0. CASE Expire
      BY <2>0, <3>0 DEF Expire
    <3>1. CASE \E s \in sessions : OrphanBreaks(s)
      <4>1. up' = up /\ faults < MaxFaults /\ faults' = faults + 1
        BY <3>1 DEF OrphanBreaks, Fault
      <4>. QED BY <2>0, <4>1
    <3>2. CASE \E p \in Ports : GatewayStops(p)
      BY <2>0, <3>2 DEF GatewayStops, Fault
    <3>3. CASE \E p \in Ports : GatewayStarts(p)
      BY <2>0, <3>3 DEF GatewayStarts
    <3>. QED BY <2>4, <3>0, <3>1, <3>2, <3>3 DEF Gateways
  <2>. QED BY <2>1, <2>2, <2>3, <2>4 DEF Next, Acts
<1>4. /\ client_id' \in [Clients -> Nat]
      /\ connector' \in [Clients -> [port : Ports, id : Nat, state : {"none", "down", "up"}]]
      /\ own' \in [Clients -> BOOLEAN]
  <2>0. /\ client_id \in [Clients -> Nat]
        /\ connector \in [Clients -> [port : Ports, id : Nat, state : {"none", "down", "up"}]]
        /\ own \in [Clients -> BOOLEAN]
        /\ ClientId \in [Clients -> Nat]
        /\ \A d \in Clients : Port[d] \in Ports
    <3>1. 1 \in 1 .. FullPorts
      BY ConstantsAssumption
    <3>. QED BY <3>1, ConstantsAssumption, FullReach DEF IInv, TypeOK, ClientIds
  <2>1. CASE \E d \in Clients : Begins(d)
    BY <2>0, <2>1 DEF Begins, FullConnect, HeartbeatConnect, RequestConnect, Begin, Replace,
                      FirstPort
  <2>2. CASE \E w \in Walkers : Refused(w) \/ InUse(w) \/ AttemptFails(w)
    BY <2>0, <2>2 DEF AttemptFails, Refused, InUse, NextPort, NextId, Goes, GiveUp
  <2>3. CASE \E w \in Walkers : Succeed(w)
    <3>1. PICK w \in Walkers : Succeed(w)
      BY <2>3
    <3>2. walk[w].id \in Nat /\ walk[w].port \in Ports /\ w[1] \in Clients
      BY <3>1 DEF Succeed, IInv, TypeOK, WalkInv, WalkType, Free, Walkers
    <3>3. CASE Serves(w)
      BY <2>0, <3>2, <3>3 DEF Serves
    <3>4. CASE UNCHANGED <<client_id, connector, own>>
      BY <2>0, <3>4
    <3>. QED BY <3>1, <3>3, <3>4 DEF Succeed
  <2>4. CASE \E d \in Clients : Disconnect(d) \/ SocketBreaks(d) \/ Restart(d)
    <3>1. CASE \E d \in Clients : Disconnect(d)
      BY <2>0, <3>1 DEF Disconnect
    <3>2. CASE \E d \in Clients : SocketBreaks(d)
      BY <2>0, <3>2 DEF SocketBreaks
    <3>3. CASE \E d \in Clients : Restart(d)
      BY <2>0, <3>3 DEF Restart
    <3>. QED BY <2>4, <3>1, <3>2, <3>3
  <2>5. CASE Gateways
    <3>1. CASE Expire \/ (\E s \in sessions : OrphanBreaks(s)) \/ \E p \in Ports : GatewayStarts(p)
      BY <2>0, <3>1 DEF OrphanBreaks, Expire, GatewayStarts
    <3>2. CASE \E p \in Ports : GatewayStops(p)
      BY <2>0, <3>2 DEF GatewayStops
    <3>. QED BY <2>5, <3>1, <3>2 DEF Gateways
  <2>. QED BY <2>1, <2>2, <2>3, <2>4, <2>5 DEF Next, Acts, Attempt
<1>5. sessions' \subseteq Session
  <2>0. sessions \subseteq Session /\ TypeOK
    BY DEF IInv, TypeOK, Session, ClientIds
  <2>1. CASE \E broken \in SUBSET Session : Break(broken)
    BY <2>0, <2>1, Broken
  <2>2. CASE \E d \in Clients : Begins(d) \/ Disconnect(d)
    BY <2>0, <2>2 DEF Begins, FullConnect, HeartbeatConnect, RequestConnect, Begin, Replace,
                      Disconnect
  <2>3. CASE \E w \in Walkers : Refused(w) \/ InUse(w) \/ AttemptFails(w)
    BY <2>0, <2>3 DEF AttemptFails, Refused, InUse, NextPort, NextId, Goes, GiveUp
  <2>4. CASE \E w \in Walkers : Succeed(w)
    <3>1. PICK w \in Walkers : Succeed(w)
      BY <2>4
    <3>2. walk[w].id \in Nat /\ walk[w].port \in Ports /\ w[1] \in Clients
      BY <3>1 DEF Succeed, IInv, TypeOK, WalkInv, WalkType, Free, Walkers
    <3>3. Won(w) \in Session
      BY <3>2 DEF Won, Session
    <3>. QED BY <2>0, <3>1, <3>3 DEF Succeed
  <2>5. CASE \E d \in Clients : SocketBreaks(d)
    <3>1. PICK d \in Clients : SocketBreaks(d)
      BY <2>5
    <3>2. {Live(d)} \in SUBSET Session /\ Break({Live(d)})
      BY <3>1 DEF SocketBreaks, Live, Session, IInv, TypeOK, ClientIds
    <3>. QED BY <2>1, <3>2
  <2>6. CASE \E d \in Clients : Restart(d)
    <3>1. PICK d \in Clients : Restart(d)
      BY <2>6
    <3>2. {s \in sessions : s.client = d /\ s.state = "live"} \in SUBSET Session
      BY <2>0
    <3>. QED BY <2>1, <3>1, <3>2 DEF Restart
  <2>7. CASE \E s \in sessions : OrphanBreaks(s)
    <3>1. PICK s \in sessions : OrphanBreaks(s)
      BY <2>7
    <3>2. {s} \in SUBSET Session /\ Break({s})
      BY <2>0, <3>1 DEF OrphanBreaks
    <3>. QED BY <2>1, <3>2
  <2>8. CASE Expire \/ \E p \in Ports : GatewayStops(p) \/ GatewayStarts(p)
    BY <2>0, <2>8 DEF Expire, GatewayStops, GatewayStarts
  <2>. QED BY <2>2, <2>3, <2>4, <2>5, <2>6, <2>7, <2>8 DEF Next, Acts, Attempt, Gateways
<1>. QED BY <1>1, <1>2, <1>3, <1>4, <1>5 DEF TypeOK, ClientIds, Session

(* A step after which a client has no other orphans, and owes no more than *)
(* what the step's faults pay for.                                         *)
LEMMA NoMoreOrphans ==
    ASSUME NEW c \in Clients, Paid(c), faults \in Nat, faults' \in Nat,
           Orphans(c)' \subseteq Orphans(c), Owed(c)' - Owed(c) <= faults' - faults
    PROVE  Paid(c)'
<1>1. Orphans(c)' \in SUBSET Orphans(c) /\ IsFiniteSet(Orphans(c))
  BY DEF Paid
<1>2. IsFiniteSet(Orphans(c)') /\ Cardinality(Orphans(c)') <= Cardinality(Orphans(c))
  BY <1>1, FS_Subset
<1>3. Cardinality(Orphans(c)) \in Nat /\ Cardinality(Orphans(c)') \in Nat
  BY <1>1, <1>2, FS_CardinalityType
<1>4. Owed(c) \in Nat /\ Owed(c)' \in Nat
  BY DEF Owed
<1>5. Cardinality(Orphans(c)') + Owed(c)' <= faults'
  BY <1>2, <1>3, <1>4 DEF Paid
<1>. QED BY <1>1, <1>2, <1>5 DEF Paid

(* A step that ends an orphan. *)
LEMMA OrphanEnds ==
    ASSUME NEW c \in Clients, Paid(c), faults \in Nat, faults' = faults + 1,
           NEW s \in Orphans(c), Orphans(c)' \subseteq Orphans(c) \ {s},
           Owed(c)' <= Owed(c) + 2
    PROVE  Paid(c)'
<1>1. IsFiniteSet(Orphans(c))
  BY DEF Paid
<1>2. /\ IsFiniteSet(Orphans(c) \ {s})
      /\ Cardinality(Orphans(c) \ {s}) = Cardinality(Orphans(c)) - 1
  BY <1>1, FS_RemoveElement
<1>3. /\ IsFiniteSet(Orphans(c)')
      /\ Cardinality(Orphans(c)') <= Cardinality(Orphans(c) \ {s})
  BY <1>2, FS_Subset
<1>4. Cardinality(Orphans(c)) \in Nat /\ Cardinality(Orphans(c)') \in Nat
  BY <1>1, <1>3, FS_CardinalityType
<1>5. Owed(c) \in Nat /\ Owed(c)' \in Nat
  BY DEF Owed
<1>6. Cardinality(Orphans(c)') + Owed(c)' <= faults'
  BY <1>2, <1>3, <1>4, <1>5 DEF Paid
<1>. QED BY <1>3, <1>6 DEF Paid

(* A step that makes an orphan of what was owed. *)
LEMMA OrphanBegins ==
    ASSUME NEW c \in Beside, Paid(c), faults \in Nat, faults' = faults,
           NEW x, Orphans(c)' \subseteq Orphans(c) \cup {x}, Owed(c)' + 1 <= Owed(c)
    PROVE  Paid(c)'
<1>1. IsFiniteSet(Orphans(c))
  BY DEF Paid
<1>2. /\ IsFiniteSet(Orphans(c) \cup {x})
      /\ Cardinality(Orphans(c)) \in Nat
      /\ Cardinality(Orphans(c) \cup {x}) \in Nat
      /\ Cardinality(Orphans(c) \cup {x}) <= Cardinality(Orphans(c)) + 1
  <2>1. Cardinality(Orphans(c)) \in Nat
    BY <1>1, FS_CardinalityType
  <2>. QED BY <1>1, <2>1, FS_AddElement
<1>3. /\ IsFiniteSet(Orphans(c)')
      /\ Cardinality(Orphans(c)') <= Cardinality(Orphans(c) \cup {x})
  BY <1>2, FS_Subset
<1>4. Cardinality(Orphans(c)') \in Nat
  BY <1>3, FS_CardinalityType
<1>5. Owed(c) \in Nat /\ Owed(c)' \in Nat
  BY DEF Owed
<1>6. Cardinality(Orphans(c)') + Owed(c)' <= faults'
  BY <1>2, <1>3, <1>4, <1>5 DEF Paid
<1>. QED BY <1>3, <1>6 DEF Paid

(* Every step keeps live sessions with their clients, but for the orphans  *)
(* that have been paid for.                                                *)
LEMMA OrphanStep ==
    ASSUME IInv, Next, NEW c \in Clients
    PROVE  Paid(c)'
<1>1. /\ Paid(c) /\ Matches(c)
      /\ sessions \subseteq Session
      /\ connector \in [Clients -> [port : Ports, id : Nat, state : {"none", "down", "up"}]]
      /\ faults \in Nat /\ faults' \in Nat
      /\ TypeOK
  <2>1. TypeOK /\ TypeOK' /\ Paid(c) /\ Matches(c)
    BY TypeStep DEF IInv, OrphanInv, WalkInv
  <2>2. faults' \in Nat
    BY <2>1, ConstantsAssumption DEF TypeOK
  <2>. QED BY <2>1, <2>2, ConstantsAssumption DEF TypeOK, Session, ClientIds
<1>2. ASSUME connector'[c] = connector[c],
             \A s \in sessions' : s.client = c /\ s.state = "live" => s \in sessions
      PROVE  Orphans(c)' \subseteq Orphans(c)
  BY <1>2 DEF Orphans, Orphan, Connected, Live
<1>3. ASSUME connector'[c] = connector[c], sessions' = sessions, faults' = faults,
             c \in former' => c \in former
      PROVE  Paid(c)'
  <2>1. Owed(c)' <= Owed(c) /\ Owed(c) \in Nat /\ Owed(c)' \in Nat
    BY <1>3 DEF Owed
  <2>2. Orphans(c)' \subseteq Orphans(c)
    BY <1>2, <1>3
  <2>3. Owed(c)' - Owed(c) <= faults' - faults
    BY <1>1, <1>3, <2>1
  <2>. QED BY <1>1, <2>2, <2>3, NoMoreOrphans
<1>4. CASE \E d \in Clients : FullConnect(d) \/ HeartbeatConnect(d)
  <2>1. PICK d \in Clients, n \in 1 .. FullPorts, k \in Nat \ {0} : Begin(d, n, k)
    BY <1>4, BeginLimits
  <2>2. CASE d = c
    <3>1. /\ connector[c].state # "up" /\ connector'[c].state = "none"
          /\ sessions' = sessions /\ faults' = faults
          /\ former' = IF walk[Request(c)] = NoWalk THEN former ELSE former \cup {c}
      BY <1>1, <2>1, <2>2 DEF Begin, Replace, Connected
    <3>2. Orphans(c)' \subseteq Orphans(c)
      BY <3>1 DEF Orphans, Orphan, Connected
    <3>3. c \in former' => c \in former \/ connector[c].state = "down"
      BY <1>1, <3>1 DEF Matches
    <3>4. Owed(c)' <= Owed(c) /\ Owed(c) \in Nat /\ Owed(c)' \in Nat
      BY <3>1, <3>3 DEF Owed
    <3>5. Owed(c)' - Owed(c) <= faults' - faults
      BY <1>1, <3>1, <3>4
    <3>. QED BY <1>1, <3>2, <3>5, NoMoreOrphans
  <2>3. CASE d # c
    <3>1. /\ connector'[c] = connector[c] /\ sessions' = sessions /\ faults' = faults
          /\ c \in former' => c \in former
      BY <1>1, <2>1, <2>3 DEF Begin, Replace
    <3>. QED BY <1>3, <3>1
  <2>. QED BY <2>2, <2>3
<1>5. CASE \E d \in Clients : RequestConnect(d)
  BY <1>3, <1>5 DEF RequestConnect
<1>6. CASE \E w \in Walkers : Refused(w) \/ InUse(w) \/ AttemptFails(w)
  <2>1. PICK w \in Walkers : Refused(w) \/ InUse(w) \/ AttemptFails(w)
    BY <1>6
  <2>2. /\ connector' = connector /\ sessions' = sessions /\ (c \in former' => c \in former)
        /\ faults' = faults \/ faults' = faults + 1
    BY <2>1 DEF Refused, InUse, AttemptFails, NextPort, NextId, Goes, GiveUp, Stop, Fault
  <2>3. Orphans(c)' \subseteq Orphans(c)
    BY <1>2, <2>2
  <2>4. Owed(c)' <= Owed(c) /\ Owed(c) \in Nat /\ Owed(c)' \in Nat
    BY <2>2 DEF Owed
  <2>5. Owed(c)' - Owed(c) <= faults' - faults
    BY <1>1, <2>2, <2>4
  <2>. QED BY <1>1, <2>3, <2>5, NoMoreOrphans
<1>7. CASE \E w \in Walkers : Succeed(w)
  <2>1. PICK w \in Walkers : Succeed(w)
    BY <1>7
  <2>2. /\ walk[w] # NoWalk /\ Stop(w) /\ sessions' = sessions \cup {Won(w)}
        /\ faults' = faults
        /\ w[1] \in Clients /\ (w = Itself(w[1]) \/ w = Request(w[1]))
        /\ Won(w).client = w[1]
    BY <2>1, WalkerKinds DEF Succeed, Won
  <2>3. c \in former' => c \in former
    BY <2>2 DEF Stop
  <2>4. CASE w[1] # c
    <3>1. connector'[c] = connector[c]
      BY <1>1, <2>1, <2>4 DEF Succeed, Serves
    <3>2. Orphans(c)' \subseteq Orphans(c)
      BY <1>2, <2>2, <2>4, <3>1
    <3>3. Owed(c)' <= Owed(c) /\ Owed(c) \in Nat /\ Owed(c)' \in Nat
      BY <2>3, <3>1 DEF Owed
    <3>4. Owed(c)' - Owed(c) <= faults' - faults
      BY <1>1, <2>2, <3>3
    <3>. QED BY <1>1, <3>2, <3>4, NoMoreOrphans
  <2>5. CASE w[1] = c /\ w[2] = "request" /\ c \in former
    <3>1. /\ connector' = connector /\ former' = former \ {c}
          /\ c \in Beside
      BY <1>1, <2>1, <2>2, <2>5 DEF Succeed, Stop, Matches
    <3>2. Orphans(c)' \subseteq Orphans(c) \cup {Won(w)}
      BY <2>2, <3>1 DEF Orphans, Orphan, Connected, Live
    <3>3. Owed(c)' + 1 <= Owed(c)
      BY <2>5, <3>1 DEF Owed
    <3>. QED BY <1>1, <2>2, <3>1, <3>2, <3>3, OrphanBegins
  <2>6. CASE w[1] = c /\ ~(w[2] = "request" /\ c \in former)
    <3>1. connector[c].state # "up"
      <4>1. walk[Itself(c)] # NoWalk \/ (walk[Request(c)] # NoWalk /\ c \notin former)
        BY <2>2, <2>6 DEF Itself, Request
      <4>. QED BY <1>1, <4>1 DEF Matches
    <3>2. connector'[c] = [port |-> walk[w].port, id |-> walk[w].id, state |-> "up"]
      BY <1>1, <2>1, <2>6 DEF Succeed, Serves
    <3>3. Connected(c)' /\ Won(w) = Live(c)'
      BY <2>6, <3>2 DEF Connected, Live, Won
    <3>4. Orphans(c)' \subseteq Orphans(c)
      BY <2>2, <3>1, <3>3 DEF Orphans, Orphan, Connected
    <3>5. Owed(c)' <= Owed(c) /\ Owed(c) \in Nat /\ Owed(c)' \in Nat
      BY <2>3, <3>2 DEF Owed
    <3>6. Owed(c)' - Owed(c) <= faults' - faults
      BY <1>1, <2>2, <3>5
    <3>. QED BY <1>1, <3>4, <3>6, NoMoreOrphans
  <2>. QED BY <2>4, <2>5, <2>6
<1>8. ASSUME NEW broken \in SUBSET Session, Break(broken)
      PROVE  \A s \in sessions' : s.state = "live" => s \in sessions /\ s \notin broken
  BY <1>1, <1>8, Broken
<1>9. CASE \E d \in Clients : Disconnect(d) \/ SocketBreaks(d)
  <2>1. PICK d \in Clients : Disconnect(d) \/ SocketBreaks(d)
    BY <1>9
  <2>2. {Live(d)} \in SUBSET Session
    BY <1>1 DEF Live, Session
  <2>3. \A s \in sessions' : s.state = "live" => s \in sessions /\ s # Live(d)
    <3>1. CASE Disconnect(d)
      BY <3>1 DEF Disconnect
    <3>2. CASE SocketBreaks(d)
      BY <1>8, <2>2, <3>2 DEF SocketBreaks
    <3>. QED BY <2>1, <3>1, <3>2
  <2>4. /\ former' = former
        /\ \/ connector'[d].state = "none" /\ faults' = faults
           \/ connector'[d].state = "down" /\ faults' = faults + 1
        /\ Connected(d)
        /\ \A e \in Clients \ {d} : connector'[e] = connector[e]
    BY <1>1, <2>1 DEF Disconnect, SocketBreaks, Fault
  <2>5. Orphans(c)' \subseteq Orphans(c)
    <3>1. CASE d = c
      BY <2>3, <2>4, <3>1 DEF Orphans, Orphan, Connected
    <3>2. CASE d # c
      BY <1>2, <2>3, <2>4, <3>2
    <3>. QED BY <3>1, <3>2
  <2>6. /\ Owed(c) \in Nat /\ Owed(c)' \in Nat
        /\ Owed(c)' <= Owed(c) \/ (faults' = faults + 1 /\ Owed(c)' <= Owed(c) + 1)
    BY <2>4 DEF Owed, Connected
  <2>7. Owed(c)' - Owed(c) <= faults' - faults
    BY <1>1, <2>4, <2>6
  <2>. QED BY <1>1, <2>5, <2>7, NoMoreOrphans
<1>10. CASE \E d \in Clients : Restart(d)
  <2>1. PICK d \in Clients : Restart(d)
    BY <1>10
  <2>2. {s \in sessions : s.client = d /\ s.state = "live"} \in SUBSET Session
    BY <1>1
  <2>3. \A s \in sessions' : s.state = "live" => s \in sessions /\ s.client # d
    BY <1>8, <2>1, <2>2 DEF Restart
  <2>4. /\ former' = former \ {d} /\ connector'[d].state = "none" /\ faults' = faults + 1
        /\ \A e \in Clients \ {d} : connector'[e] = connector[e]
    BY <1>1, <2>1 DEF Restart, Fault
  <2>5. Orphans(c)' \subseteq Orphans(c)
    <3>1. CASE d = c
      BY <2>3, <3>1 DEF Orphans, Orphan
    <3>2. CASE d # c
      BY <1>2, <2>3, <2>4, <3>2
    <3>. QED BY <3>1, <3>2
  <2>6. Owed(c)' <= Owed(c) /\ Owed(c) \in Nat /\ Owed(c)' \in Nat
    BY <2>4 DEF Owed
  <2>7. Owed(c)' - Owed(c) <= faults' - faults
    BY <1>1, <2>4, <2>6
  <2>. QED BY <1>1, <2>5, <2>7, NoMoreOrphans
<1>11. CASE \E s \in sessions : OrphanBreaks(s)
  <2>1. PICK s \in sessions : OrphanBreaks(s)
    BY <1>11
  <2>2. {s} \in SUBSET Session /\ Break({s}) /\ connector' = connector /\ faults' = faults + 1
    BY <1>1, <2>1 DEF OrphanBreaks, Fault
  <2>3. \A t \in sessions' : t.state = "live" => t \in sessions
    BY <1>8, <2>2
  <2>4. Orphans(c)' \subseteq Orphans(c)
    BY <1>2, <2>2, <2>3
  <2>5. Owed(c)' <= Owed(c) + 1 /\ Owed(c) \in Nat /\ Owed(c)' \in Nat
    BY <2>2 DEF Owed
  <2>6. Owed(c)' - Owed(c) <= faults' - faults
    BY <1>1, <2>2, <2>5
  <2>. QED BY <1>1, <2>4, <2>6, NoMoreOrphans
<1>12. CASE \E p \in Ports : GatewayStops(p)
  <2>1. PICK p \in Ports : GatewayStops(p)
    BY <1>12
  <2>2. /\ sessions' = {s \in sessions : s.port # p} /\ faults' = faults + 1
        /\ \/ connector'[c] = connector[c]
           \/ /\ Connected(c) /\ connector[c].port = p
              /\ connector'[c].state = "down"
    BY <1>1, <2>1 DEF GatewayStops, Fault
  <2>3. Orphans(c)' \subseteq Orphans(c)
    <3>1. CASE connector'[c] = connector[c]
      BY <1>2, <2>2, <3>1
    <3>2. CASE Connected(c) /\ connector[c].port = p /\ connector'[c].state = "down"
      BY <2>2, <3>2 DEF Orphans, Orphan, Connected, Live
    <3>. QED BY <2>2, <3>1, <3>2
  <2>4. Owed(c) \in Nat /\ Owed(c)' \in Nat /\ Owed(c)' <= Owed(c) + 2
    BY DEF Owed
  <2>5. CASE c \in former' /\ c \notin former
    <3>1. PICK s \in {t \in sessions : t.port = p} : Orphan(s) /\ s.client = c
      BY <1>1, <2>1, <2>5, AskedAgain DEF GatewayStops
    <3>2. s \in Orphans(c) /\ s \notin sessions'
      BY <2>2, <3>1 DEF Orphans
    <3>3. Orphans(c)' \subseteq Orphans(c) \ {s}
      BY <2>3, <3>2 DEF Orphans
    <3>. QED BY <1>1, <2>2, <2>4, <3>2, <3>3, OrphanEnds
  <2>6. CASE c \in former' => c \in former
    <3>1. Owed(c)' <= Owed(c) + 1
      BY <2>2, <2>6 DEF Owed, Connected
    <3>2. Owed(c)' - Owed(c) <= faults' - faults
      BY <1>1, <2>2, <2>4, <3>1
    <3>. QED BY <1>1, <2>3, <3>2, NoMoreOrphans
  <2>. QED BY <2>5, <2>6
<1>13. CASE Expire
  <2>1. /\ \A s \in sessions' : s \in sessions
        /\ connector' = connector /\ former' = former /\ faults' = faults
    BY <1>13 DEF Expire
  <2>2. Orphans(c)' \subseteq Orphans(c)
    BY <1>2, <2>1
  <2>3. Owed(c)' = Owed(c) /\ Owed(c) \in Nat
    BY <2>1 DEF Owed
  <2>4. Owed(c)' - Owed(c) <= faults' - faults
    BY <1>1, <2>1, <2>3
  <2>. QED BY <1>1, <2>2, <2>4, NoMoreOrphans
<1>14. CASE \E p \in Ports : GatewayStarts(p)
  BY <1>3, <1>14 DEF GatewayStarts
<1>. QED BY <1>4, <1>5, <1>6, <1>7, <1>9, <1>10, <1>11, <1>12, <1>13, <1>14
         DEF Next, Acts, Begins, Attempt, Gateways

(* Every step keeps the reported ids. *)
LEMMA ReportStep ==
    ASSUME IInv, Next
    PROVE  ReportedIdIsUsed'
<1> SUFFICES ASSUME NEW c \in Clients, Connected(c)', ~own'[c]
             PROVE  client_id'[c] = connector'[c].id
  BY DEF ReportedIdIsUsed
<1>1. /\ Connected(c) /\ ~own[c] => client_id[c] = connector[c].id
      /\ connector \in [Clients -> [port : Ports, id : Nat, state : {"none", "down", "up"}]]
      /\ client_id \in [Clients -> Nat]
      /\ own \in [Clients -> BOOLEAN]
  BY DEF IInv, TypeOK, ReportedIdIsUsed, ClientIds
<1>2. ASSUME connector'[c] = connector[c], client_id'[c] = client_id[c], own'[c] = own[c]
      PROVE  client_id'[c] = connector'[c].id
  BY <1>1, <1>2 DEF Connected
<1>3. CASE \E d \in Clients : FullConnect(d) \/ HeartbeatConnect(d)
  <2>1. PICK d \in Clients, n \in 1 .. FullPorts, k \in Nat \ {0} : Begin(d, n, k)
    BY <1>3, BeginLimits
  <2>2. d # c
    BY <1>1, <2>1 DEF Begin, Replace, Connected
  <2>. QED BY <1>1, <1>2, <2>1, <2>2 DEF Begin, Replace
<1>4. CASE \E d \in Clients : RequestConnect(d)
  BY <1>2, <1>4 DEF RequestConnect
<1>5. CASE \E w \in Walkers : Refused(w) \/ InUse(w) \/ AttemptFails(w)
  BY <1>2, <1>5 DEF Refused, InUse, AttemptFails, NextPort, NextId, Goes, GiveUp
<1>6. CASE \E w \in Walkers : Succeed(w)
  <2>1. PICK w \in Walkers : Succeed(w)
    BY <1>6
  <2>2. CASE UNCHANGED <<client_id, connector, own>>
    BY <1>2, <2>2
  <2>3. CASE Serves(w) /\ w[1] # c
    <3>1. /\ connector'[c] = connector[c] /\ client_id'[c] = client_id[c]
          /\ own'[c] = own[c]
      BY <1>1, <2>3, Zenon DEF Serves
    <3>. QED BY <1>2, <3>1
  <2>4. CASE Serves(w) /\ w[1] = c
    <3>1. own'[c] = (w[2] = "request")
      BY <1>1, <2>4, Zenon DEF Serves
    <3>2. w[2] # "request"
      BY <3>1
    <3>. QED BY <1>1, <2>4, <3>2 DEF Serves
  <2>. QED BY <2>1, <2>2, <2>3, <2>4 DEF Succeed
<1>7. CASE \E d \in Clients : Disconnect(d) \/ SocketBreaks(d) \/ Restart(d)
  <2>1. PICK d \in Clients : Disconnect(d) \/ SocketBreaks(d) \/ Restart(d)
    BY <1>7
  <2>2. d # c
    BY <1>1, <2>1 DEF Disconnect, SocketBreaks, Restart, Connected
  <2>3. /\ connector'[c] = connector[c] /\ client_id'[c] = client_id[c]
        /\ own'[c] = own[c]
    BY <1>1, <2>1, <2>2 DEF Disconnect, SocketBreaks, Restart
  <2>. QED BY <1>2, <2>3
<1>8. CASE Expire \/ (\E s \in sessions : OrphanBreaks(s)) \/ \E p \in Ports : GatewayStarts(p)
  BY <1>2, <1>8 DEF Expire, OrphanBreaks, GatewayStarts
<1>9. CASE \E p \in Ports : GatewayStops(p)
  <2>1. PICK p \in Ports : GatewayStops(p)
    BY <1>9
  <2>2. connector'[c] = connector[c]
    BY <1>1, <2>1 DEF GatewayStops, Connected
  <2>. QED BY <1>2, <2>1, <2>2 DEF GatewayStops
<1>. QED BY <1>3, <1>4, <1>5, <1>6, <1>7, <1>8, <1>9
         DEF Next, Acts, Begins, Attempt, Gateways

-----------------------------------------------------------------------------
(* Theorems *)

(* The invariant is inductive. *)
LEMMA Invariance == Spec => []IInv
<1>1. Init => IInv
  <2> SUFFICES ASSUME Init PROVE IInv
    OBVIOUS
  <2>1. \A c \in Clients : Port[c] \in Ports
    <3>1. 1 \in 1 .. FullPorts
      BY ConstantsAssumption
    <3>. QED BY <3>1, FullReach
  <2>2. \A c \in Clients : walk[Itself(c)] = NoWalk /\ walk[Request(c)] = NoWalk
    BY WalkerKinds DEF Init
  <2>3. \A w \in Walkers : walk[w] = NoWalk
    BY DEF Init
  <2>4. TypeOK
    BY <2>1, <2>3, ConstantsAssumption DEF Init, TypeOK, ClientIds
  <2>5. WalkInv /\ SteadyInv /\ ReportedIdIsUsed
    BY <2>2, <2>3 DEF Init, WalkInv, Matches, SteadyInv, ReportedIdIsUsed, Connected
  <2>6. ASSUME NEW c \in Clients PROVE Paid(c)
    <3>1. Orphans(c) = {}
      BY DEF Init, Orphans
    <3>2. Owed(c) = 0 /\ faults = 0
      BY DEF Init, Owed
    <3>. QED BY <3>1, <3>2, FS_EmptySet DEF Paid
  <2>. QED BY <2>4, <2>5, <2>6 DEF IInv, OrphanInv
<1>2. IInv /\ [Next]_vars => IInv'
  <2>1. CASE Next
    BY <2>1, TypeStep, WalkStep, SteadyStep, OrphanStep, ReportStep DEF IInv, OrphanInv
  <2>2. CASE UNCHANGED vars
    <3> SUFFICES ASSUME IInv PROVE IInv'
      BY <2>2
    <3>. USE <2>2 DEF vars, IInv
    <3>1. TypeOK'
      BY DEF TypeOK
    <3>2. WalkInv'
      BY DEF WalkInv, Matches
    <3>3. ReportedIdIsUsed'
      BY DEF ReportedIdIsUsed, Connected
    <3>4. SteadyInv'
      BY DEF SteadyInv, Free, Taken
    <3>5. ASSUME NEW c \in Clients PROVE Paid(c)'
      <4>1. Orphans(c)' = Orphans(c) /\ Owed(c)' = Owed(c)
        BY DEF Orphans, Orphan, Connected, Live, Owed
      <4>. QED BY <4>1 DEF OrphanInv, Paid
    <3>. QED BY <3>1, <3>2, <3>3, <3>4, <3>5 DEF OrphanInv
  <2>. QED BY <2>1, <2>2
<1>. QED BY <1>1, <1>2, PTL DEF Spec

(* Every variable always has its type. *)
THEOREM TypeCorrect == Spec => []TypeOK
BY Invariance, PTL DEF IInv

(* No live session is left without its client where calls come one after   *)
(* another.  Where requests run beside them, there are never more orphans  *)
(* than there have been faults.                                            *)
THEOREM SessionsAreKnown == Spec => []LiveSessionIsKnown
<1>1. IInv => LiveSessionIsKnown
  <2> SUFFICES ASSUME IInv, NEW c \in Clients
               PROVE  /\ c \notin Beside => Orphans(c) = {}
                      /\ Cardinality(Orphans(c)) <= faults
    BY DEF LiveSessionIsKnown
  <2>1. Paid(c) /\ faults \in Nat
    BY ConstantsAssumption DEF IInv, OrphanInv, TypeOK
  <2>2. Cardinality(Orphans(c)) \in Nat /\ Owed(c) \in Nat
    BY <2>1, FS_CardinalityType DEF Paid, Owed
  <2>. QED BY <2>1, <2>2 DEF Paid
<1>. QED BY <1>1, Invariance, PTL

(* The reported client id is the session's. *)
THEOREM ReportedIdsAreUsed == Spec => []ReportedIdIsUsed
BY Invariance, PTL DEF IInv

(* No walk passes over a port and id that are free all the time. *)
THEOREM NothingIsSkipped == Spec => NothingFreeIsSkipped
<1>1. IInv /\ [Next]_vars =>
        [ \A w \in Walkers : walk[w] # NoWalk /\ walk'[w] = NoWalk =>
            \A x \in steady[w] :
               \/ x[1] > walk[w].port
               \/ /\ Won(w) \in sessions' \ sessions
                  /\ x[1] = walk[w].port
                  /\ x[2] >= walk[w].id
               \/ faults' # faults ]_vars
  <2> SUFFICES ASSUME IInv, Next, NEW w \in Walkers, walk[w] # NoWalk, walk'[w] = NoWalk,
                      NEW x \in steady[w], ~(x[1] > walk[w].port), faults' = faults
               PROVE  /\ Won(w) \in sessions' \ sessions
                      /\ x[1] = walk[w].port
                      /\ x[2] >= walk[w].id
    OBVIOUS
  <2>1. /\ x \in Reach(walk[w])
        /\ Free(x[1], x[2])
        /\ x[1] = walk[w].port /\ x[2] >= walk[w].id
    BY DEF IInv, SteadyInv
  <2>2. walk[w] \in WalkType
    BY DEF IInv, WalkInv
  <2>3. Ended(w)
    <3>1. ~OnToPort(w)
      BY <2>2 DEF OnToPort, WalkType, NoWalk
    <3>2. ~OnToId(w)
      BY <2>2 DEF OnToId, WalkType, NoWalk
    <3>. QED BY <3>1, <3>2, WalkMoves DEF Started
  <2>4. walk[w].port \in up
    BY <2>1 DEF Free
  <2>5. ~(/\ Taken(walk[w].port, walk[w].id)
          /\ walk[w].id >= walk[w].id0 + walk[w].ids - 1)
    <3>1. SUFFICES ASSUME walk[w].id >= walk[w].id0 + walk[w].ids - 1
                   PROVE  ~Taken(walk[w].port, walk[w].id)
      OBVIOUS
    <3>2. x[2] = walk[w].id
      BY <2>1, <2>2, <3>1 DEF Reach, WalkType
    <3>. QED BY <2>1, <3>2 DEF Free
  <2>. QED BY <2>1, <2>3, <2>4, <2>5 DEF Ended
<1>. QED BY <1>1, Invariance, PTL DEF Spec, NothingFreeIsSkipped

=============================================================================
