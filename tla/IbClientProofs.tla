---------------------------- MODULE IbClientProofs ----------------------------
(***************************************************************************)
(* Theorems about one client with any number of tasks, connectors and open *)
(* sessions.                                                               *)
(***************************************************************************)

EXTENDS IbClient, TLAPS

-----------------------------------------------------------------------------
(* The inductive invariant *)

(* The variables' types. *)
Types ==
    /\ owner \in Owners
    /\ connector \in Connector \cup {NoConnector}
    /\ open \subseteq Connector
    /\ reported \in BOOLEAN
    /\ lock \in Task \cup {Nobody}
    /\ pc \in [Task -> States]
    /\ job \in [Task -> Jobs]
    /\ mine \in [Task -> Connector \cup {NoConnector}]
    /\ cancelled \subseteq Task

(* What a task was called for goes with where it is; it has a connector    *)
(* while it connects it or asks on it.                                     *)
JobInv ==
    /\ cancelled \subseteq {t \in Task : job[t] = "heartbeat"}
    /\ \A t \in Task :
          /\ job[t] = "none" => pc[t] = "idle"
          /\ job[t] = "heartbeat" => pc[t] \in {"wait", "connect"}
          /\ job[t] = "request" => pc[t] \in {"wait", "connect", "use", "own"}
          /\ job[t] = "disconnect" => pc[t] = "closing"
          /\ mine[t] = NoConnector <=> pc[t] \in {"idle", "wait", "closing"}

(* The task that connects has the lock, and a connector that is the        *)
(* client's, that no other task has, and that is not up yet.               *)
LockInv ==
    \A t \in Task :
        pc[t] = "connect" <=> lock = t

ConnectInv ==
    \A t \in Task :
        pc[t] = "connect" =>
            /\ mine[t] = connector
            /\ connector \notin open
            /\ ~reported
            /\ \A u \in Task : u # t => mine[u] # connector

(* What is reported is up. *)
ReportInv == reported => connector \in open

(* The Operator makes one call at a time, cancelled ones excepted; its     *)
(* requests are made on the client's connector, and no other is up.        *)
SerialInv ==
    owner = "operator" =>
        /\ \A t, u \in Task :
              pc[t] # "idle" /\ pc[u] # "idle" /\ t # u => t \in cancelled \/ u \in cancelled
        /\ \A t \in Task : pc[t] \in {"use", "own"} => mine[t] = connector
        /\ open \subseteq {connector}

IInv ==
    Types /\ JobInv /\ LockInv /\ ConnectInv /\ ReportInv /\ SerialInv

-----------------------------------------------------------------------------
(* What OnlyRequestsMakeOrphans and DisconnectIsFinal say of a step. *)
OrphanAct ==
    /\ connector' # connector => connector \notin open'
    /\ \A k \in open' \ open :
          k = connector' \/ \E t \in Task : pc[t] = "own" /\ mine[t] = k

FinalAct ==
    owner = "operator" =>
        /\ \A t \in Task : pc[t] = "closing" /\ pc'[t] = "idle" => open' = {}
        /\ connector = NoConnector => open' \subseteq open

-----------------------------------------------------------------------------
(* Lemmas *)

(* A new connector is nobody's and is not up. *)
LEMMA FreshIsUnused ==
    ASSUME Unused # {}
    PROVE  /\ Fresh \in Connector \ open /\ Fresh # connector
           /\ \A t \in Task : mine[t] # Fresh
BY DEF Unused, Fresh

(* None is not a connector, Nobody not a task. *)
LEMMA Nothing == NoConnector \notin Connector /\ Nobody \notin Task
BY ConstantsAssumption DEF NoConnector, Connector

(* Every step keeps the types. *)
LEMMA TypeStep ==
    ASSUME IInv, Next
    PROVE  Types'
<1>1. Types /\ JobInv
  BY DEF IInv
<1>. USE <1>1, Nothing DEF Types, JobInv, States, Jobs, client, tasks
<1>2. CASE \E k \in Connector : Drop(k)
  BY <1>2 DEF Drop, OnDisconnected
<1>3. ASSUME NEW t \in Task, Calls(t) \/ TakesLock(t) \/ Proceeds(t)
      PROVE  Types'
  <2>1. CASE CallRequest(t)
    BY <2>1 DEF CallRequest, Call, Connected
  <2>2. CASE CallHeartbeat(t)
    BY <2>2 DEF CallHeartbeat, Call, Connected
  <2>3. CASE CallDisconnect(t)
    BY <2>3 DEF CallDisconnect, Call
  <2>4. CASE Cancel(t)
    BY <2>4 DEF Cancel
  <2>5. CASE LockFindsConnected(t)
    BY <2>5 DEF LockFindsConnected, LockFree, Connected, Proceed, Finish
  <2>6. CASE LockAndConnect(t)
    BY <2>6, FreshIsUnused DEF LockAndConnect, LockFree, Connected
  <2>7. CASE Close(t)
    BY <2>7 DEF Close, LockFree, Finish
  <2>8. CASE ConnectOk(t)
    BY <2>8 DEF ConnectOk, Proceed, Finish
  <2>9. CASE ConnectFails(t)
    BY <2>9 DEF ConnectFails, Finish
  <2>10. CASE Unwind(t)
    BY <2>10 DEF Unwind, Finish, Release
  <2>11. CASE RequestReturns(t)
    BY <2>11 DEF RequestReturns, Finish
  <2>12. CASE RequestReconnects(t)
    BY <2>12 DEF RequestReconnects
  <2>13. CASE OwnConnectOk(t)
    BY <2>13 DEF OwnConnectOk
  <2>14. CASE OwnConnectFails(t)
    BY <2>14 DEF OwnConnectFails, Finish
  <2>15. CASE RequestFindsDrop(t)
    BY <2>15 DEF RequestFindsDrop, Finish, OnDisconnected
  <2>. QED BY <1>3, <2>1, <2>2, <2>3, <2>4, <2>5, <2>6, <2>7, <2>8, <2>9, <2>10, <2>11, <2>12, <2>13, <2>14, <2>15
           DEF Calls, TakesLock, Proceeds
<1>. QED BY <1>2, <1>3 DEF Next

(* Every step keeps jobs and places together. *)
LEMMA JobStep ==
    ASSUME IInv, Next
    PROVE  JobInv'
<1>1. Types /\ JobInv /\ ConnectInv
  BY DEF IInv
<1>. USE <1>1, Nothing DEF Types, JobInv, ConnectInv, client, tasks
<1>2. CASE \E k \in Connector : Drop(k)
  BY <1>2 DEF Drop, OnDisconnected
<1>3. ASSUME NEW t \in Task, Calls(t) \/ TakesLock(t) \/ Proceeds(t)
      PROVE  JobInv'
  <2>1. CASE CallRequest(t)
    BY <2>1 DEF CallRequest, Call, Connected
  <2>2. CASE CallHeartbeat(t)
    BY <2>2 DEF CallHeartbeat, Call, Connected
  <2>3. CASE CallDisconnect(t)
    BY <2>3 DEF CallDisconnect, Call
  <2>4. CASE Cancel(t)
    BY <2>4 DEF Cancel
  <2>5. CASE LockFindsConnected(t)
    BY <2>5 DEF LockFindsConnected, LockFree, Connected, Proceed, Finish
  <2>6. CASE LockAndConnect(t)
    BY <2>6, FreshIsUnused DEF LockAndConnect, LockFree, Connected
  <2>7. CASE Close(t)
    BY <2>7 DEF Close, LockFree, Finish
  <2>8. CASE ConnectOk(t)
    BY <2>8 DEF ConnectOk, Proceed, Finish
  <2>9. CASE ConnectFails(t)
    BY <2>9 DEF ConnectFails, Finish
  <2>10. CASE Unwind(t)
    BY <2>10 DEF Unwind, Finish, Release
  <2>11. CASE RequestReturns(t)
    BY <2>11 DEF RequestReturns, Finish
  <2>12. CASE RequestReconnects(t)
    BY <2>12 DEF RequestReconnects
  <2>13. CASE OwnConnectOk(t)
    BY <2>13 DEF OwnConnectOk
  <2>14. CASE OwnConnectFails(t)
    BY <2>14 DEF OwnConnectFails, Finish
  <2>15. CASE RequestFindsDrop(t)
    BY <2>15 DEF RequestFindsDrop, Finish, OnDisconnected
  <2>. QED BY <1>3, <2>1, <2>2, <2>3, <2>4, <2>5, <2>6, <2>7, <2>8, <2>9, <2>10, <2>11, <2>12, <2>13, <2>14, <2>15
           DEF Calls, TakesLock, Proceeds
<1>. QED BY <1>2, <1>3 DEF Next

(* Every step keeps the lock with the task that connects. *)
LEMMA LockStep ==
    ASSUME IInv, Next
    PROVE  LockInv'
<1>1. Types /\ JobInv /\ LockInv
  BY DEF IInv
<1>. USE <1>1, Nothing DEF Types, JobInv, LockInv, client, tasks
<1>2. CASE \E k \in Connector : Drop(k)
  BY <1>2 DEF Drop, OnDisconnected
<1>3. ASSUME NEW t \in Task, Calls(t) \/ TakesLock(t) \/ Proceeds(t)
      PROVE  LockInv'
  <2>1. CASE CallRequest(t)
    BY <2>1 DEF CallRequest, Call, Connected
  <2>2. CASE CallHeartbeat(t)
    BY <2>2 DEF CallHeartbeat, Call, Connected
  <2>3. CASE CallDisconnect(t)
    BY <2>3 DEF CallDisconnect, Call
  <2>4. CASE Cancel(t)
    BY <2>4 DEF Cancel
  <2>5. CASE LockFindsConnected(t)
    BY <2>5 DEF LockFindsConnected, LockFree, Connected, Proceed, Finish
  <2>6. CASE LockAndConnect(t)
    BY <2>6, FreshIsUnused DEF LockAndConnect, LockFree, Connected
  <2>7. CASE Close(t)
    BY <2>7 DEF Close, LockFree, Finish
  <2>8. CASE ConnectOk(t)
    BY <2>8 DEF ConnectOk, Proceed, Finish
  <2>9. CASE ConnectFails(t)
    BY <2>9 DEF ConnectFails, Finish
  <2>10. CASE Unwind(t)
    BY <2>10 DEF Unwind, Finish, Release
  <2>11. CASE RequestReturns(t)
    BY <2>11 DEF RequestReturns, Finish
  <2>12. CASE RequestReconnects(t)
    BY <2>12 DEF RequestReconnects
  <2>13. CASE OwnConnectOk(t)
    BY <2>13 DEF OwnConnectOk
  <2>14. CASE OwnConnectFails(t)
    BY <2>14 DEF OwnConnectFails, Finish
  <2>15. CASE RequestFindsDrop(t)
    BY <2>15 DEF RequestFindsDrop, Finish, OnDisconnected
  <2>. QED BY <1>3, <2>1, <2>2, <2>3, <2>4, <2>5, <2>6, <2>7, <2>8, <2>9, <2>10, <2>11, <2>12, <2>13, <2>14, <2>15
           DEF Calls, TakesLock, Proceeds
<1>. QED BY <1>2, <1>3 DEF Next

(* Every step keeps a connector that connects apart. *)
LEMMA ConnectStep ==
    ASSUME IInv, Next
    PROVE  ConnectInv'
<1>1. Types /\ JobInv /\ LockInv /\ ConnectInv
  BY DEF IInv
<1>. USE <1>1, Nothing DEF Types, JobInv, LockInv, ConnectInv, client, tasks
<1>2. CASE \E k \in Connector : Drop(k)
  BY <1>2 DEF Drop, OnDisconnected
<1>3. ASSUME NEW t \in Task, Calls(t) \/ TakesLock(t) \/ Proceeds(t)
      PROVE  ConnectInv'
  <2>1. CASE CallRequest(t)
    BY <2>1 DEF CallRequest, Call, Connected
  <2>2. CASE CallHeartbeat(t)
    BY <2>2 DEF CallHeartbeat, Call, Connected
  <2>3. CASE CallDisconnect(t)
    BY <2>3 DEF CallDisconnect, Call
  <2>4. CASE Cancel(t)
    BY <2>4 DEF Cancel
  <2>5. CASE LockFindsConnected(t)
    BY <2>5 DEF LockFindsConnected, LockFree, Connected, Proceed, Finish
  <2>6. CASE LockAndConnect(t)
    BY <2>6, FreshIsUnused DEF LockAndConnect, LockFree, Connected
  <2>7. CASE Close(t)
    BY <2>7 DEF Close, LockFree, Finish
  <2>8. CASE ConnectOk(t)
    BY <2>8 DEF ConnectOk, Proceed, Finish
  <2>9. CASE ConnectFails(t)
    BY <2>9 DEF ConnectFails, Finish
  <2>10. CASE Unwind(t)
    BY <2>10 DEF Unwind, Finish, Release
  <2>11. CASE RequestReturns(t)
    BY <2>11 DEF RequestReturns, Finish
  <2>12. CASE RequestReconnects(t)
    BY <2>12 DEF RequestReconnects
  <2>13. CASE OwnConnectOk(t)
    BY <2>13 DEF OwnConnectOk
  <2>14. CASE OwnConnectFails(t)
    BY <2>14 DEF OwnConnectFails, Finish
  <2>15. CASE RequestFindsDrop(t)
    BY <2>15 DEF RequestFindsDrop, Finish, OnDisconnected
  <2>. QED BY <1>3, <2>1, <2>2, <2>3, <2>4, <2>5, <2>6, <2>7, <2>8, <2>9, <2>10, <2>11, <2>12, <2>13, <2>14, <2>15
           DEF Calls, TakesLock, Proceeds
<1>. QED BY <1>2, <1>3 DEF Next

(* Every step keeps the report true. *)
LEMMA ReportStep ==
    ASSUME IInv, Next
    PROVE  ReportInv'
<1>1. Types /\ JobInv /\ LockInv /\ ConnectInv /\ ReportInv
  BY DEF IInv
<1>. USE <1>1, Nothing DEF Types, JobInv, ConnectInv, ReportInv, client, tasks
<1>2. CASE \E k \in Connector : Drop(k)
  BY <1>2 DEF Drop, OnDisconnected
<1>3. ASSUME NEW t \in Task, Calls(t) \/ TakesLock(t) \/ Proceeds(t)
      PROVE  ReportInv'
  <2>1. CASE CallRequest(t)
    BY <2>1 DEF CallRequest, Call, Connected
  <2>2. CASE CallHeartbeat(t)
    BY <2>2 DEF CallHeartbeat, Call, Connected
  <2>3. CASE CallDisconnect(t)
    BY <2>3 DEF CallDisconnect, Call
  <2>4. CASE Cancel(t)
    BY <2>4 DEF Cancel
  <2>5. CASE LockFindsConnected(t)
    BY <2>5 DEF LockFindsConnected, LockFree, Connected, Proceed, Finish
  <2>6. CASE LockAndConnect(t)
    BY <2>6, FreshIsUnused DEF LockAndConnect, LockFree, Connected
  <2>7. CASE Close(t)
    BY <2>7 DEF Close, LockFree, Finish
  <2>8. CASE ConnectOk(t)
    BY <2>8 DEF ConnectOk, Proceed, Finish
  <2>9. CASE ConnectFails(t)
    BY <2>9 DEF ConnectFails, Finish
  <2>10. CASE Unwind(t)
    BY <2>10 DEF Unwind, Finish, Release
  <2>11. CASE RequestReturns(t)
    BY <2>11 DEF RequestReturns, Finish
  <2>12. CASE RequestReconnects(t)
    BY <2>12 DEF RequestReconnects
  <2>13. CASE OwnConnectOk(t)
    BY <2>13 DEF OwnConnectOk
  <2>14. CASE OwnConnectFails(t)
    BY <2>14 DEF OwnConnectFails, Finish
  <2>15. CASE RequestFindsDrop(t)
    BY <2>15 DEF RequestFindsDrop, Finish, OnDisconnected
  <2>. QED BY <1>3, <2>1, <2>2, <2>3, <2>4, <2>5, <2>6, <2>7, <2>8, <2>9, <2>10, <2>11, <2>12, <2>13, <2>14, <2>15
           DEF Calls, TakesLock, Proceeds
<1>. QED BY <1>2, <1>3 DEF Next

(* Every step of an Operator's client keeps its one connector. *)
LEMMA SerialStep ==
    ASSUME IInv, Next
    PROVE  SerialInv'
<1>1. Types /\ JobInv /\ LockInv /\ ConnectInv /\ SerialInv
  BY DEF IInv
<1>. USE <1>1, Nothing DEF Types, Jobs, JobInv, LockInv, ConnectInv, SerialInv, client, tasks
<1>2. CASE \E k \in Connector : Drop(k)
  BY <1>2 DEF Drop, OnDisconnected
<1>3. ASSUME NEW t \in Task, Calls(t) \/ TakesLock(t) \/ Proceeds(t)
      PROVE  SerialInv'
  <2>1. CASE CallRequest(t)
    BY <2>1 DEF CallRequest, Call, Excludes, Connected
  <2>2. CASE CallHeartbeat(t)
    BY <2>2 DEF CallHeartbeat, Call, Excludes, Connected
  <2>3. CASE CallDisconnect(t)
    BY <2>3 DEF CallDisconnect, Call, Excludes
  <2>4. CASE Cancel(t)
    BY <2>4 DEF Cancel
  <2>5. CASE LockFindsConnected(t)
    BY <2>5 DEF LockFindsConnected, LockFree, Connected, Proceed, Finish
  <2>6. CASE LockAndConnect(t)
    BY <2>6, FreshIsUnused DEF LockAndConnect, LockFree, Connected
  <2>7. CASE Close(t)
    BY <2>7 DEF Close, LockFree, Finish
  <2>8. CASE ConnectOk(t)
    BY <2>8 DEF ConnectOk, Proceed, Finish
  <2>9. CASE ConnectFails(t)
    BY <2>9 DEF ConnectFails, Finish
  <2>10. CASE Unwind(t)
    BY <2>10 DEF Unwind, Finish, Release
  <2>11. CASE RequestReturns(t)
    BY <2>11 DEF RequestReturns, Finish
  <2>12. CASE RequestReconnects(t)
    BY <2>12 DEF RequestReconnects
  <2>13. CASE OwnConnectOk(t)
    BY <2>13 DEF OwnConnectOk
  <2>14. CASE OwnConnectFails(t)
    BY <2>14 DEF OwnConnectFails, Finish
  <2>15. CASE RequestFindsDrop(t)
    BY <2>15 DEF RequestFindsDrop, Finish, OnDisconnected
  <2>. QED BY <1>3, <2>1, <2>2, <2>3, <2>4, <2>5, <2>6, <2>7, <2>8, <2>9, <2>10, <2>11, <2>12, <2>13, <2>14, <2>15
           DEF Calls, TakesLock, Proceeds
<1>. QED BY <1>2, <1>3 DEF Next

(* Only a request opens a session beside the client's, and the client lets   *)
(* go of no open one.                                                       *)
LEMMA OrphanStep ==
    ASSUME IInv, Next
    PROVE  OrphanAct
<1>1. Types /\ JobInv /\ ConnectInv
  BY DEF IInv
<1>. USE <1>1, Nothing DEF Types, JobInv, ConnectInv, OrphanAct, client, tasks
<1>2. CASE \E k \in Connector : Drop(k)
  BY <1>2 DEF Drop, OnDisconnected
<1>3. ASSUME NEW t \in Task, Calls(t) \/ TakesLock(t) \/ Proceeds(t)
      PROVE  OrphanAct
  <2>1. CASE CallRequest(t)
    BY <2>1 DEF CallRequest, Call, Connected
  <2>2. CASE CallHeartbeat(t)
    BY <2>2 DEF CallHeartbeat, Call, Connected
  <2>3. CASE CallDisconnect(t)
    BY <2>3 DEF CallDisconnect, Call
  <2>4. CASE Cancel(t)
    BY <2>4 DEF Cancel
  <2>5. CASE LockFindsConnected(t)
    BY <2>5 DEF LockFindsConnected, LockFree, Connected, Proceed, Finish
  <2>6. CASE LockAndConnect(t)
    BY <2>6, FreshIsUnused DEF LockAndConnect, LockFree, Connected
  <2>7. CASE Close(t)
    BY <2>7 DEF Close, LockFree, Finish
  <2>8. CASE ConnectOk(t)
    BY <2>8 DEF ConnectOk, Proceed, Finish
  <2>9. CASE ConnectFails(t)
    BY <2>9 DEF ConnectFails, Finish
  <2>10. CASE Unwind(t)
    BY <2>10 DEF Unwind, Finish, Release
  <2>11. CASE RequestReturns(t)
    BY <2>11 DEF RequestReturns, Finish
  <2>12. CASE RequestReconnects(t)
    BY <2>12 DEF RequestReconnects
  <2>13. CASE OwnConnectOk(t)
    BY <2>13 DEF OwnConnectOk
  <2>14. CASE OwnConnectFails(t)
    BY <2>14 DEF OwnConnectFails, Finish
  <2>15. CASE RequestFindsDrop(t)
    BY <2>15 DEF RequestFindsDrop, Finish, OnDisconnected
  <2>. QED BY <1>3, <2>1, <2>2, <2>3, <2>4, <2>5, <2>6, <2>7, <2>8, <2>9, <2>10, <2>11, <2>12, <2>13, <2>14, <2>15
           DEF Calls, TakesLock, Proceeds
<1>. QED BY <1>2, <1>3 DEF Next

(* Nothing is open after the Operator's disconnect, nor opened without a   *)
(* connector.                                                               *)
LEMMA FinalStep ==
    ASSUME IInv, Next
    PROVE  FinalAct
<1>1. Types /\ JobInv /\ ConnectInv /\ SerialInv
  BY DEF IInv
<1>. USE <1>1, Nothing DEF Types, JobInv, ConnectInv, SerialInv, FinalAct, client, tasks
<1>2. CASE \E k \in Connector : Drop(k)
  BY <1>2 DEF Drop, OnDisconnected
<1>3. ASSUME NEW t \in Task, Calls(t) \/ TakesLock(t) \/ Proceeds(t)
      PROVE  FinalAct
  <2>1. CASE CallRequest(t)
    BY <2>1 DEF CallRequest, Call, Connected
  <2>2. CASE CallHeartbeat(t)
    BY <2>2 DEF CallHeartbeat, Call, Connected
  <2>3. CASE CallDisconnect(t)
    BY <2>3 DEF CallDisconnect, Call
  <2>4. CASE Cancel(t)
    BY <2>4 DEF Cancel
  <2>5. CASE LockFindsConnected(t)
    BY <2>5 DEF LockFindsConnected, LockFree, Connected, Proceed, Finish
  <2>6. CASE LockAndConnect(t)
    BY <2>6, FreshIsUnused DEF LockAndConnect, LockFree, Connected
  <2>7. CASE Close(t)
    BY <2>7 DEF Close, LockFree, Finish
  <2>8. CASE ConnectOk(t)
    BY <2>8 DEF ConnectOk, Proceed, Finish
  <2>9. CASE ConnectFails(t)
    BY <2>9 DEF ConnectFails, Finish
  <2>10. CASE Unwind(t)
    BY <2>10 DEF Unwind, Finish, Release
  <2>11. CASE RequestReturns(t)
    BY <2>11 DEF RequestReturns, Finish
  <2>12. CASE RequestReconnects(t)
    BY <2>12 DEF RequestReconnects
  <2>13. CASE OwnConnectOk(t)
    BY <2>13 DEF OwnConnectOk
  <2>14. CASE OwnConnectFails(t)
    BY <2>14 DEF OwnConnectFails, Finish
  <2>15. CASE RequestFindsDrop(t)
    BY <2>15 DEF RequestFindsDrop, Finish, OnDisconnected
  <2>. QED BY <1>3, <2>1, <2>2, <2>3, <2>4, <2>5, <2>6, <2>7, <2>8, <2>9, <2>10, <2>11, <2>12, <2>13, <2>14, <2>15
           DEF Calls, TakesLock, Proceeds
<1>. QED BY <1>2, <1>3 DEF Next

(* The invariant is inductive. *)
LEMMA Invariance == Spec => []IInv
<1>1. Init => IInv
  BY Nothing DEF Init, IInv, Types, JobInv, LockInv, ConnectInv, ReportInv, SerialInv, States, Jobs
<1>2. IInv /\ [Next]_vars => IInv'
  <2>1. CASE Next
    BY <2>1, TypeStep, JobStep, LockStep, ConnectStep, ReportStep, SerialStep DEF IInv
  <2>2. CASE UNCHANGED vars
    BY <2>2 DEF vars, client, tasks, IInv, Types, JobInv, LockInv, ConnectInv, ReportInv, SerialInv
  <2>. QED BY <2>1, <2>2
<1>. QED BY <1>1, <1>2, PTL DEF Spec

-----------------------------------------------------------------------------
(* Theorems *)

(* Every variable always has its type, and the lock is held by a task that *)
(* connects.                                                               *)
THEOREM TypeCorrect == Spec => []TypeOK
<1>1. IInv => TypeOK
  BY DEF IInv, Types, JobInv, LockInv, TypeOK
<1>. QED BY <1>1, Invariance, PTL

(* The client of a serial caller never has a second session. *)
THEOREM NoSecondSession == Spec => []SerialCallerHasNoOrphan
<1>1. IInv => SerialCallerHasNoOrphan
  BY DEF IInv, SerialInv, SerialCallerHasNoOrphan
<1>. QED BY <1>1, Invariance, PTL

(* What is reported connected is connected. *)
THEOREM ReportIsTrue == Spec => []ReportedIsUp
<1>1. IInv => ReportedIsUp
  BY DEF IInv, ReportInv, ReportedIsUp, Connected
<1>. QED BY <1>1, Invariance, PTL

(* A session beside the client's is only ever opened inside of a request,  *)
(* and the client lets go of no connector whose session is up.             *)
THEOREM OrphansAreRequests == Spec => OnlyRequestsMakeOrphans
<1>1. IInv /\ [Next]_vars => [OrphanAct]_vars
  BY OrphanStep
<1>. QED BY <1>1, Invariance, PTL DEF Spec, OnlyRequestsMakeOrphans, OrphanAct

(* In the Operator, when disconnect returns nothing is connected, and      *)
(* nothing that was cancelled before it connects afterwards.               *)
THEOREM DisconnectsAreFinal == Spec => DisconnectIsFinal
<1>1. IInv /\ [Next]_vars => [FinalAct]_vars
  BY FinalStep
<1>. QED BY <1>1, Invariance, PTL DEF Spec, DisconnectIsFinal, FinalAct

=============================================================================
