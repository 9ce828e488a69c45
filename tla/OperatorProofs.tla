---------------------------- MODULE OperatorProofs ----------------------------
(***************************************************************************)
(* Theorems about the IB Operator, for every set of consumer names, every  *)
(* choice of faults and every value of the bounds: first its command       *)
(* consumer (OperatorRpc) and what that implements (CommandService), then  *)
(* its two threads and the health they publish (OperatorHeartbeat).        *)
(***************************************************************************)

EXTENDS OperatorRpc, OperatorHeartbeat, TLAPS

-----------------------------------------------------------------------------
(* The inductive invariant *)

Holding == {"parse", "execute", "reply", "ack"}

(* What the loop holds is an entry of the stream; there is an outcome to   *)
(* write at "reply"; only a garbled or an answered entry is acknowledged.  *)
HandInv ==
    /\ step \in Holding => inHand \in 1..Len(stream)
    /\ step = "reply" => verdict \in Outcomes
    /\ step = "ack" => stream[inHand] = "garbled" \/ answers[inHand] # {}

(* A pending entry has been delivered; one that is about to be handled is  *)
(* pending for this process, unless the group has been lost since.         *)
PendingInv ==
    /\ \A i \in Entry : pending[i] # Nobody => i <= delivered
    /\ step = "parse" => delivered = NoGroup \/ pending[inHand] = consumer

(* Entry i may be executed another time without a further fault.           *)
Executable(i) ==
    \/ delivered < i
    \/ /\ pending[i] # Nobody
       /\ ~(inHand = i /\ step \in {"execute", "reply", "ack"})

(* Executions are paid for by faults: one that may be repeated is paid for *)
(* already, and the loss of the group pays for the entry in hand as well.  *)
CountInv ==
    \A i \in Entry :
        /\ executions[i] <= 1 + failures
        /\ Executable(i) => executions[i] <= failures
        /\ step = "parse" /\ inHand = i /\ delivered < i
              => executions[i] < failures

(* A process that runs has a group, unless the group was lost; an entry    *)
(* that is executed or answered is still pending for it.                   *)
HeldInv ==
    /\ step # "down" /\ "group" \notin failed => delivered # NoGroup
    /\ step \in {"execute", "reply"} => delivered = NoGroup \/ pending[inHand] = consumer

(* Nothing happened that makes the consumer handle an answered entry again.*)
Intact == failed \cap {"ack", "write", "group", "crash"} = {}

(* Then an answered entry is out of every PEL, or is being acknowledged,   *)
(* and one that is on its way to an answer has none yet.                   *)
FinalInv ==
    Intact =>
        /\ step \in {"parse", "execute", "reply"} => answers[inHand] = {}
        /\ \A i \in Entry : answers[i] # {} =>
              /\ i <= delivered
              /\ pending[i] = Nobody \/ (step = "ack" /\ inHand = i)
              /\ \A a, b \in answers[i] : a = b

(* No read failed and the group was not lost. *)
Quiet == failed \cap {"read", "group"} = {}

(* Then new entries are read only when this process's PEL is empty, and    *)
(* what comes before the entry in hand is answered or somebody else's.     *)
OrderInv ==
    Quiet =>
        /\ step = "fresh" => MyPending = {}
        /\ step = "parse" =>
              \A i \in Entry :
                  i < inHand /\ stream[i] = "rpc"
                      => answers[i] # {} \/ pending[i] \notin {Nobody, consumer}

(* What is executed or answered parses, and its outcome has been earned.   *)
EarnedInv ==
    /\ step \in {"execute", "reply"} => stream[inHand] = "rpc"
    /\ step = "execute" => executions[inHand] > 0
    /\ step = "reply" => Service!Earned(inHand, verdict)

LostInv == HandInv /\ PendingInv /\ NoCommandLost

IInv == TypeOK /\ LostInv /\ CountInv

-----------------------------------------------------------------------------
(* Lemmas about the helpers *)

(* A fault is counted, and changes neither the bounds' types nor the stops.*)
LEMMA FaultCounted ==
    ASSUME NEW kind, TypeOK, Fault(kind)
    PROVE  /\ failures' = failures + 1
           /\ failures' \in 0..MaxFailures
           /\ failed' \subseteq Faults
           /\ stops' = stops
<1>1. failed' = failed \cup {kind} /\ kind \in Faults /\ failed \subseteq Faults
  BY DEF Fault, TypeOK
<1>2. failures' = failures + 1 /\ failures < MaxFailures /\ stops' = stops
  BY DEF Fault
<1>3. failures \in 0..MaxFailures /\ MaxFailures \in Nat
  BY ConstantsAssumption DEF TypeOK
<1> QED
  BY <1>1, <1>2, <1>3

(* With nothing in hand the loop's variables have their types. *)
LEMMA DropTypes ==
    ASSUME NEW s \in Steps, Drop(s)
    PROVE  /\ step' \in Steps
           /\ inHand' \in Entry \cup {NoEntry}
           /\ verdict' \in Outcomes \cup {NoOutcome}
  BY DEF Drop

(* A delivery moves one entry of the stream to this process's PEL.         *)
LEMMA Delivery ==
    ASSUME TypeOK, Deliver
    PROVE  /\ Position \in 0..(Len(stream) - 1)
           /\ Position + 1 \in Entry
           /\ delivered' = Position + 1
           /\ delivered <= Position
           /\ pending' = [pending EXCEPT ![Position + 1] = consumer]
           /\ pending' \in [Entry -> Consumer \cup {Nobody}]
<1>1. Position \in 0..(Len(stream) - 1) /\ delivered <= Position
  BY DEF Deliver, Position, GroupExists, NoGroup, TypeOK
<1>2. Position + 1 \in Entry
  BY <1>1, ConstantsAssumption DEF Entry, TypeOK
<1> QED
  BY <1>1, <1>2 DEF Deliver, TypeOK

(* The entries of this process's PEL are delivered ones of the stream. *)
LEMMA PendingIsDelivered ==
    ASSUME TypeOK, PendingInv, NEW i \in MyPending
    PROVE  /\ i \in Entry /\ i \in 1..Len(stream)
           /\ pending[i] = consumer /\ pending[i] # Nobody
           /\ i <= delivered /\ delivered # NoGroup
<1>1. i \in Entry /\ pending[i] = consumer
  BY DEF MyPending
<1>2. pending[i] # Nobody
  BY <1>1, ConstantsAssumption DEF TypeOK
<1>3. i <= delivered
  BY <1>1, <1>2 DEF PendingInv
<1> QED
  BY <1>1, <1>2, <1>3, ConstantsAssumption DEF TypeOK, Entry, NoGroup

(* Creating the group again, if there is none, moves it to the start. *)
LEMMA GroupCreated ==
    ASSUME TypeOK, delivered' = IF GroupExists THEN delivered ELSE 0
    PROVE  /\ delivered' \in 0..Len(stream)
           /\ delivered <= delivered'
           /\ delivered # NoGroup => delivered' = delivered
           /\ delivered # delivered' => delivered' = 0
  BY DEF TypeOK, GroupExists, NoGroup

(* Positions and entries are integers. *)
LEMMA Positions ==
    ASSUME TypeOK
    PROVE  /\ delivered \in Int /\ -1 <= delivered /\ delivered <= Len(stream)
           /\ Len(stream) \in Nat /\ Len(stream) <= MaxCommands
           /\ \A i \in Entry : i \in Int /\ 1 <= i
           /\ \A i \in Entry : executions[i] \in Nat
           /\ failures \in Nat
           /\ NoGroup = -1
  BY ConstantsAssumption DEF TypeOK, NoGroup, Entry

(* A delivery changes nothing about the entries before the new one.        *)
LEMMA EarlierStay ==
    ASSUME TypeOK, Deliver
    PROVE  /\ pending'[delivered'] # Nobody
           /\ \A i \in 1..delivered' : i # delivered' =>
                 /\ i \in 1..delivered /\ i \in Entry
                 /\ pending'[i] = pending[i]
<1>1. /\ delivered' \in Int /\ delivered' \in Entry /\ delivered' <= MaxCommands
      /\ delivered' = delivered + 1 \/ delivered' = 1
      /\ pending' = [pending EXCEPT ![delivered'] = consumer]
  BY Delivery, Positions, ConstantsAssumption DEF Position, Entry
<1>2. pending'[delivered'] # Nobody
  BY <1>1, ConstantsAssumption DEF TypeOK
<1>3. ASSUME NEW i \in 1..delivered', i # delivered'
      PROVE  i \in 1..delivered /\ i \in Entry
  <2>1. i \in Int /\ 1 <= i /\ i < delivered' /\ delivered \in Int
    BY <1>1, <1>3, Positions
  <2>. QED BY <1>1, <2>1, ConstantsAssumption DEF Entry
<1>4. ASSUME NEW i \in Entry, i # delivered'
      PROVE  pending'[i] = pending[i]
  BY <1>1, <1>4 DEF TypeOK
<1>. QED BY <1>2, <1>3, <1>4

(* So it loses none of them.                                               *)
LEMMA DeliveryLosesNothing ==
    ASSUME TypeOK, NoCommandLost, Deliver, UNCHANGED <<stream, answers>>
    PROVE  NoCommandLost'
BY EarlierStay DEF NoCommandLost

(* While nothing is in hand, neither a group that is created anew nor      *)
(* faults disturb the invariants.                                          *)
LEMMA GroupGrows ==
    ASSUME TypeOK, TypeOK', PendingInv, CountInv,
           step \notin Holding, step' \notin Holding,
           delivered <= delivered', UNCHANGED <<pending, executions>>,
           failures <= failures'
    PROVE  PendingInv' /\ CountInv'
<1>1. PendingInv'
  BY Positions DEF PendingInv, Holding, TypeOK
<1>2. ASSUME NEW i \in Entry, Executable(i)'
      PROVE  Executable(i)
  BY <1>2, Positions DEF Executable, Holding, TypeOK
<1>3. CountInv'
  BY <1>2, Positions DEF CountInv, Holding, TypeOK
<1> QED
  BY <1>1, <1>3

(* A delivered entry becomes pending, and may be taken in hand.            *)
LEMMA DeliveryKeeps ==
    ASSUME TypeOK, TypeOK', PendingInv, CountInv, Deliver,
           step \notin Holding,
           \/ step' \notin Holding
           \/ step' = "parse" /\ inHand' = Position + 1,
           UNCHANGED <<executions, consumer>>, failures <= failures'
    PROVE  PendingInv' /\ CountInv'
<1> DEFINE new == Position + 1
<1>1. /\ new \in Entry /\ delivered < new /\ delivered' = new
      /\ \A i \in Entry : i # new => pending'[i] = pending[i]
      /\ pending'[new] = consumer
  <2>1. Position \in 0..(Len(stream) - 1) /\ delivered <= Position
    BY Delivery
  <2>2. Position \in Int /\ delivered < new
    BY <2>1, Positions
  <2>3. pending \in [Entry -> Consumer \cup {Nobody}]
    BY DEF TypeOK
  <2> QED
    BY <2>2, <2>3, Delivery
<1>2. PendingInv'
  <2>1. ASSUME NEW i \in Entry, pending'[i] # Nobody
        PROVE  i <= delivered'
    BY <1>1, <2>1, Positions DEF PendingInv
  <2>2. step' = "parse" => pending'[inHand'] = consumer'
    BY <1>1 DEF Holding
  <2> QED
    BY <2>1, <2>2 DEF PendingInv
<1>3. ASSUME NEW i \in Entry, Executable(i)'
      PROVE  Executable(i)
  BY <1>1, <1>3, Positions DEF Executable, Holding
<1>4. CountInv'
  <2>1. ASSUME NEW i \in Entry
        PROVE  /\ executions'[i] <= 1 + failures'
               /\ Executable(i)' => executions'[i] <= failures'
    BY <1>3, Positions DEF CountInv, TypeOK
  <2>2. ASSUME NEW i \in Entry, step' = "parse", inHand' = i, delivered' < i
        PROVE  FALSE
    BY <1>1, <2>2, Positions DEF Holding
  <2> QED
    BY <2>1, <2>2 DEF CountInv
<1> QED
  BY <1>2, <1>4

(* Every step keeps the types. *)
LEMMA TypeStep == IInv /\ [Next]_vars => TypeOK'
<1> SUFFICES ASSUME IInv, [Next]_vars
             PROVE  TypeOK'
  OBVIOUS
<1>a. TypeOK /\ HandInv
  BY DEF IInv, LostInv
<1> USE <1>a, ConstantsAssumption
    DEF redis, process, bounds, TypeOK, Steps
<1>1. CASE LeaveLoop
  BY <1>1 DEF LeaveLoop, Goto
<1>2. CASE ReadPending
  BY <1>2 DEF ReadPending, MyPending, GroupExists
<1>3. CASE SkipFresh
  BY <1>3 DEF SkipFresh, Goto
<1>4. CASE ReadFresh
  <2>1. CASE Deliver /\ inHand' = Position + 1 /\ step' = "parse"
    BY <1>4, <2>1, Delivery DEF ReadFresh
  <2>2. CASE Position = Len(stream) /\ delivered' = Position
             /\ UNCHANGED <<pending, inHand>>
    BY <1>4, <2>2 DEF ReadFresh, Goto
  <2> QED
    BY <1>4, <2>1, <2>2 DEF ReadFresh
<1>5. CASE HandleStopped
  BY <1>5, DropTypes DEF HandleStopped
<1>6. CASE HandleGarbled
  BY <1>6 DEF HandleGarbled, Goto
<1>7. CASE HandleExpired
  BY <1>7 DEF HandleExpired, Goto, Outcomes
<1>8. CASE HandleRpc
  <2>1. executions' \in [Entry -> Nat]
    <3>1. executions' = [executions EXCEPT ![inHand] = executions[inHand] + 1]
      BY <1>8 DEF HandleRpc
    <3>2. ASSUME NEW i \in Entry
          PROVE  executions[i] + 1 \in Nat /\ executions[i] \in Nat
      OBVIOUS
    <3> QED
      BY <3>1, <3>2 DEF TypeOK
  <2> QED
    BY <1>8, <2>1 DEF HandleRpc, Goto
<1>9. CASE ExecuteReturns
  BY <1>9 DEF ExecuteReturns, Goto, Outcomes
<1>10. CASE WriteResult
  <2>1. verdict \in Outcomes /\ inHand \in Entry
    BY <1>10 DEF WriteResult, HandInv, Holding, Entry
  <2> QED
    BY <1>10, <2>1 DEF WriteResult, StoreAnswer, Goto
<1>11. CASE Ack
  BY <1>11, DropTypes DEF Ack, Acknowledge
<1>12. CASE Close
  BY <1>12, DropTypes DEF Close
<1>13. CASE \E name \in Consumer : Launch(name)
  <2>1. PICK name \in Consumer : Launch(name)
    BY <1>13
  <2>2. delivered' \in {NoGroup} \cup 0..Len(stream)
    BY <2>1 DEF Launch
  <2> QED
    BY <2>1, <2>2, DropTypes DEF Launch
<1>14. CASE GroupLost
  BY <1>14, FaultCounted DEF GroupLost
<1>15. CASE ReadPendingFails
  BY <1>15, FaultCounted DEF ReadPendingFails, Goto
<1>16. CASE ReadFreshFails
  <2>1. CASE Deliver
    <3>1. /\ delivered' \in 0..Len(stream)
          /\ pending' \in [Entry -> Consumer \cup {Nobody}]
      BY <2>1, Delivery
    <3> QED
      BY <1>16, <3>1, FaultCounted DEF ReadFreshFails, Goto
  <2>2. CASE UNCHANGED <<delivered, pending>>
    BY <1>16, <2>2, FaultCounted DEF ReadFreshFails, Goto
  <2> QED
    BY <1>16, <2>1, <2>2 DEF ReadFreshFails
<1>17. CASE WriteResultFails
  <2>1. verdict \in Outcomes
    BY <1>17 DEF WriteResultFails, HandInv
  <2>2. answers' \in [Entry -> SUBSET Outcomes]
    BY <1>17, <2>1 DEF WriteResultFails, StoreAnswer
  <2> QED
    BY <1>17, <2>2, FaultCounted, DropTypes DEF WriteResultFails
<1>18. CASE AckFails
  <2>1. pending' \in [Entry -> Consumer \cup {Nobody}]
    BY <1>18 DEF AckFails, Acknowledge
  <2> QED
    BY <1>18, <2>1, FaultCounted, DropTypes DEF AckFails
<1>19. CASE Crash
  BY <1>19, FaultCounted, DropTypes DEF Crash
<1>20. CASE \E kind \in {"rpc", "garbled"} : Add(kind)
  BY <1>20 DEF Add
<1>21. CASE \E i \in Entry : DeadlinePasses(i)
  BY <1>21 DEF DeadlinePasses
<1>22. CASE StopRequested
  BY <1>22 DEF StopRequested
<1>23. CASE UNCHANGED vars
  BY <1>23 DEF vars
<1>24. CASE HeartbeatRaises
  BY <1>24, DropTypes, FaultCounted DEF HeartbeatRaises, Fault, Goto, Drop, GroupExists
<1> QED
  BY <1>1, <1>2, <1>3, <1>4, <1>5, <1>6, <1>7, <1>8, <1>9, <1>10, <1>11, <1>12,
     <1>13, <1>14, <1>15, <1>16, <1>17, <1>18, <1>19, <1>20, <1>21, <1>22, <1>23, <1>24
     DEF Next, Loop, Disturbance, Environment

(* What is in hand stays an entry, answered before it is acknowledged. *)
LEMMA HandStep == IInv /\ [Next]_vars => HandInv'
<1> SUFFICES ASSUME IInv, [Next]_vars
             PROVE  HandInv'
  OBVIOUS
<1>a. TypeOK /\ HandInv /\ PendingInv
  BY DEF IInv, LostInv
<1> USE <1>a, ConstantsAssumption
    DEF redis, process, bounds, TypeOK, Holding, HandInv, Outcomes
<1>1. CASE LeaveLoop
  BY <1>1 DEF LeaveLoop, Goto
<1>2. CASE ReadPending
  <2>1. CASE MyPending = {}
    BY <1>2, <2>1, GroupCreated DEF ReadPending
  <2>2. ASSUME NEW oldest \in MyPending, inHand' = oldest, step' = "parse"
        PROVE  HandInv'
    BY <1>2, <2>2, PendingIsDelivered, GroupCreated DEF ReadPending
  <2> QED
    BY <1>2, <2>1, <2>2 DEF ReadPending
<1>3. CASE SkipFresh
  BY <1>3 DEF SkipFresh, Goto
<1>4. CASE ReadFresh
  BY <1>4 DEF ReadFresh, Deliver, Position, GroupExists, Goto
<1>5. CASE HandleStopped
  BY <1>5 DEF HandleStopped, Drop
<1>6. CASE HandleGarbled
  BY <1>6 DEF HandleGarbled, Goto
<1>7. CASE HandleExpired
  BY <1>7 DEF HandleExpired, Goto
<1>8. CASE HandleRpc
  BY <1>8 DEF HandleRpc, Goto
<1>9. CASE ExecuteReturns
  BY <1>9 DEF ExecuteReturns, Goto
<1>10. CASE WriteResult
  <2>1. verdict \in Outcomes /\ inHand \in 1..Len(stream) /\ inHand \in Entry
    BY <1>10 DEF WriteResult, Entry
  <2>2. answers'[inHand] = answers[inHand] \cup {verdict}
    BY <1>10, <2>1 DEF WriteResult, StoreAnswer
  <2> QED
    BY <1>10, <2>1, <2>2 DEF WriteResult, Goto
<1>11. CASE Ack
  BY <1>11 DEF Ack, Acknowledge, Drop
<1>12. CASE Close
  BY <1>12 DEF Close, Drop
<1>13. CASE \E name \in Consumer : Launch(name)
  BY <1>13 DEF Launch, Drop, GroupExists
<1>14. CASE GroupLost
  BY <1>14 DEF GroupLost, Fault
<1>15. CASE ReadPendingFails
  BY <1>15 DEF ReadPendingFails, Fault, Goto
<1>16. CASE ReadFreshFails
  BY <1>16 DEF ReadFreshFails, Fault, Deliver, Position, GroupExists, Goto
<1>17. CASE WriteResultFails
  BY <1>17 DEF WriteResultFails, Fault, StoreAnswer, Drop
<1>18. CASE AckFails
  BY <1>18 DEF AckFails, Fault, Acknowledge, Drop
<1>19. CASE Crash
  BY <1>19 DEF Crash, Drop
<1>20. CASE \E kind \in {"rpc", "garbled"} : Add(kind)
  BY <1>20 DEF Add
<1>21. CASE \E i \in Entry : DeadlinePasses(i)
  BY <1>21 DEF DeadlinePasses
<1>22. CASE StopRequested
  BY <1>22 DEF StopRequested
<1>23. CASE UNCHANGED vars
  BY <1>23 DEF vars
<1>24. CASE HeartbeatRaises
  BY <1>24, DropTypes, FaultCounted DEF HeartbeatRaises, Fault, Goto, Drop, GroupExists
<1> QED
  BY <1>1, <1>2, <1>3, <1>4, <1>5, <1>6, <1>7, <1>8, <1>9, <1>10, <1>11, <1>12,
     <1>13, <1>14, <1>15, <1>16, <1>17, <1>18, <1>19, <1>20, <1>21, <1>22, <1>23, <1>24
     DEF Next, Loop, Disturbance, Environment

(* What is pending stays delivered. *)
LEMMA PendingStep == IInv /\ [Next]_vars => PendingInv'
<1> SUFFICES ASSUME IInv, [Next]_vars
             PROVE  PendingInv'
  OBVIOUS
<1>a. TypeOK /\ HandInv /\ PendingInv /\ CountInv
  BY DEF IInv, LostInv
<1>b. \A kind : Fault(kind) => failures <= failures'
  BY <1>a, FaultCounted, Positions
<1> USE <1>a, ConstantsAssumption
    DEF redis, process, bounds, TypeOK, Holding, HandInv, PendingInv
<1>1. CASE LeaveLoop
  BY <1>1 DEF LeaveLoop, Goto
<1>2. CASE ReadPending
  <2>1. CASE MyPending = {}
    BY <1>2, <2>1, TypeStep, GroupCreated, GroupGrows DEF ReadPending, Goto
  <2>2. ASSUME NEW oldest \in MyPending, inHand' = oldest, step' = "parse"
        PROVE  PendingInv'
    BY <1>2, <2>2, PendingIsDelivered, GroupCreated, Positions DEF ReadPending
  <2> QED
    BY <1>2, <2>1, <2>2 DEF ReadPending
<1>3. CASE SkipFresh
  BY <1>3 DEF SkipFresh, Goto
<1>4. CASE ReadFresh
  <2>1. CASE Deliver /\ inHand' = Position + 1 /\ step' = "parse"
    BY <1>4, <2>1, TypeStep, DeliveryKeeps, Positions DEF ReadFresh
  <2>2. CASE Position = Len(stream) /\ delivered' = Position /\ step' = "top"
             /\ UNCHANGED <<pending, inHand>>
    <3>1. delivered <= delivered' /\ UNCHANGED <<pending, executions, failures>>
      BY <1>4, <2>2, Positions DEF ReadFresh, Position, GroupExists
    <3>2. step \notin Holding /\ step' \notin Holding
      BY <1>4, <2>2 DEF ReadFresh
    <3> QED
      BY <3>1, <3>2, TypeStep, GroupGrows, Positions
  <2> QED
    BY <1>4, <2>1, <2>2 DEF ReadFresh, Goto
<1>5. CASE HandleStopped
  BY <1>5 DEF HandleStopped, Drop
<1>6. CASE HandleGarbled
  BY <1>6 DEF HandleGarbled, Goto
<1>7. CASE HandleExpired
  BY <1>7 DEF HandleExpired, Goto
<1>8. CASE HandleRpc
  BY <1>8 DEF HandleRpc, Goto
<1>9. CASE ExecuteReturns
  BY <1>9 DEF ExecuteReturns, Goto
<1>10. CASE WriteResult
  BY <1>10 DEF WriteResult, StoreAnswer, Goto
<1>11. CASE Ack
  BY <1>11 DEF Ack, Acknowledge, Drop
<1>12. CASE Close
  BY <1>12 DEF Close, Drop
<1>13. CASE \E name \in Consumer : Launch(name)
  <2>1. PICK name \in Consumer : Launch(name)
    BY <1>13
  <2> QED
    BY <2>1, TypeStep, GroupCreated, GroupGrows, Positions DEF Launch, Drop
<1>14. CASE GroupLost
  BY <1>14 DEF GroupLost, Fault, GroupExists
<1>15. CASE ReadPendingFails
  BY <1>15 DEF ReadPendingFails, Fault, Goto
<1>16. CASE ReadFreshFails
  <2>1. CASE Deliver
    <3>1. Fault("read") /\ UNCHANGED <<executions, consumer>>
      BY <1>16 DEF ReadFreshFails
    <3>2. failures <= failures'
      BY <3>1, <1>b
    <3>3. step \notin Holding /\ step' \notin Holding
      BY <1>16 DEF ReadFreshFails, Goto
    <3> QED
      BY <2>1, <3>1, <3>2, <3>3, TypeStep, DeliveryKeeps
  <2>2. CASE UNCHANGED <<delivered, pending>>
    <3>1. Fault("read") /\ UNCHANGED <<delivered, pending, executions>>
      BY <1>16, <2>2 DEF ReadFreshFails
    <3>2. failures <= failures'
      BY <3>1, <1>b
    <3>3. delivered <= delivered'
      BY <3>1, Positions
    <3>4. step \notin Holding /\ step' \notin Holding
      BY <1>16 DEF ReadFreshFails, Goto
    <3> QED
      BY <3>1, <3>2, <3>3, <3>4, TypeStep, GroupGrows
  <2> QED
    BY <1>16, <2>1, <2>2 DEF ReadFreshFails
<1>17. CASE WriteResultFails
  BY <1>17 DEF WriteResultFails, Fault, StoreAnswer, Drop
<1>18. CASE AckFails
  BY <1>18 DEF AckFails, Fault, Acknowledge, Drop
<1>19. CASE Crash
  BY <1>19 DEF Crash, Fault, Drop
<1>20. CASE \E kind \in {"rpc", "garbled"} : Add(kind)
  BY <1>20 DEF Add
<1>21. CASE \E i \in Entry : DeadlinePasses(i)
  BY <1>21 DEF DeadlinePasses
<1>22. CASE StopRequested
  BY <1>22 DEF StopRequested
<1>23. CASE UNCHANGED vars
  BY <1>23 DEF vars
<1>24. CASE HeartbeatRaises
  BY <1>24, DropTypes, FaultCounted DEF HeartbeatRaises, Fault, Goto, Drop, GroupExists
<1> QED
  BY <1>1, <1>2, <1>3, <1>4, <1>5, <1>6, <1>7, <1>8, <1>9, <1>10, <1>11, <1>12,
     <1>13, <1>14, <1>15, <1>16, <1>17, <1>18, <1>19, <1>20, <1>21, <1>22, <1>23, <1>24
     DEF Next, Loop, Disturbance, Environment

(* No step loses a command. *)
LEMMA LostStep == IInv /\ [Next]_vars => NoCommandLost'
<1> SUFFICES ASSUME IInv, [Next]_vars
             PROVE  NoCommandLost'
  OBVIOUS
<1>a. TypeOK /\ HandInv /\ PendingInv /\ NoCommandLost
  BY DEF IInv, LostInv
<1> USE <1>a, ConstantsAssumption
    DEF redis, process, bounds, TypeOK, Holding, HandInv, NoCommandLost
<1>1. CASE LeaveLoop
  BY <1>1 DEF LeaveLoop, Goto
<1>2. CASE ReadPending
  BY <1>2 DEF ReadPending, MyPending, GroupExists
<1>3. CASE SkipFresh
  BY <1>3 DEF SkipFresh, Goto
<1>4. CASE ReadFresh
  <2>1. CASE Deliver /\ inHand' = Position + 1 /\ step' = "parse"
    <3>1. UNCHANGED <<stream, answers>>
      BY <1>4 DEF ReadFresh
    <3> QED
      BY <2>1, <3>1, DeliveryLosesNothing
  <2>2. CASE Position = Len(stream) /\ delivered' = Position /\ step' = "top"
             /\ UNCHANGED <<pending, inHand>>
    BY <1>4, <2>2 DEF ReadFresh, Position, GroupExists, Goto
  <2> QED
    BY <1>4, <2>1, <2>2 DEF ReadFresh, Goto
<1>5. CASE HandleStopped
  BY <1>5 DEF HandleStopped, Drop
<1>6. CASE HandleGarbled
  BY <1>6 DEF HandleGarbled, Goto
<1>7. CASE HandleExpired
  BY <1>7 DEF HandleExpired, Goto
<1>8. CASE HandleRpc
  BY <1>8 DEF HandleRpc, Goto
<1>9. CASE ExecuteReturns
  BY <1>9 DEF ExecuteReturns, Goto
<1>10. CASE WriteResult
  BY <1>10 DEF WriteResult, StoreAnswer, Goto
<1>11. CASE Ack
  BY <1>11 DEF Ack, Acknowledge, Drop
<1>12. CASE Close
  BY <1>12 DEF Close, Drop
<1>13. CASE \E name \in Consumer : Launch(name)
  BY <1>13 DEF Launch, Drop, GroupExists
<1>14. CASE GroupLost
  BY <1>14 DEF GroupLost, NoGroup
<1>15. CASE ReadPendingFails
  BY <1>15 DEF ReadPendingFails, Fault, Goto
<1>16. CASE ReadFreshFails
  <2>1. CASE Deliver
    <3>1. UNCHANGED <<stream, answers>>
      BY <1>16 DEF ReadFreshFails
    <3> QED
      BY <2>1, <3>1, DeliveryLosesNothing
  <2>2. CASE UNCHANGED <<delivered, pending>>
    BY <1>16, <2>2, FaultCounted DEF ReadFreshFails, Goto
  <2> QED
    BY <1>16, <2>1, <2>2 DEF ReadFreshFails
<1>17. CASE WriteResultFails
  <2>1. \A i \in Entry : answers[i] \subseteq answers'[i]
    BY <1>17 DEF WriteResultFails, StoreAnswer
  <2>2. 1..delivered \subseteq Entry
    BY DEF Entry, NoGroup
  <2> QED
    BY <1>17, <2>1, <2>2 DEF WriteResultFails
<1>18. CASE AckFails
  <2>1. /\ inHand \in 1..Len(stream)
        /\ stream[inHand] = "garbled" \/ answers[inHand] # {}
    BY <1>18 DEF AckFails
  <2>2. \A i \in Entry : i # inHand => pending'[i] = pending[i]
    BY <1>18 DEF AckFails, Acknowledge
  <2>3. 1..delivered \subseteq Entry
    BY DEF Entry, NoGroup
  <2> QED
    BY <1>18, <2>1, <2>2, <2>3 DEF AckFails
<1>19. CASE Crash
  BY <1>19 DEF Crash, Fault, Drop
<1>20. CASE \E kind \in {"rpc", "garbled"} : Add(kind)
  <2>1. PICK kind \in {"rpc", "garbled"} : Add(kind)
    BY <1>20
  <2>2. 1..delivered \subseteq 1..Len(stream)
    BY DEF NoGroup
  <2>3. \A i \in 1..Len(stream) : stream'[i] = stream[i]
    BY <2>1 DEF Add
  <2> QED
    BY <2>1, <2>2, <2>3 DEF Add
<1>21. CASE \E i \in Entry : DeadlinePasses(i)
  BY <1>21 DEF DeadlinePasses
<1>22. CASE StopRequested
  BY <1>22 DEF StopRequested
<1>23. CASE UNCHANGED vars
  BY <1>23 DEF vars
<1>24. CASE HeartbeatRaises
  BY <1>24, DropTypes, FaultCounted DEF HeartbeatRaises, Fault, Goto, Drop, GroupExists
<1> QED
  BY <1>1, <1>2, <1>3, <1>4, <1>5, <1>6, <1>7, <1>8, <1>9, <1>10, <1>11, <1>12,
     <1>13, <1>14, <1>15, <1>16, <1>17, <1>18, <1>19, <1>20, <1>21, <1>22, <1>23, <1>24
     DEF Next, Loop, Disturbance, Environment

(* Executions stay paid for. *)
LEMMA CountStep == IInv /\ [Next]_vars => CountInv'
<1> SUFFICES ASSUME IInv, [Next]_vars
             PROVE  CountInv'
  OBVIOUS
<1>a. TypeOK /\ HandInv /\ PendingInv /\ CountInv
  BY DEF IInv, LostInv
<1>b. \A kind : Fault(kind) => failures <= failures'
  BY <1>a, FaultCounted, Positions
<1> USE <1>a, ConstantsAssumption
    DEF redis, process, bounds, TypeOK, Holding, PendingInv, CountInv, Executable
<1>1. CASE LeaveLoop
  BY <1>1 DEF LeaveLoop, Goto
<1>2. CASE ReadPending
  <2>1. CASE MyPending = {}
    BY <1>2, <2>1, TypeStep, GroupCreated, GroupGrows DEF ReadPending, Goto
  <2>2. ASSUME NEW oldest \in MyPending, inHand' = oldest, step' = "parse"
        PROVE  CountInv'
    <3>1. /\ oldest \in Entry /\ oldest <= delivered /\ delivered # NoGroup
          /\ pending[oldest] # Nobody
      BY <2>2, PendingIsDelivered
    <3>2. delivered' = delivered /\ step = "top"
          /\ UNCHANGED <<pending, executions, failures>>
      BY <1>2, <3>1 DEF ReadPending, GroupExists
    <3>3. \A i \in Entry : Executable(i)' => Executable(i)
      BY <2>2, <3>2
    <3> QED
      BY <2>2, <3>1, <3>2, <3>3, Positions
  <2> QED
    BY <1>2, <2>1, <2>2 DEF ReadPending
<1>3. CASE SkipFresh
  BY <1>3 DEF SkipFresh, Goto
<1>4. CASE ReadFresh
  <2>1. CASE Deliver /\ inHand' = Position + 1 /\ step' = "parse"
    BY <1>4, <2>1, TypeStep, DeliveryKeeps, Positions DEF ReadFresh
  <2>2. CASE Position = Len(stream) /\ delivered' = Position /\ step' = "top"
             /\ UNCHANGED <<pending, inHand>>
    <3>1. delivered <= delivered' /\ UNCHANGED <<pending, executions, failures>>
      BY <1>4, <2>2, Positions DEF ReadFresh, Position, GroupExists
    <3>2. step \notin Holding /\ step' \notin Holding
      BY <1>4, <2>2 DEF ReadFresh
    <3> QED
      BY <3>1, <3>2, TypeStep, GroupGrows, Positions
  <2> QED
    BY <1>4, <2>1, <2>2 DEF ReadFresh, Goto
<1>5. CASE HandleStopped
  BY <1>5 DEF HandleStopped, Drop
<1>6. CASE HandleGarbled
  BY <1>6 DEF HandleGarbled, Goto
<1>7. CASE HandleExpired
  BY <1>7 DEF HandleExpired, Goto
<1>8. CASE HandleRpc
  <2>1. inHand \in Entry
    BY <1>8 DEF HandleRpc, HandInv, Entry
  <2>2. executions'[inHand] = executions[inHand] + 1
    BY <1>8, <2>1 DEF HandleRpc
  <2>3. \A i \in Entry : i # inHand => executions'[i] = executions[i]
    BY <1>8 DEF HandleRpc
  <2>4. delivered = NoGroup \/ Executable(inHand)
    BY <1>8, <2>1 DEF HandleRpc
  <2> QED
    BY <1>8, <2>1, <2>2, <2>3, <2>4 DEF HandleRpc, Goto, NoGroup, Entry
<1>9. CASE ExecuteReturns
  BY <1>9 DEF ExecuteReturns, Goto
<1>10. CASE WriteResult
  BY <1>10 DEF WriteResult, StoreAnswer, Goto
<1>11. CASE Ack
  BY <1>11 DEF Ack, Acknowledge, Drop
<1>12. CASE Close
  BY <1>12 DEF Close, Drop
<1>13. CASE \E name \in Consumer : Launch(name)
  <2>1. PICK name \in Consumer : Launch(name)
    BY <1>13
  <2> QED
    BY <2>1, TypeStep, GroupCreated, GroupGrows, Positions DEF Launch, Drop
<1>14. CASE GroupLost
  BY <1>14 DEF GroupLost, Fault, GroupExists
<1>15. CASE ReadPendingFails
  BY <1>15 DEF ReadPendingFails, Fault, Goto
<1>16. CASE ReadFreshFails
  <2>1. CASE Deliver
    <3>1. Fault("read") /\ UNCHANGED <<executions, consumer>>
      BY <1>16 DEF ReadFreshFails
    <3>2. failures <= failures'
      BY <3>1, <1>b
    <3>3. step \notin Holding /\ step' \notin Holding
      BY <1>16 DEF ReadFreshFails, Goto
    <3> QED
      BY <2>1, <3>1, <3>2, <3>3, TypeStep, DeliveryKeeps
  <2>2. CASE UNCHANGED <<delivered, pending>>
    <3>1. Fault("read") /\ UNCHANGED <<delivered, pending, executions>>
      BY <1>16, <2>2 DEF ReadFreshFails
    <3>2. failures <= failures'
      BY <3>1, <1>b
    <3>3. delivered <= delivered'
      BY <3>1, Positions
    <3>4. step \notin Holding /\ step' \notin Holding
      BY <1>16 DEF ReadFreshFails, Goto
    <3> QED
      BY <3>1, <3>2, <3>3, <3>4, TypeStep, GroupGrows
  <2> QED
    BY <1>16, <2>1, <2>2 DEF ReadFreshFails
<1>17. CASE WriteResultFails
  BY <1>17 DEF WriteResultFails, Fault, StoreAnswer, Drop
<1>18. CASE AckFails
  BY <1>18 DEF AckFails, Fault, Acknowledge, Drop
<1>19. CASE Crash
  BY <1>19 DEF Crash, Fault, Drop
<1>20. CASE \E kind \in {"rpc", "garbled"} : Add(kind)
  BY <1>20 DEF Add
<1>21. CASE \E i \in Entry : DeadlinePasses(i)
  BY <1>21 DEF DeadlinePasses
<1>22. CASE StopRequested
  BY <1>22 DEF StopRequested
<1>23. CASE UNCHANGED vars
  BY <1>23 DEF vars
<1>24. CASE HeartbeatRaises
  BY <1>24, DropTypes, FaultCounted DEF HeartbeatRaises, Fault, Goto, Drop, GroupExists
<1> QED
  BY <1>1, <1>2, <1>3, <1>4, <1>5, <1>6, <1>7, <1>8, <1>9, <1>10, <1>11, <1>12,
     <1>13, <1>14, <1>15, <1>16, <1>17, <1>18, <1>19, <1>20, <1>21, <1>22, <1>23, <1>24
     DEF Next, Loop, Disturbance, Environment

(* The process keeps its group and what it holds. *)
LEMMA HeldStep == IInv /\ HeldInv /\ [Next]_vars => HeldInv'
<1> SUFFICES ASSUME IInv, HeldInv, [Next]_vars
             PROVE  HeldInv'
  OBVIOUS
<1>a. TypeOK /\ HandInv /\ PendingInv
  BY DEF IInv, LostInv
<1>b. \A kind : Fault(kind) => failed' = failed \cup {kind}
  BY DEF Fault
<1> USE <1>a, <1>b
    DEF redis, process, bounds, TypeOK, PendingInv, HeldInv, NoGroup
<1>1. CASE LeaveLoop
  BY <1>1 DEF LeaveLoop, Fault, Goto, Drop, GroupExists
<1>2. CASE ReadPending
  BY <1>2 DEF ReadPending, Fault, Goto, Drop, GroupExists
<1>3. CASE SkipFresh
  BY <1>3 DEF SkipFresh, Fault, Goto, Drop, GroupExists
<1>4. CASE ReadFresh
  BY <1>4 DEF ReadFresh, Deliver, Position, GroupExists, Goto
<1>5. CASE HandleStopped
  BY <1>5 DEF HandleStopped, Fault, Goto, Drop, GroupExists
<1>6. CASE HandleGarbled
  BY <1>6 DEF HandleGarbled, Fault, Goto, Drop, GroupExists
<1>7. CASE HandleExpired
  BY <1>7 DEF HandleExpired, Fault, Goto, Drop, GroupExists
<1>8. CASE HandleRpc
  BY <1>8 DEF HandleRpc, Goto
<1>9. CASE ExecuteReturns
  BY <1>9 DEF ExecuteReturns, Fault, Goto, Drop, GroupExists
<1>10. CASE WriteResult
  BY <1>10 DEF WriteResult, Fault, Goto, Drop, GroupExists
<1>11. CASE Ack
  BY <1>11 DEF Ack, Fault, Goto, Drop, GroupExists
<1>12. CASE Close
  BY <1>12 DEF Close, Fault, Goto, Drop, GroupExists
<1>13. CASE \E name \in Consumer : Launch(name)
  BY <1>13 DEF Launch, Fault, Goto, Drop, GroupExists
<1>14. CASE GroupLost
  BY <1>14 DEF GroupLost, Fault, Goto, Drop, GroupExists
<1>15. CASE ReadPendingFails
  BY <1>15 DEF ReadPendingFails, Fault, Goto, Drop, GroupExists
<1>16. CASE ReadFreshFails
  <2>1. step' = "top" /\ failed' = failed \cup {"read"}
    BY <1>16 DEF ReadFreshFails, Goto
  <2>2. delivered' = Position + 1 \/ delivered' = delivered
    BY <1>16 DEF ReadFreshFails, Deliver
  <2> QED
    BY <1>16, <2>1, <2>2 DEF ReadFreshFails, Position, GroupExists
<1>17. CASE WriteResultFails
  BY <1>17 DEF WriteResultFails, Fault, Goto, Drop, GroupExists
<1>18. CASE AckFails
  BY <1>18 DEF AckFails, Fault, Goto, Drop, GroupExists
<1>19. CASE Crash
  BY <1>19 DEF Crash, Fault, Goto, Drop, GroupExists
<1>20. CASE \E kind \in {"rpc", "garbled"} : Add(kind)
  BY <1>20 DEF Add, Fault, Goto, Drop, GroupExists
<1>21. CASE \E i \in Entry : DeadlinePasses(i)
  BY <1>21 DEF DeadlinePasses, Fault, Goto, Drop, GroupExists
<1>22. CASE StopRequested
  BY <1>22 DEF StopRequested, Fault, Goto, Drop, GroupExists
<1>23. CASE UNCHANGED vars
  BY <1>23 DEF vars
<1>24. CASE HeartbeatRaises
  BY <1>24, DropTypes, FaultCounted DEF HeartbeatRaises, Fault, Goto, Drop, GroupExists
<1> QED
  BY <1>1, <1>2, <1>3, <1>4, <1>5, <1>6, <1>7, <1>8, <1>9, <1>10, <1>11, <1>12,
     <1>13, <1>14, <1>15, <1>16, <1>17, <1>18, <1>19, <1>20, <1>21, <1>22, <1>23, <1>24
     DEF Next, Loop, Disturbance, Environment

(* Faults are not forgotten. *)
LEMMA FaultsStay == [Next]_vars => failed \subseteq failed'
  BY DEF Next, Loop, LeaveLoop, ReadPending, SkipFresh, ReadFresh, HandleStopped,
     HandleGarbled, HandleExpired, HandleRpc, ExecuteReturns, WriteResult, Ack, Close,
     Launch, Disturbance, GroupLost, HeartbeatRaises, ReadPendingFails, ReadFreshFails,
     WriteResultFails, AckFails, Crash, Environment, Add, DeadlinePasses,
     StopRequested, Fault, bounds, vars

(* A step that answers nothing, forgets no delivery and puts no answered   *)
(* entry into a PEL or in hand keeps answers final.                        *)
LEMMA FinalKept ==
    ASSUME FinalInv, Intact, UNCHANGED answers,
           \A i \in Entry : answers[i] # {} =>
               /\ i <= delivered'
               /\ pending'[i] = Nobody \/ (step' = "ack" /\ inHand' = i),
           step' \in {"parse", "execute", "reply"} => answers[inHand'] = {}
    PROVE  FinalInv'
  BY DEF FinalInv

(* A delivery keeps answers final: the entry it hands out has none yet.    *)
LEMMA FinalKeptByDelivery ==
    ASSUME TypeOK, FinalInv, Intact, Deliver, UNCHANGED answers,
           step \notin {"parse", "execute", "reply", "ack"},
           step' \notin {"execute", "reply", "ack"},
           step' = "parse" => inHand' = Position + 1
    PROVE  FinalInv'
<1>1. /\ Position + 1 \in Entry /\ Position \in Int
      /\ delivered \in Int /\ delivered' \in Int
      /\ delivered < Position + 1 /\ delivered' = Position + 1
  <2>1. Position \in 0..(Len(stream) - 1) /\ delivered <= Position
    BY Delivery
  <2> QED
    BY <2>1, Delivery, Positions
<1>2. ASSUME NEW i \in Entry, answers[i] # {}
      PROVE  i \in Int /\ i <= delivered /\ pending[i] = Nobody
  BY <1>2, Positions DEF FinalInv
<1>3. answers[Position + 1] = {}
  BY <1>1, <1>2
<1>4. ASSUME NEW i \in Entry, answers[i] # {}
      PROVE  i <= delivered' /\ pending'[i] = Nobody
  <2>1. i <= delivered' /\ i # Position + 1
    BY <1>1, <1>2, <1>4
  <2>2. pending'[i] = pending[i]
    BY <2>1, Delivery DEF TypeOK
  <2> QED
    BY <1>2, <1>4, <2>1, <2>2
<1> QED
  BY <1>3, <1>4, FinalKept

(* Answers stay final. *)
LEMMA FinalStep == IInv /\ HeldInv /\ FinalInv /\ [Next]_vars => FinalInv'
<1> SUFFICES ASSUME IInv, HeldInv, FinalInv, [Next]_vars, Intact'
             PROVE  FinalInv'
  BY DEF FinalInv
<1>a. TypeOK /\ HandInv /\ PendingInv
  BY DEF IInv, LostInv
<1>b. \A kind \in {"ack", "write", "group", "crash"} : ~Fault(kind)
  BY DEF Fault, Intact
<1>c. Intact
  BY FaultsStay DEF Intact
<1>d. /\ step \in {"parse", "execute", "reply"} => answers[inHand] = {}
      /\ \A i \in Entry : answers[i] # {} =>
            /\ i <= delivered
            /\ pending[i] = Nobody \/ (step = "ack" /\ inHand = i)
            /\ \A a, b \in answers[i] : a = b
  BY <1>c DEF FinalInv
<1> USE <1>a, <1>c, <1>d DEF redis, process, bounds, TypeOK, FinalInv
<1>1. CASE LeaveLoop
  BY <1>1 DEF LeaveLoop, Fault, Goto, Drop, GroupExists
<1>2. CASE ReadPending
  <2>1. step' = "parse" => inHand' \in Entry /\ pending[inHand'] = consumer
    BY <1>2 DEF ReadPending, MyPending
  <2>2. answers[inHand'] = {} \/ step' # "parse"
    BY <1>2, <2>1, ConstantsAssumption DEF ReadPending
  <2>3. delivered <= delivered' /\ UNCHANGED <<answers, pending>>
    BY <1>2, GroupCreated, Positions DEF ReadPending
  <2>4. step' \in {"parse", "fresh"} /\ step = "top"
    BY <1>2 DEF ReadPending
  <2>5. \A i \in Entry : answers[i] # {} => i <= delivered'
    BY <2>3, Positions, GroupCreated, <1>2 DEF ReadPending
  <2> QED
    BY <2>2, <2>3, <2>4, <2>5, FinalKept
<1>3. CASE SkipFresh
  BY <1>3 DEF SkipFresh, Fault, Goto, Drop, GroupExists
<1>4. CASE ReadFresh
  <2>1. CASE Deliver
    <3>1. UNCHANGED answers /\ (step' = "parse" => inHand' = Position + 1)
          /\ step = "fresh" /\ step' \in {"parse", "top"}
      BY <1>4, <2>1 DEF ReadFresh, Deliver, Goto
    <3> QED
      BY <2>1, <3>1, FinalKeptByDelivery
  <2>2. CASE Position = Len(stream) /\ delivered' = Position /\ step' = "top"
             /\ UNCHANGED <<pending, inHand>>
    <3>1. delivered <= delivered' /\ UNCHANGED answers /\ step # "ack"
      BY <1>4, <2>2, Positions DEF ReadFresh, Position, GroupExists
    <3>2. ASSUME NEW i \in Entry, answers[i] # {}
          PROVE  i <= delivered'
      <4>1. i <= delivered /\ i \in Int
        BY <3>2, Positions
      <4>2. delivered \in Int /\ delivered' \in Int
        BY <2>2, Positions
      <4> QED
        BY <3>1, <4>1, <4>2
    <3> QED
      BY <2>2, <3>1, <3>2, FinalKept
  <2> QED
    BY <1>4, <2>1, <2>2 DEF ReadFresh, Goto
<1>5. CASE HandleStopped
  BY <1>5 DEF HandleStopped, Fault, Goto, Drop, GroupExists
<1>6. CASE HandleGarbled
  BY <1>6 DEF HandleGarbled, Fault, Goto, Drop, GroupExists
<1>7. CASE HandleExpired
  BY <1>7 DEF HandleExpired, Fault, Goto, Drop, GroupExists
<1>8. CASE HandleRpc
  BY <1>8 DEF HandleRpc, Fault, Goto, Drop, GroupExists
<1>9. CASE ExecuteReturns
  BY <1>9 DEF ExecuteReturns, Fault, Goto, Drop, GroupExists
<1>10. CASE WriteResult
  <2>1. inHand \in Entry /\ "group" \notin failed /\ step = "reply"
    <3>1. step = "reply" /\ "group" \notin failed
      BY <1>10, <1>c DEF WriteResult, Intact
    <3>2. inHand \in 1..Len(stream)
      BY <3>1 DEF HandInv, Holding
    <3> QED
      BY <3>1, <3>2, Positions, ConstantsAssumption DEF Entry
  <2>2. pending[inHand] = consumer /\ delivered # NoGroup
    BY <2>1 DEF HeldInv
  <2>3. inHand <= delivered
    BY <2>1, <2>2, ConstantsAssumption DEF PendingInv
  <2>4. answers'[inHand] = {verdict}
    BY <1>10, <2>1 DEF WriteResult, StoreAnswer
  <2>5. \A i \in Entry : i # inHand => answers'[i] = answers[i]
    BY <1>10 DEF WriteResult, StoreAnswer
  <2>6. /\ step' = "ack" /\ UNCHANGED <<delivered, pending, inHand>>
    BY <1>10 DEF WriteResult, Goto
  <2> QED
    BY <2>1, <2>3, <2>4, <2>5, <2>6
<1>11. CASE Ack
  <2>1. \A i \in Entry : pending'[i] = IF i = inHand THEN Nobody ELSE pending[i]
    BY <1>11 DEF Ack, Acknowledge
  <2>2. step' = "top" /\ UNCHANGED <<delivered, answers>>
    BY <1>11 DEF Ack, Drop
  <2> QED
    BY <2>1, <2>2, FinalKept
<1>12. CASE Close
  BY <1>12 DEF Close, Fault, Goto, Drop, GroupExists
<1>13. CASE \E name \in Consumer : Launch(name)
  <2>1. /\ step = "down" /\ step' = "top" /\ UNCHANGED <<answers, pending>>
        /\ delivered' = IF GroupExists THEN delivered ELSE 0
    BY <1>13 DEF Launch, Drop
  <2>2. \A i \in Entry : answers[i] # {} => i <= delivered'
    BY <2>1, GroupCreated, Positions
  <2> QED
    BY <2>1, <2>2, FinalKept
<1>14. CASE GroupLost
  BY <1>14, <1>b DEF GroupLost
<1>15. CASE ReadPendingFails
  BY <1>15 DEF ReadPendingFails, Fault, Goto, Drop, GroupExists
<1>16. CASE ReadFreshFails
  <2>1. CASE Deliver
    <3>1. UNCHANGED answers /\ (step' = "parse" => inHand' = Position + 1)
          /\ step = "fresh" /\ step' \in {"parse", "top"}
      BY <1>16, <2>1 DEF ReadFreshFails, Deliver, Goto
    <3> QED
      BY <2>1, <3>1, FinalKeptByDelivery
  <2>2. CASE UNCHANGED <<delivered, pending>>
    BY <1>16, <2>2, FinalKept DEF ReadFreshFails, Goto
  <2> QED
    BY <1>16, <2>1, <2>2 DEF ReadFreshFails
<1>17. CASE WriteResultFails
  BY <1>17, <1>b DEF WriteResultFails
<1>18. CASE AckFails
  BY <1>18, <1>b DEF AckFails
<1>19. CASE Crash
  BY <1>19, <1>b DEF Crash
<1>20. CASE \E kind \in {"rpc", "garbled"} : Add(kind)
  BY <1>20 DEF Add, Fault, Goto, Drop, GroupExists
<1>21. CASE \E i \in Entry : DeadlinePasses(i)
  BY <1>21 DEF DeadlinePasses, Fault, Goto, Drop, GroupExists
<1>22. CASE StopRequested
  BY <1>22 DEF StopRequested, Fault, Goto, Drop, GroupExists
<1>23. CASE UNCHANGED vars
  BY <1>23 DEF vars
<1>24. CASE HeartbeatRaises
  BY <1>24, DropTypes, FaultCounted DEF HeartbeatRaises, Fault, Goto, Drop, GroupExists
<1> QED
  BY <1>1, <1>2, <1>3, <1>4, <1>5, <1>6, <1>7, <1>8, <1>9, <1>10, <1>11, <1>12,
     <1>13, <1>14, <1>15, <1>16, <1>17, <1>18, <1>19, <1>20, <1>21, <1>22, <1>23, <1>24
     DEF Next, Loop, Disturbance, Environment

(* The oldest pending entry is taken first, and a new one only when none   *)
(* is pending.                                                             *)
LEMMA OrderStep == IInv /\ HeldInv /\ OrderInv /\ [Next]_vars => OrderInv'
<1> SUFFICES ASSUME IInv, HeldInv, OrderInv, [Next]_vars, Quiet'
             PROVE  OrderInv'
  BY DEF OrderInv
<1>a. TypeOK /\ HandInv /\ PendingInv /\ NoCommandLost
  BY DEF IInv, LostInv
<1>b. Quiet
  BY FaultsStay DEF Quiet
<1>c. \A i \in Entry : i <= delivered /\ stream[i] = "rpc" /\ i \notin MyPending
                       => answers[i] # {} \/ pending[i] \notin {Nobody, consumer}
  BY <1>a, Positions DEF NoCommandLost, MyPending, Entry
<1>1. CASE step' \notin {"fresh", "parse"}
  BY <1>1 DEF OrderInv
<1>2. CASE ReadPending
  <2>0. UNCHANGED <<stream, pending, answers, consumer>>
    BY <1>2 DEF ReadPending
  <2>1. CASE MyPending = {} /\ step' = "fresh"
    BY <2>0, <2>1 DEF OrderInv, MyPending
  <2>2. ASSUME NEW oldest \in MyPending, \A i \in MyPending : oldest <= i,
               inHand' = oldest, step' = "parse"
        PROVE  OrderInv'
    <3>1. oldest \in Entry /\ oldest <= delivered
      BY <1>a, <2>2, PendingIsDelivered
    <3>2. ASSUME NEW i \in Entry, i < oldest, stream[i] = "rpc"
          PROVE  answers[i] # {} \/ pending[i] \notin {Nobody, consumer}
      <4>1. i <= delivered /\ i \notin MyPending
        BY <1>a, <2>2, <3>1, <3>2, Positions
      <4> QED
        BY <1>c, <3>2, <4>1
    <3> QED
      BY <2>0, <2>2, <3>2 DEF OrderInv
  <2> QED
    BY <1>2, <2>1, <2>2 DEF ReadPending
<1>3. CASE ReadFresh
  <2>1. CASE Deliver /\ inHand' = Position + 1 /\ step' = "parse"
    <3>1. step = "fresh" /\ UNCHANGED <<stream, answers, consumer>>
      BY <1>3 DEF ReadFresh
    <3>2. MyPending = {} /\ Position = delivered
      BY <1>b, <3>1 DEF OrderInv, HeldInv, Quiet, Position, GroupExists
    <3>3. ASSUME NEW i \in Entry, i < inHand', stream[i] = "rpc"
          PROVE  answers[i] # {} \/ pending'[i] \notin {Nobody, consumer}
      <4>1. i <= delivered /\ i # Position + 1
        BY <1>a, <2>1, <3>2, <3>3, Positions
      <4>2. pending'[i] = pending[i]
        BY <1>a, <2>1, <4>1, Delivery DEF TypeOK
      <4> QED
        BY <1>c, <3>2, <3>3, <4>1, <4>2
    <3> QED
      BY <2>1, <3>1, <3>3 DEF OrderInv
  <2>2. CASE step' = "top"
    BY <1>1, <2>2
  <2> QED
    BY <1>3, <2>1, <2>2 DEF ReadFresh, Goto
<1>4. CASE \E kind \in {"rpc", "garbled"} : Add(kind)
  <2>1. UNCHANGED <<pending, answers, consumer, step, inHand>>
    BY <1>4 DEF Add, process
  <2>2. step = "parse" => inHand \in 1..Len(stream)
    BY <1>a DEF HandInv, Holding
  <2>3. \A i \in 1..Len(stream) : stream'[i] = stream[i]
    BY <1>4, <1>a DEF Add, TypeOK
  <2> QED
    BY <1>a, <1>b, <2>1, <2>2, <2>3, Positions DEF OrderInv, MyPending, Entry
<1>5. CASE UNCHANGED <<stream, pending, answers, consumer, step, inHand>>
  BY <1>b, <1>5 DEF OrderInv, MyPending
<1> QED
  BY <1>1, <1>2, <1>3, <1>4, <1>5
     DEF Next, Loop, LeaveLoop, SkipFresh, HandleStopped, HandleGarbled, HandleExpired,
     HandleRpc, ExecuteReturns, WriteResult, Ack, Close, Launch, Disturbance, GroupLost,
     HeartbeatRaises, ReadPendingFails, ReadFreshFails, WriteResultFails, AckFails,
     Crash, Environment, DeadlinePasses, StopRequested, Fault, Goto, Drop, Quiet, redis, process, vars

-----------------------------------------------------------------------------
(* Theorems *)

(* The invariant holds when the stream is empty and no process runs. *)
LEMMA InitInvariant == Init => IInv
<1> SUFFICES ASSUME Init
             PROVE  IInv
  OBVIOUS
<1>1. TypeOK
  <2>1. /\ stream \in Seq({"rpc", "garbled"}) /\ Len(stream) = 0
        /\ Len(stream) <= MaxCommands
    BY ConstantsAssumption DEF Init
  <2>2. /\ pending \in [Entry -> Consumer \cup {Nobody}]
        /\ answers \in [Entry -> SUBSET Outcomes]
        /\ executions \in [Entry -> Nat]
    BY DEF Init
  <2>3. /\ expired \subseteq 1..Len(stream)
        /\ delivered \in {NoGroup} \cup 0..Len(stream)
        /\ consumer \in Consumer /\ step \in Steps
        /\ inHand \in Entry \cup {NoEntry}
        /\ verdict \in Outcomes \cup {NoOutcome}
        /\ stopping \in BOOLEAN /\ failed \subseteq Faults
    BY DEF Init, Steps
  <2>4. failures \in 0..MaxFailures /\ stops \in 0..MaxStops
    BY ConstantsAssumption DEF Init
  <2> QED
    BY <2>1, <2>2, <2>3, <2>4 DEF TypeOK
<1>2. HandInv /\ PendingInv
  BY DEF Init, HandInv, PendingInv, Holding
<1>3. NoCommandLost
  BY DEF Init, NoCommandLost, NoGroup
<1>4. CountInv
  BY DEF Init, CountInv
<1> QED
  BY <1>1, <1>2, <1>3, <1>4 DEF IInv, LostInv

(* It is inductive. *)
LEMMA Invariance == Spec => []IInv
<1>1. IInv /\ [Next]_vars => IInv'
  BY TypeStep, HandStep, PendingStep, LostStep, CountStep DEF IInv, LostInv
<1> QED
  BY <1>1, InitInvariant, PTL DEF Spec

(* Every variable always has its type. *)
THEOREM TypeCorrect == Spec => []TypeOK
<1>1. IInv => TypeOK
  BY DEF IInv
<1> QED
  BY <1>1, Invariance, PTL

(* Between its delivery and its result no command is lost, whatever fails: *)
(* write_result comes before ack_message, and nothing else takes an entry  *)
(* out of the PEL but the loss of the group, which delivers it again.      *)
THEOREM CommandsSurvive == Spec => []NoCommandLost
<1>1. IInv => NoCommandLost
  BY DEF IInv, LostInv
<1> QED
  BY <1>1, Invariance, PTL

(* A command is executed at most once more than faults have happened.      *)
THEOREM RepetitionIsPaidFor == Spec => []ReexecutionNeedsFailure
<1>1. IInv => ReexecutionNeedsFailure
  BY DEF IInv, CountInv, ReexecutionNeedsFailure
<1> QED
  BY <1>1, Invariance, PTL

(* What a process holds is in its PEL, and answers are final, always.      *)
LEMMA FinalInvariance == Spec => [](IInv /\ HeldInv /\ FinalInv)
<1>1. Init => HeldInv /\ FinalInv
  BY DEF Init, HeldInv, FinalInv
<1>2. IInv /\ HeldInv /\ FinalInv /\ [Next]_vars => HeldInv' /\ FinalInv'
  BY HeldStep, FinalStep
<1> QED
  BY <1>1, <1>2, Invariance, PTL DEF Spec

(* Unless an acknowledgement, a write, the group or the process was lost,  *)
(* no command ever gets a second outcome.                                  *)
THEOREM AnswersAreFinal == Spec => []AnswerIsFinal
<1>1. FinalInv => AnswerIsFinal
  BY DEF FinalInv, Intact, AnswerIsFinal
<1> QED
  BY <1>1, FinalInvariance, PTL

(* The loop is left to stop, because the health could not be written, or   *)
(* with a command in hand that is pending.                                 *)
THEOREM LoopIsLeftOnlyByFailedWrite == Spec => LeftOnlyByFailedWrite
<1>1. IInv /\ HeldInv /\ [Next]_vars
        => [step' = "close" /\ step # "close" /\ ~stopping =>
                \/ step = "top" /\ "health" \in failed'
                \/ /\ inHand # NoEntry
                   /\ "group" \in failed \/ pending[inHand] = consumer]_vars
  <2> SUFFICES ASSUME IInv, HeldInv, Next, step' = "close", step # "close", ~stopping
               PROVE  \/ step = "top" /\ "health" \in failed'
                      \/ /\ inHand # NoEntry
                         /\ "group" \in failed \/ pending[inHand] = consumer
    OBVIOUS
  <2>1. WriteResultFails \/ HeartbeatRaises
    BY DEF Next, Loop, LeaveLoop, ReadPending, SkipFresh, ReadFresh, HandleStopped,
       HandleGarbled, HandleExpired, HandleRpc, ExecuteReturns, WriteResult, Ack,
       Close, Launch, Disturbance, GroupLost, ReadPendingFails, ReadFreshFails,
       AckFails, Crash, Environment, Add, DeadlinePasses, StopRequested, Goto, Drop,
       process
  <2>2. CASE WriteResultFails
    <3>1. step = "reply" /\ inHand # NoEntry
      BY <2>2 DEF WriteResultFails, IInv, LostInv, HandInv, Holding, NoEntry
    <3> QED
      BY <3>1 DEF HeldInv
  <2>3. CASE HeartbeatRaises
    BY <2>3 DEF HeartbeatRaises, Fault
  <2> QED
    BY <2>1, <2>2, <2>3
<1> QED
  BY <1>1, FinalInvariance, PTL DEF Spec, LeftOnlyByFailedWrite

(* While no read failed and no group was lost, commands are executed in    *)
(* stream order, whatever else fails.                                      *)
THEOREM ExecutedInOrder == Spec => InStreamOrder
<1>1. Init => OrderInv
  BY DEF Init, OrderInv
<1>2. IInv /\ HeldInv /\ OrderInv /\ [Next]_vars
        => [\A i, j \in Entry :
              /\ i < j
              /\ executions[j] = 0 /\ executions'[j] = 1
              /\ stream[i] = "rpc"
              /\ failed \cap {"read", "group"} = {}
              => answers[i] # {} \/ pending[i] \notin {Nobody, consumer}]_vars
  <2> SUFFICES ASSUME IInv, OrderInv, Next, NEW i \in Entry, NEW j \in Entry,
                      i < j, executions[j] = 0, executions'[j] = 1,
                      stream[i] = "rpc", Quiet
               PROVE  answers[i] # {} \/ pending[i] \notin {Nobody, consumer}
    BY DEF Quiet
  <2>1. HandleRpc
    BY DEF Next, Loop, LeaveLoop, ReadPending, SkipFresh, ReadFresh, HandleStopped,
       HandleGarbled, HandleExpired, ExecuteReturns, WriteResult, Ack,
       Close, Launch, Disturbance, GroupLost, HeartbeatRaises, ReadPendingFails, ReadFreshFails,
       WriteResultFails, AckFails, Crash, Environment, Add, DeadlinePasses,
       StopRequested
  <2>2. step = "parse" /\ executions' = [executions EXCEPT ![inHand] = executions[inHand] + 1]
    BY <2>1 DEF HandleRpc
  <2>3. inHand = j
    BY <2>2 DEF IInv, TypeOK
  <2> QED
    BY <2>2, <2>3 DEF OrderInv
<1> QED
  BY <1>1, <1>2, OrderStep, FinalInvariance, PTL DEF Spec, InStreamOrder

-----------------------------------------------------------------------------
(* The consumer implements CommandService *)

(* An outcome stays earned: executions grow and deadlines do not come back.*)
LEMMA EarnedStep == IInv /\ EarnedInv /\ [Next]_vars => EarnedInv'
<1>. SUFFICES ASSUME IInv, EarnedInv, [Next]_vars
              PROVE  EarnedInv'
  OBVIOUS
<1>a. TypeOK /\ HandInv
  BY DEF IInv, LostInv
<1>. USE <1>a DEF redis, process, bounds, EarnedInv, Goto, Drop
<1>1. CASE \/ LeaveLoop \/ ReadPending \/ SkipFresh \/ HandleStopped \/ HandleGarbled
           \/ WriteResult \/ Ack \/ Close \/ \E name \in Consumer : Launch(name)
  BY <1>1 DEF LeaveLoop, ReadPending, SkipFresh, HandleStopped, HandleGarbled,
              WriteResult, Ack, Close, Launch
<1>2. CASE ReadFresh \/ HeartbeatRaises \/ ReadPendingFails \/ ReadFreshFails
  BY <1>2 DEF ReadFresh, HeartbeatRaises, ReadPendingFails, ReadFreshFails
<1>3. CASE HandleExpired
  BY <1>3 DEF HandleExpired, Service!Earned
<1>4. CASE HandleRpc
  <2>1. inHand \in Entry
    BY <1>4, Positions, ConstantsAssumption DEF HandleRpc, HandInv, Holding, TypeOK, Entry
  <2>2. executions'[inHand] = executions[inHand] + 1 /\ executions[inHand] \in Nat
    BY <1>4, <2>1 DEF HandleRpc, TypeOK
  <2>. QED BY <1>4, <2>2 DEF HandleRpc
<1>5. CASE ExecuteReturns
  BY <1>5 DEF ExecuteReturns, Service!Earned
<1>6. CASE WriteResultFails \/ AckFails \/ Crash
  BY <1>6 DEF WriteResultFails, AckFails, Crash
<1>7. CASE GroupLost \/ StopRequested
  BY <1>7 DEF GroupLost, StopRequested, Service!Earned
<1>8. CASE \E kind \in {"rpc", "garbled"} : Add(kind)
  <2>1. step \in Holding => stream'[inHand] = stream[inHand]
    BY <1>8 DEF Add, HandInv, TypeOK
  <2>. QED BY <1>8, <2>1 DEF Add, Holding, Service!Earned
<1>9. CASE \E i \in Entry : DeadlinePasses(i)
  BY <1>9 DEF DeadlinePasses, Service!Earned
<1>10. CASE UNCHANGED vars
  BY <1>10 DEF vars, Service!Earned
<1>. QED
  BY <1>1, <1>2, <1>3, <1>4, <1>5, <1>6, <1>7, <1>8, <1>9, <1>10
     DEF Next, Loop, Disturbance, Environment

(* While a command is handled it is not done with. *)
LEMMA InHandIsOpen ==
    ASSUME IInv, HeldInv, step \in {"parse", "execute", "reply"}
    PROVE  inHand \in Entry /\ inHand \in Service!Open
<1>1. inHand \in Entry /\ inHand <= Len(stream)
  BY Positions, ConstantsAssumption DEF IInv, LostInv, HandInv, Holding, Entry, TypeOK
<1>2. delivered = NoGroup \/ pending[inHand] = consumer
  BY DEF IInv, LostInv, PendingInv, HeldInv
<1>3. inHand \notin Settled
  BY <1>2, ConstantsAssumption DEF Settled, IInv, TypeOK, NoGroup
<1>. QED BY <1>1, <1>3 DEF Service!Open

(* Creating the group anew settles nothing. *)
LEMMA GroupSettlesNothing ==
    ASSUME TypeOK, UNCHANGED pending, delivered' = IF GroupExists THEN delivered ELSE 0
    PROVE  Settled' = Settled
BY DEF Settled, GroupExists, NoGroup, TypeOK

(* Neither does a delivery. *)
LEMMA DeliverySettlesNothing ==
    ASSUME TypeOK, Deliver
    PROVE  Settled' = Settled
<1>1. /\ delivered \in Int /\ delivered' \in Int /\ delivered < delivered'
      /\ pending'[delivered'] # Nobody
  BY Delivery, EarlierStay, Positions
<1>2. ASSUME NEW i
      PROVE  i \in Settled' <=> i \in Settled
  <2>1. ASSUME i \in Settled' PROVE i \in Settled
    BY <1>1, <2>1, EarlierStay DEF Settled
  <2>2. ASSUME i \in Settled PROVE i \in Settled'
    <3>1. i \in 1..delivered' /\ i # delivered'
      BY <1>1, <2>2 DEF Settled
    <3>. QED BY <2>2, <3>1, EarlierStay DEF Settled
  <2>. QED BY <2>1, <2>2
<1>. QED BY <1>2

(* An acknowledgement settles the entry in hand, if it was still pending.  *)
LEMMA AckSettles ==
    ASSUME IInv, step = "ack", Acknowledge,
           UNCHANGED <<stream, expired, executions, answers, delivered>>
    PROVE  UNCHANGED Service!vars \/ Service!Settle(inHand)
<1>1. inHand \in Entry /\ inHand \in 1..Len(stream)
  BY Positions, ConstantsAssumption DEF IInv, LostInv, HandInv, Holding, Entry, TypeOK
<1>2. /\ \A i \in Entry : i # inHand => pending'[i] = pending[i]
      /\ pending'[inHand] = Nobody
  BY <1>1 DEF Acknowledge, IInv, TypeOK
<1>3. \A i \in 1..delivered : i \in Entry
  BY Positions, ConstantsAssumption DEF IInv, Entry
<1>4. CASE pending[inHand] = Nobody
  <2>1. Settled' = Settled
    BY <1>2, <1>3, <1>4 DEF Settled
  <2>. QED BY <2>1 DEF Service!vars
<1>5. CASE pending[inHand] # Nobody
  <2>1. inHand \in 1..delivered
    BY <1>1, <1>5, Positions DEF IInv, LostInv, PendingInv
  <2>2. Settled' = Settled \cup {inHand} /\ inHand \notin Settled
    BY <1>2, <1>3, <1>5, <2>1 DEF Settled
  <2>3. stream[inHand] = "rpc" => answers[inHand] # {}
    BY DEF IInv, LostInv, HandInv
  <2>. QED BY <1>1, <2>2, <2>3 DEF Service!Settle, Service!Open
<1>. QED BY <1>4, <1>5

(* Storing an answer is the service's Answer. *)
LEMMA StoreAnswers ==
    ASSUME IInv, HeldInv, EarnedInv, step = "reply", StoreAnswer,
           UNCHANGED <<stream, expired, executions, delivered, pending>>
    PROVE  inHand \in Entry /\ verdict \in Outcomes /\ Service!Answer(inHand, verdict)
<1>1. inHand \in Entry /\ inHand \in Service!Open
  BY InHandIsOpen
<1>2. stream[inHand] = "rpc" /\ Service!Earned(inHand, verdict) /\ verdict \in Outcomes
  BY DEF EarnedInv, IInv, LostInv, HandInv
<1>3. Settled' = Settled
  BY DEF Settled
<1>. QED BY <1>1, <1>2, <1>3 DEF Service!Answer, StoreAnswer

(* Every step of the consumer and of its surroundings is a step of the     *)
(* service or changes nothing a caller can see.                            *)
LEMMA StepServes ==
    IInv /\ HeldInv /\ EarnedInv /\ [Next]_vars => [Service!Next]_(Service!vars)
<1>. SUFFICES ASSUME IInv, HeldInv, EarnedInv, [Next]_vars
              PROVE  Service!Next \/ UNCHANGED Service!vars
  OBVIOUS
<1>a. TypeOK /\ PendingInv
  BY DEF IInv, LostInv
<1>. USE DEF redis, process, bounds
<1>1. CASE \/ LeaveLoop \/ SkipFresh \/ HandleStopped \/ HandleGarbled
           \/ HandleExpired \/ ExecuteReturns \/ Close \/ HeartbeatRaises
           \/ ReadPendingFails \/ Crash \/ StopRequested \/ UNCHANGED vars
  BY <1>1 DEF LeaveLoop, SkipFresh, HandleStopped, HandleGarbled, HandleExpired,
              ExecuteReturns, Close, HeartbeatRaises, ReadPendingFails, Crash, StopRequested, vars,
              Service!vars, Settled
<1>2. CASE ReadPending \/ \E name \in Consumer : Launch(name)
  <2>1. /\ UNCHANGED <<stream, expired, executions, answers, pending>>
        /\ delivered' = IF GroupExists THEN delivered ELSE 0
    BY <1>2 DEF ReadPending, Launch
  <2>. QED BY <1>a, <2>1, GroupSettlesNothing DEF Service!vars
<1>3. CASE ReadFresh
  <2>1. CASE Deliver
    BY <1>a, <1>3, <2>1, DeliverySettlesNothing DEF ReadFresh, Service!vars
  <2>2. CASE ~Deliver
    <3>1. /\ delivered' = IF GroupExists THEN delivered ELSE 0
          /\ UNCHANGED <<stream, expired, executions, answers, pending>>
      BY <1>3, <2>2 DEF ReadFresh, Position
    <3>. QED BY <1>a, <3>1, GroupSettlesNothing DEF Service!vars
  <2>. QED BY <2>1, <2>2
<1>4. CASE ReadFreshFails
  <2>1. CASE Deliver
    BY <1>a, <1>4, <2>1, DeliverySettlesNothing DEF ReadFreshFails, Service!vars
  <2>2. CASE ~Deliver
    BY <1>4, <2>2 DEF ReadFreshFails, Service!vars, Settled
  <2>. QED BY <2>1, <2>2
<1>5. CASE HandleRpc
  <2>1. inHand \in Entry /\ inHand \in Service!Open
    BY <1>5, InHandIsOpen DEF HandleRpc
  <2>2. Service!Execute(inHand)
    BY <1>5, <2>1 DEF HandleRpc, Service!Execute, Settled
  <2>. QED BY <2>1, <2>2 DEF Service!Next
<1>6. CASE WriteResult
  <2>1. inHand \in Entry /\ verdict \in Outcomes /\ Service!Answer(inHand, verdict)
    BY <1>6, StoreAnswers DEF WriteResult
  <2>. QED BY <2>1 DEF Service!Next, Outcomes
<1>7. CASE WriteResultFails
  <2>1. CASE StoreAnswer
    <3>1. inHand \in Entry /\ verdict \in Outcomes /\ Service!Answer(inHand, verdict)
      BY <1>7, <2>1, StoreAnswers DEF WriteResultFails
    <3>. QED BY <3>1 DEF Service!Next, Outcomes
  <2>2. CASE UNCHANGED answers
    BY <1>7, <2>2 DEF WriteResultFails, Service!vars, Settled
  <2>. QED BY <1>7, <2>1, <2>2 DEF WriteResultFails
<1>8. CASE Ack \/ AckFails
  <2>1. CASE Acknowledge
    <3>1. UNCHANGED Service!vars \/ Service!Settle(inHand)
      BY <1>8, <2>1, AckSettles DEF Ack, AckFails
    <3>2. inHand \in Entry
      BY <1>8, Positions, ConstantsAssumption
         DEF Ack, AckFails, IInv, LostInv, HandInv, Holding, Entry, TypeOK
    <3>. QED BY <3>1, <3>2 DEF Service!Next
  <2>2. CASE UNCHANGED pending
    BY <1>8, <2>2 DEF Ack, AckFails, Service!vars, Settled
  <2>. QED BY <1>8, <2>1, <2>2 DEF Ack, AckFails
<1>9. CASE GroupLost
  <2>1. Settled' = {} /\ "group" \in Faults
    BY <1>9 DEF GroupLost, Settled, NoGroup, Fault
  <2>. QED BY <1>9, <2>1 DEF GroupLost, Service!Next, Service!Forget
<1>10. CASE \E kind \in {"rpc", "garbled"} : Add(kind)
  BY <1>10 DEF Add, Service!Next, Service!Submit, Settled
<1>11. CASE \E i \in Entry : DeadlinePasses(i)
  BY <1>11 DEF DeadlinePasses, Service!Next, Service!Expire, Settled
<1>. QED
  BY <1>1, <1>2, <1>3, <1>4, <1>5, <1>6, <1>7, <1>8, <1>9, <1>10, <1>11
     DEF Next, Loop, Disturbance, Environment

(* The consumer implements CommandService, for every set of names, every   *)
(* choice of faults and all bounds: what a caller sees of crashes, lost    *)
(* replies and hand-overs is at most a repeated execution.                 *)
THEOREM ServiceRefinement == Spec => ImplementsCommandService
<1>1. Init => Service!Init /\ EarnedInv
  BY DEF Init, Service!Init, EarnedInv, Settled, NoGroup
<1>2. IInv /\ HeldInv /\ EarnedInv /\ [Next]_vars => [Service!Next]_(Service!vars)
  BY StepServes
<1>. QED
  BY <1>1, <1>2, EarnedStep, FinalInvariance, PTL
     DEF Spec, ImplementsCommandService, Service!Spec

-----------------------------------------------------------------------------
(* The two threads and the health *)

(* Only write_health_now ticks on the main thread, and nothing else; the   *)
(* probe thread is over before the slots are disconnected.                 *)
ThreadsInv ==
    /\ main # "tell" => tick["main"] = "wait"
    /\ main \in {"connect", "disconnect", "final", "exiting", "exited"}
          /\ "join" \notin lapses
           => tick["probe"] = "off"

(* So that nobody writes over the shutdown's health.                       *)
LastWriteInv ==
    main \in {"exiting", "exited"} /\ ~raised /\ lapses = {}
        => ~health.alive /\ health.conn = AllDown

LEMMA HostIsASlot == "Host" \in Slot /\ Slot \subseteq {"Host", "Secondary"}
  BY DEF Slot

(* What a thread reads and writes are health records.                      *)
LEMMA ReadingTypes ==
    ASSUME HBTypeOK
    PROVE  Reading \in Health /\ NoSnapshot \in Health /\ AllDown \in [Slot -> BOOLEAN]
  BY DEF HBTypeOK, Reading, NoSnapshot, AllDown, Health

(* A thread in _tick keeps every variable's type.                          *)
LEMMA TickTypes ==
    ASSUME HBTypeOK, NEW w \in Writer, TickStep(w)
    PROVE  HBTypeOK'
<1>1. CASE ReadHint(w)
  <2>1. [snap[w] EXCEPT !.hint = hint] \in Health
    BY DEF HBTypeOK, Health
  <2>. QED
    BY <1>1, <2>1
       DEF ReadHint, HBTypeOK, TickStates, slots, heartbeat, published, ending
<1>2. CASE WriteHealth(w)
  <2>1. health' \in Health
    BY <1>2 DEF WriteHealth, HBTypeOK, Health
  <2>. QED
    BY <1>2, <2>1
       DEF WriteHealth, HBTypeOK, TickStates, slots, heartbeat, ending
<1>3. CASE Publish(w)
  <2>1. snap[w].conn \in [Slot -> BOOLEAN]
    BY DEF HBTypeOK, Health
  <2>2. main' \in MainStates
    BY <1>3 DEF Publish, HBTypeOK, MainStates
  <2>. QED
    BY <1>3, <2>1, <2>2, ReadingTypes
       DEF Publish, HBTypeOK, TickStates, slots, heartbeat, ending
<1>. QED
  BY <1>1, <1>2, <1>3 DEF TickStep

(* What the tracker has seen of a reading is a status for every slot.      *)
LEMMA ToldTypes ==
    ASSUME HBTypeOK, NEW reading \in [Slot -> BOOLEAN], ToldInPart(reading)
    PROVE  told' \in [Slot -> BOOLEAN]
  BY DEF HBTypeOK, ToldInPart

(* Failing calls keep every variable's type.                               *)
LEMMA FailureTypes ==
    ASSUME HBTypeOK, Failure
    PROVE  HBTypeOK'
<1>a. Disturbed
  BY DEF Failure, StartRaises, WriteHealthFails, PublishRaises, LoopRaises,
         DisconnectFails, FinalHealthFails
<1>b. disturbances' \in 0..MaxDisturbances
  BY <1>a, HBConstants DEF Disturbed, HBTypeOK
<1> USE <1>b, HostIsASlot, ReadingTypes
    DEF HBTypeOK, MainStates, TickStates, Writer, slots, heartbeat, published, ending
<1>1. CASE StartRaises
  <2>1. conn' \in [Slot -> BOOLEAN]
    BY <1>1 DEF StartRaises
  <2>2. health' \in Health
    <3>1. CASE health' = [conn |-> conn', hint |-> NoSlot, alive |-> TRUE]
      BY <2>1, <3>1 DEF Health
    <3>. QED
      BY <1>1, <3>1 DEF StartRaises
  <2>3. told' \in [Slot -> BOOLEAN]
    BY <1>1, <2>1, ToldTypes DEF StartRaises
  <2>. QED
    BY <1>1, <2>1, <2>2, <2>3 DEF StartRaises
<1>2. ASSUME NEW w \in Writer, WriteHealthFails(w)
      PROVE  HBTypeOK'
  BY <1>2 DEF WriteHealthFails
<1>3. ASSUME NEW w \in Writer, PublishRaises(w)
      PROVE  HBTypeOK'
  <2>1. snap[w].conn \in [Slot -> BOOLEAN]
    BY DEF Health
  <2>2. told' \in [Slot -> BOOLEAN]
    BY <1>3, <2>1, ToldTypes DEF PublishRaises
  <2>3. /\ main' \in MainStates /\ stop' \in BOOLEAN /\ raised' \in BOOLEAN
        /\ UNCHANGED lapses
    BY <1>3 DEF PublishRaises
  <2>4. tick' \in [Writer -> TickStates] /\ snap' \in [Writer -> Health]
    BY <1>3 DEF PublishRaises
  <2>. QED
    BY <1>3, <2>2, <2>3, <2>4 DEF PublishRaises
<1>4. CASE LoopRaises
  BY <1>4 DEF LoopRaises
<1>5. CASE DisconnectFails
  <2>1. conn' \in [Slot -> BOOLEAN] /\ blind' \subseteq Slot /\ main' \in MainStates
    BY <1>5 DEF DisconnectFails, Disconnected
  <2>. QED
    BY <1>5, <2>1 DEF DisconnectFails
<1>6. CASE FinalHealthFails
  BY <1>6 DEF FinalHealthFails
<1>. QED
  BY <1>1, <1>2, <1>3, <1>4, <1>5, <1>6 DEF Failure

(* So do the main thread's own steps,                                      *)
LEMMA MainTypes ==
    ASSUME HBTypeOK, MainStep \/ HeartbeatDue
    PROVE  HBTypeOK'
<1> USE HostIsASlot, ReadingTypes
    DEF HBTypeOK, MainStates, TickStates, Writer, slots, heartbeat, published, ending
<1>1. CASE InitialConnect
  <2>1. conn' \in [Slot -> BOOLEAN]
    BY <1>1 DEF InitialConnect
  <2>2. health' \in Health
    BY <1>1, <2>1 DEF InitialConnect, Health, NoSlot
  <2>. QED
    BY <1>1, <2>1, <2>2 DEF InitialConnect
<1>2. CASE TellBegins
  BY <1>2 DEF TellBegins, Enter
<1>3. CASE TickStep("main")
  BY <1>3, TickTypes
<1>4. CASE LoopQuiet
  BY <1>4 DEF LoopQuiet
<1>5. CASE LoopHeartbeat
  <2>1. Target \in Slot \cup {NoSlot}
    BY DEF Target, Slot
  <2>. QED
    BY <1>5, <2>1 DEF LoopHeartbeat
<1>6. CASE \E ok \in BOOLEAN : Reconnect(ok)
  <2>1. conn' \in [Slot -> BOOLEAN]
    BY <1>6 DEF Reconnect
  <2>. QED
    BY <1>6, <2>1 DEF Reconnect, ClearedLabel
<1>7. CASE ServeReturns \/ LoopStops \/ Join \/ JoinTimesOut
  BY <1>7 DEF ServeReturns, LoopStops, Join, JoinTimesOut
<1>8. CASE DisconnectAll
  BY <1>8 DEF DisconnectAll, Disconnected, AllDown
<1>9. CASE FinalHealth
  <2>1. health' \in Health
    BY <1>9 DEF FinalHealth, Health
  <2>. QED
    BY <1>9, <2>1 DEF FinalHealth
<1>10. CASE Exit
  BY <1>10 DEF Exit, AllDown
<1>11. CASE HeartbeatDue
  BY <1>11 DEF HeartbeatDue
<1>. QED
  BY <1>1, <1>2, <1>3, <1>4, <1>5, <1>6, <1>7, <1>8, <1>9, <1>10, <1>11 DEF MainStep

(* the probe's and the outside's.                                          *)
LEMMA OutsideTypes ==
    ASSUME HBTypeOK, ProbeStep \/ Outside
    PROVE  HBTypeOK'
<1> USE HostIsASlot, ReadingTypes, HBConstants
    DEF HBTypeOK, MainStates, TickStates, Writer, slots, heartbeat, published, ending
<1>1. CASE ProbeTick \/ ProbeStops
  <2>1. tick' \in [Writer -> TickStates] /\ snap' \in [Writer -> Health]
    BY <1>1 DEF ProbeTick, ProbeStops, Enter
  <2>2. UNCHANGED <<slots, heartbeat, main, published, ending, disturbances>>
    BY <1>1 DEF ProbeTick, ProbeStops, Enter
  <2>. QED
    BY <2>1, <2>2
<1>2. CASE TickStep("probe")
  BY <1>2, TickTypes
<1>3. Disturbed => disturbances' \in 0..MaxDisturbances
  BY DEF Disturbed
<1>4. CASE CommandChangesSlots
  <2>1. conn' \in [Slot -> BOOLEAN] /\ blind' \subseteq Slot
    BY <1>4 DEF CommandChangesSlots
  <2>. QED
    BY <1>4, <1>3, <2>1 DEF CommandChangesSlots
<1>6. ASSUME NEW s \in Slot, GatewayChanges(s)
      PROVE  HBTypeOK'
  <2>1. conn' \in [Slot -> BOOLEAN] /\ gateway' \in [Slot -> BOOLEAN]
    BY <1>6 DEF GatewayChanges
  <2>. QED
    BY <1>6, <1>3, <2>1 DEF GatewayChanges
<1>7. ASSUME NEW s \in Slot, ConnectionDrops(s)
      PROVE  HBTypeOK'
  <2>1. conn' \in [Slot -> BOOLEAN]
    BY <1>7 DEF ConnectionDrops
  <2>. QED
    BY <1>7, <1>3, <2>1 DEF ConnectionDrops
<1>8. CASE StopIsSet
  BY <1>8 DEF StopIsSet
<1>. QED
  BY <1>1, <1>2, <1>4, <1>6, <1>7, <1>8 DEF ProbeStep, Outside

(* Every variable of the two threads has its type.                         *)
THEOREM HeartbeatTypeCorrect == HBSpec => []HBTypeOK
<1>1. HBInit => HBTypeOK
  <2> SUFFICES ASSUME HBInit PROVE HBTypeOK
    OBVIOUS
  <2>1. AllDown \in [Slot -> BOOLEAN]
    BY DEF AllDown
  <2>2. NoSnapshot \in Health /\ health \in Health
    BY <2>1 DEF HBInit, NoSnapshot, Health
  <2>3. tick \in [Writer -> TickStates] /\ snap \in [Writer -> Health]
    BY <2>2 DEF HBInit, TickStates, Writer
  <2>4. main \in MainStates /\ disturbances \in 0..MaxDisturbances
    BY HBConstants DEF HBInit, MainStates
  <2>. QED
    BY <2>1, <2>2, <2>3, <2>4 DEF HBInit, HBTypeOK
<1>2. HBTypeOK /\ [HBNext]_hbVars => HBTypeOK'
  <2> SUFFICES ASSUME HBTypeOK, [HBNext]_hbVars PROVE HBTypeOK'
    OBVIOUS
  <2>1. CASE UNCHANGED hbVars
    BY <2>1 DEF hbVars, HBTypeOK, slots, heartbeat, published, ending
  <2>. QED
    BY <2>1, MainTypes, FailureTypes, OutsideTypes DEF HBNext
<1>. QED
  BY <1>1, <1>2, PTL DEF HBSpec

(* A thread writes the health only inside _tick, where no thread is while  *)
(* the slots are disconnected and after, unless one outlasted the join.    *)
LEMMA ThreadsStep ==
    ASSUME HBTypeOK, ThreadsInv, [HBNext]_hbVars
    PROVE  ThreadsInv'
<1> USE DEF HBTypeOK, ThreadsInv, Writer, slots, heartbeat, published, ending
<1>1. CASE InitialConnect
  BY <1>1 DEF InitialConnect
<1>2. CASE TellBegins \/ ProbeTick
  BY <1>2 DEF TellBegins, ProbeTick, Enter
<1>3. ASSUME NEW w \in Writer, TickStep(w)
      PROVE  ThreadsInv'
  BY <1>3 DEF TickStep, ReadHint, WriteHealth, Publish
<1>4. CASE ProbeStops \/ Exit
  BY <1>4 DEF ProbeStops, Exit
<1>5. CASE LoopQuiet \/ LoopHeartbeat \/ ServeReturns \/ LoopRaises \/ LoopStops
  BY <1>5 DEF LoopQuiet, LoopHeartbeat, ServeReturns, LoopRaises, LoopStops
<1>12. CASE StartRaises
  BY <1>12 DEF StartRaises
<1>13. ASSUME NEW w \in Writer, WriteHealthFails(w) \/ PublishRaises(w)
       PROVE  ThreadsInv'
  BY <1>13 DEF WriteHealthFails, PublishRaises
<1>6. CASE \E ok \in BOOLEAN : Reconnect(ok)
  BY <1>6 DEF Reconnect
<1>7. CASE Join \/ JoinTimesOut
  BY <1>7 DEF Join, JoinOver, JoinTimesOut
<1>8. CASE DisconnectAll \/ DisconnectFails \/ FinalHealth \/ FinalHealthFails
  BY <1>8 DEF DisconnectAll, DisconnectFails, Disconnected, FinalHealth, FinalHealthFails
<1>9. CASE HeartbeatDue \/ CommandChangesSlots \/ StopIsSet
  BY <1>9 DEF HeartbeatDue, CommandChangesSlots, StopIsSet
<1>10. CASE \E s \in Slot : GatewayChanges(s) \/ ConnectionDrops(s)
  BY <1>10 DEF GatewayChanges, ConnectionDrops
<1>11. CASE UNCHANGED hbVars
  BY <1>11 DEF hbVars
<1>. QED
  BY <1>1, <1>2, <1>3, <1>4, <1>5, <1>6, <1>7, <1>8, <1>9, <1>10, <1>11, <1>12, <1>13
     DEF HBNext, MainStep, ProbeStep, Failure, Outside

(* The shutdown's write is the last one.                                   *)
LEMMA LastWriteStep ==
    ASSUME HBTypeOK, ThreadsInv, LastWriteInv, [HBNext]_hbVars
    PROVE  LastWriteInv'
<1> USE DEF HBTypeOK, ThreadsInv, LastWriteInv, Writer, slots, heartbeat, published, ending
<1>1. CASE InitialConnect
  BY <1>1 DEF InitialConnect
<1>2. CASE TellBegins \/ ProbeTick \/ ProbeStops
  BY <1>2 DEF TellBegins, ProbeTick, ProbeStops, Enter
<1>3. ASSUME NEW w \in Writer, TickStep(w)
      PROVE  LastWriteInv'
  <2>1. main \in {"exiting", "exited"} => "join" \in lapses
    BY <1>3 DEF TickStep, ReadHint, WriteHealth, Publish
  <2>. QED
    BY <1>3, <2>1 DEF TickStep, ReadHint, WriteHealth, Publish
<1>4. CASE Exit
  BY <1>4 DEF Exit
<1>5. CASE \/ LoopQuiet \/ LoopHeartbeat \/ ServeReturns \/ LoopRaises \/ LoopStops
           \/ Join \/ JoinTimesOut
  BY <1>5 DEF LoopQuiet, LoopHeartbeat, ServeReturns, LoopRaises, LoopStops, Join,
              JoinTimesOut
<1>12. CASE StartRaises
  BY <1>12 DEF StartRaises
<1>13. ASSUME NEW w \in Writer, WriteHealthFails(w) \/ PublishRaises(w)
       PROVE  LastWriteInv'
  BY <1>13 DEF WriteHealthFails, PublishRaises
<1>6. CASE \E ok \in BOOLEAN : Reconnect(ok)
  BY <1>6 DEF Reconnect
<1>7. CASE DisconnectAll \/ DisconnectFails
  BY <1>7 DEF DisconnectAll, DisconnectFails, Disconnected
<1>8. CASE FinalHealth \/ FinalHealthFails
  BY <1>8 DEF FinalHealth, FinalHealthFails, Health
<1>9. CASE HeartbeatDue \/ CommandChangesSlots \/ StopIsSet
  BY <1>9 DEF HeartbeatDue, CommandChangesSlots, StopIsSet
<1>10. CASE \E s \in Slot : GatewayChanges(s) \/ ConnectionDrops(s)
  BY <1>10 DEF GatewayChanges, ConnectionDrops
<1>11. CASE UNCHANGED hbVars
  BY <1>11 DEF hbVars
<1>. QED
  BY <1>1, <1>2, <1>3, <1>4, <1>5, <1>6, <1>7, <1>8, <1>9, <1>10, <1>11, <1>12, <1>13
     DEF HBNext, MainStep, ProbeStep, Failure, Outside

(* When the service was stopped and its process is gone, the health hash   *)
(* says so, whatever was going on when it stopped: an outage, a command, a *)
(* reconnect attempt or a probe in the middle of its tick, and whatever    *)
(* failed before; unless an exception left the loop function, a tick       *)
(* outlasted the join, or the shutdown's own write failed.                 *)
THEOREM ShutdownIsPublished == HBSpec => []DownAfterStop
<1>1. HBInit => ThreadsInv /\ LastWriteInv
  BY DEF HBInit, ThreadsInv, LastWriteInv, Writer
<1>2. HBTypeOK /\ ThreadsInv /\ LastWriteInv /\ [HBNext]_hbVars
          => (ThreadsInv /\ LastWriteInv)'
  BY ThreadsStep, LastWriteStep
<1>3. LastWriteInv => DownAfterStop
  BY DEF LastWriteInv, DownAfterStop
<1>. QED
  BY <1>1, <1>2, <1>3, HeartbeatTypeCorrect, PTL DEF HBSpec

=============================================================================
