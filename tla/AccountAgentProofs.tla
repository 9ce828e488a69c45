-------------------------- MODULE AccountAgentProofs --------------------------
(***************************************************************************)
(* Theorems about the Account Agent, with or without a Secondary, for every*)
(* set of fills, every choice of faults and all bounds.                    *)
(***************************************************************************)

EXTENDS AccountAgent, TLAPS

-----------------------------------------------------------------------------
(* The inductive invariant *)

(* The variables' types, apart from what relates them. *)
Types ==
    /\ conn \in [Slot -> BOOLEAN]
    /\ handlers \in [Slot -> 0 .. 2]
    /\ main \in MainStates
    /\ streak \in 0 .. FailLimit
    /\ probe \in ProbeStates
    /\ targets \subseteq Slot
    /\ blind \subseteq Slot
    /\ held \in [Slot -> {"none", "up", "down"}]
    /\ due \in BOOLEAN /\ disconnected \in BOOLEAN /\ lost \in BOOLEAN
    /\ leaving \in BOOLEAN /\ cancelled \in BOOLEAN /\ stop \in BOOLEAN
    /\ fills \subseteq Fill
    /\ buffer \in [Fill -> 0 .. 2]
    /\ taken \in [Fill -> 0 .. 2]
    /\ written \in [Fill -> Nat]
    /\ changes \in 0 .. MaxChanges
    /\ failures \in 0 .. MaxFailures
    /\ failed \subseteq Faults

(* Handlers, and a held connector that is up, belong to an open connection;*)
(* a blind slot is one that is up.                                         *)
LinkInv ==
    /\ \A s \in Slot : ~conn[s] => handlers[s] = 0 /\ s \notin blind
    /\ \A s \in Slot : held[s] = "up" => conn[s]

(* The while loop is entered again only below the limit. *)
StreakInv ==
    main \in {"check", "accounts", "copy", "clear", "write", "wait"} => streak < FailLimit

(* A fill that was not handed over is nowhere. *)
FillInv ==
    \A f \in Fill \ fills : buffer[f] = 0 /\ taken[f] = 0 /\ written[f] = 0

(* Where no connection may have handlers yet, nor be blind. *)
Fresh ==
    \/ main \in {"start", "connect", "begin", "delay"}
    \/ main = "ended" /\ ~leaving

(* Unless a status message failed: the probe task lives, a session begins  *)
(* with connections without handlers, and subscribes to each once.         *)
HandlerInv ==
    /\ probe = "dead" => "publish" \in failed
    /\ "publish" \notin failed =>
          /\ \A s \in Slot : handlers[s] <= 1
          /\ Fresh => blind = {} /\ \A s \in Slot : handlers[s] = 0
          /\ main = "hostorders" => \A s \in Second : handlers[s] = 0

(* Unless a status message failed, a fill is in one place: in the buffer,  *)
(* on its way or written; between the copy and the clear the buffer has it *)
(* still.                                                                  *)
PlaceInv ==
    "publish" \notin failed =>
        \A f \in Fill :
            /\ buffer[f] + written[f] <= 1
            /\ taken[f] + written[f] <= 1
            /\ main # "clear" => buffer[f] + taken[f] + written[f] <= 1

IInv ==
    Types /\ LinkInv /\ StreakInv /\ FillInv /\ HandlerInv /\ PlaceInv

-----------------------------------------------------------------------------
(* Lemmas *)

(* Faults are counted up to their bound. *)
LEMMA FaultType ==
    ASSUME Types, NEW kind, Fault(kind)
    PROVE  /\ changes' = changes /\ failures' \in 0 .. MaxFailures
           /\ failed' = failed \cup {kind} /\ failed' \subseteq Faults
BY ConstantsAssumption DEF Types, Fault

(* So are the changes of the world. *)
LEMMA ChangeType ==
    ASSUME Types, Change
    PROVE  changes' \in 0 .. MaxChanges /\ failures' = failures /\ failed' = failed
BY ConstantsAssumption DEF Types, Change

(* Adding handlers keeps their type. *)
LEMMA SubscribedType ==
    ASSUME Types, NEW s \in Slot
    PROVE  /\ Subscribed(s) \in [Slot -> 0 .. 2]
           /\ \A r \in Slot : r # s => Subscribed(s)[r] = handlers[r]
           /\ handlers[s] = 0 => Subscribed(s)[s] = 1
BY DEF Types, Subscribed

(* The Secondary is the only second slot. *)
LEMMA SecondIs ==
    /\ Second \subseteq Slot
    /\ \A s \in Second : s = "Secondary"
    /\ "Host" \in Slot /\ "Host" \notin Second
BY ConstantsAssumption DEF Second

(* Every step keeps the types. *)
LEMMA TypeStep ==
    ASSUME IInv, Next
    PROVE  Types'
<1>1. Types /\ LinkInv /\ StreakInv
  BY DEF IInv
<1>f. \A kind : Fault(kind) => /\ changes' \in 0 .. MaxChanges
                              /\ failures' \in 0 .. MaxFailures
                              /\ failed' \subseteq Faults
  BY <1>1, FaultType DEF Types
<1>c. Change => /\ changes' \in 0 .. MaxChanges
                /\ failures' \in 0 .. MaxFailures
                /\ failed' \subseteq Faults
  BY <1>1, ChangeType DEF Types
<1>. USE <1>1, ConstantsAssumption, FaultType, ChangeType
     DEF Types, linked, links, probing, ending, executions, bounds, MainStates, ProbeStates, NoFills
<1>2. CASE StartSession
  <2>1. buffer' \in [Fill -> 0 .. 2]
    BY <1>2 DEF StartSession
  <2>2. main' \in MainStates /\ disconnected' \in BOOLEAN
    BY <1>2 DEF StartSession
  <2>. QED BY <1>2, <2>1, <2>2 DEF StartSession
<1>3. CASE ConnectReturns
  BY <1>3 DEF ConnectReturns, Connects
<1>4. CASE Begin
  <2>1. main' \in MainStates /\ changes' \in 0 .. MaxChanges
        /\ failures' \in 0 .. MaxFailures /\ failed' \subseteq Faults
    BY <1>4 DEF Begin, Either
  <2>2. handlers' \in [Slot -> 0 .. 2]
    <3>1. Subscribed("Host") \in [Slot -> 0 .. 2]
      BY SecondIs, SubscribedType
    <3>2. handlers' = Subscribed("Host") \/ handlers' = handlers
      BY <1>4 DEF Begin
    <3>. QED BY <3>1, <3>2
  <2>3. held' \in [Slot -> {"none", "up", "down"}] /\ probe' \in ProbeStates
    BY <1>4 DEF Begin
  <2>. QED BY <1>4, <2>1, <2>2, <2>3 DEF Begin
<1>5. CASE SubscribeSecondary
  <2>1. handlers' \in [Slot -> 0 .. 2]
    BY <1>5, SecondIs, SubscribedType DEF SubscribeSecondary, LinkInv
  <2>. QED BY <1>5, <2>1 DEF SubscribeSecondary
<1>6. CASE EnterLoop
  BY <1>6 DEF EnterLoop, NoneHeld
<1>7. CASE Iterate
  <2>1. streak' \in 0 .. FailLimit
    BY <1>7 DEF Iterate, StreakInv
  <2>2. main' \in MainStates
    BY <1>7 DEF Iterate
  <2>. QED BY <1>7, <2>1, <2>2 DEF Iterate
<1>8. CASE AccountsReturn
  BY <1>8 DEF AccountsReturn
<1>9. CASE AccountsFail
  BY <1>9 DEF AccountsFail, Fault
<1>10. CASE CopyFills
  BY <1>10 DEF CopyFills
<1>11. CASE ClearFills
  BY <1>11 DEF ClearFills, RowsCleared
<1>12. CASE WriteSnapshot
  BY <1>12 DEF WriteSnapshot, Fault
<1>13. CASE WaitReturns
  BY <1>13 DEF WaitReturns
<1>14. CASE CancelProbe
  BY <1>14 DEF CancelProbe
<1>15. CASE Join
  BY <1>15 DEF Join
<1>16. CASE HangUp
  <2>1. conn' \in [Slot -> BOOLEAN]
    BY <1>16 DEF HangUp
  <2>2. handlers' \in [Slot -> 0 .. 2]
    BY <1>16 DEF HangUp
  <2>3. main' \in MainStates /\ held' = NoneHeld /\ blind' \subseteq Slot
    BY <1>16 DEF HangUp
  <2>. QED BY <1>16, <2>1, <2>2, <2>3 DEF HangUp, NoneHeld
<1>17. CASE Ended
  BY <1>17 DEF Ended, Either, Fault
<1>18. CASE Delay
  BY <1>18 DEF Delay
<1>19. CASE Final
  BY <1>19 DEF Final
<1>20. CASE Restart
  <2>1. conn' \in [Slot -> BOOLEAN] /\ handlers' \in [Slot -> 0 .. 2]
    BY <1>20 DEF Restart, NoneHeld
  <2>2. buffer' \in [Fill -> 0 .. 2] /\ taken' \in [Fill -> 0 .. 2]
    BY <1>20 DEF Restart, NoneHeld
  <2>3. main' \in MainStates /\ probe' \in ProbeStates /\ streak' \in 0 .. FailLimit
    BY <1>20 DEF Restart, NoneHeld
  <2>. QED BY <1>20, <2>1, <2>2, <2>3 DEF Restart, NoneHeld
<1>21. CASE ProbeTick
  <2>1. /\ changes' \in 0 .. MaxChanges /\ failures' \in 0 .. MaxFailures
        /\ failed' \subseteq Faults
    BY <1>21, <1>f DEF ProbeTick
  <2>. QED BY <1>21, <2>1 DEF ProbeTick, Noticed, Reported, Down
<1>22. CASE ProbeStops
  BY <1>22 DEF ProbeStops
<1>23. CASE ReconnectReturns
  BY <1>23 DEF ReconnectReturns, Connects
<1>24. CASE \E s \in Slot : Drop(s)
  BY <1>24 DEF Drop, Change
<1>29. CASE \E s \in Slot : RequestReconnects(s)
  BY <1>29 DEF RequestReconnects, Requested
<1>25. CASE \E f \in Fill : FillArrives(f)
  <2>1. PICK f \in Fill : FillArrives(f)
    BY <1>25
  <2>2. buffer' \in [Fill -> 0 .. 2]
    BY <2>1, SecondIs DEF FillArrives
  <2>3. fills' \subseteq Fill
    BY <2>1 DEF FillArrives
  <2>. QED BY <2>1, <2>2, <2>3 DEF FillArrives
<1>26. CASE StopSignal
  <2>1. /\ changes' \in 0 .. MaxChanges /\ failures' \in 0 .. MaxFailures
        /\ failed' \subseteq Faults
    BY <1>26, <1>c DEF StopSignal
  <2>. QED BY <1>26, <2>1 DEF StopSignal
<1>27. CASE Cancel
  <2>1. /\ changes' \in 0 .. MaxChanges /\ failures' \in 0 .. MaxFailures
        /\ failed' \subseteq Faults
    BY <1>27, <1>c DEF Cancel
  <2>2. main' \in MainStates /\ leaving' \in BOOLEAN /\ cancelled' \in BOOLEAN
    BY <1>27 DEF Cancel
  <2>3. UNCHANGED <<linked, streak, probing, disconnected, stop, executions>>
    BY <1>27 DEF Cancel
  <2>. QED BY <2>1, <2>2, <2>3
<1>28. CASE HeartbeatDue
  BY <1>28 DEF HeartbeatDue
<1>. QED BY <1>2, <1>3, <1>4, <1>5, <1>6, <1>7, <1>8, <1>9, <1>10, <1>11, <1>12, <1>13,
         <1>14, <1>15, <1>16, <1>17, <1>18, <1>19, <1>20, <1>21, <1>22, <1>23, <1>24,
         <1>25, <1>26, <1>27, <1>28, <1>29
         DEF Next, MainStep, ProbeStep, Outside

(* Every step keeps handlers with open connections. *)
LEMMA LinkStep ==
    ASSUME IInv, Next
    PROVE  LinkInv'
<1>1. Types /\ LinkInv
  BY DEF IInv
<1>. USE <1>1, SecondIs DEF Types, LinkInv, linked, links, probing, ending, executions, bounds
<1>2. CASE StartSession
  BY <1>2 DEF StartSession
<1>3. CASE ConnectReturns
  BY <1>3 DEF ConnectReturns, Connects
<1>4. CASE Begin
  BY <1>4 DEF Begin, Either, Fault, Subscribed
<1>5. CASE SubscribeSecondary
  BY <1>5 DEF SubscribeSecondary, Subscribed
<1>6. CASE EnterLoop
  BY <1>6 DEF EnterLoop, NoneHeld
<1>7. CASE Iterate
  BY <1>7 DEF Iterate, Exhausted
<1>8. CASE AccountsReturn
  BY <1>8 DEF AccountsReturn
<1>9. CASE AccountsFail
  BY <1>9 DEF AccountsFail, Fault
<1>10. CASE CopyFills
  BY <1>10 DEF CopyFills
<1>11. CASE ClearFills
  BY <1>11 DEF ClearFills, RowsCleared
<1>12. CASE WriteSnapshot
  BY <1>12 DEF WriteSnapshot, Fault
<1>13. CASE WaitReturns
  BY <1>13 DEF WaitReturns
<1>14. CASE CancelProbe
  BY <1>14 DEF CancelProbe
<1>15. CASE Join
  BY <1>15 DEF Join
<1>16. CASE HangUp
  BY <1>16 DEF HangUp, Clients, NoneHeld
<1>17. CASE Ended
  BY <1>17 DEF Ended, Either, Fault
<1>18. CASE Delay
  BY <1>18 DEF Delay
<1>19. CASE Final
  BY <1>19 DEF Final
<1>20. CASE Restart
  BY <1>20 DEF Restart, NoneHeld
<1>21. CASE ProbeTick
  BY <1>21 DEF ProbeTick, Fault, Noticed, Reported, Down
<1>22. CASE ProbeStops
  BY <1>22 DEF ProbeStops
<1>23. CASE ReconnectReturns
  BY <1>23 DEF ReconnectReturns, Connects
<1>24. CASE \E s \in Slot : Drop(s)
  BY <1>24 DEF Drop, Change
<1>29. CASE \E s \in Slot : RequestReconnects(s)
  BY <1>29 DEF RequestReconnects, Requested
<1>25. CASE \E f \in Fill : FillArrives(f)
  BY <1>25 DEF FillArrives
<1>26. CASE StopSignal
  BY <1>26 DEF StopSignal, Change
<1>27. CASE Cancel
  BY <1>27 DEF Cancel, Change
<1>28. CASE HeartbeatDue
  BY <1>28 DEF HeartbeatDue
<1>. QED BY <1>2, <1>3, <1>4, <1>5, <1>6, <1>7, <1>8, <1>9, <1>10, <1>11, <1>12, <1>13,
         <1>14, <1>15, <1>16, <1>17, <1>18, <1>19, <1>20, <1>21, <1>22, <1>23, <1>24,
         <1>25, <1>26, <1>27, <1>28, <1>29
         DEF Next, MainStep, ProbeStep, Outside

(* Every step keeps the streak below the limit. *)
LEMMA StreakStep ==
    ASSUME IInv, Next
    PROVE  StreakInv'
<1>1. Types /\ StreakInv
  BY DEF IInv
<1>. USE <1>1, ConstantsAssumption DEF Types, StreakInv, linked, links, probing, ending, executions, bounds
<1>2. CASE StartSession
  BY <1>2 DEF StartSession
<1>3. CASE ConnectReturns
  BY <1>3 DEF ConnectReturns, Connects
<1>4. CASE Begin
  BY <1>4 DEF Begin, Either, Fault, Subscribed
<1>5. CASE SubscribeSecondary
  BY <1>5 DEF SubscribeSecondary, Subscribed
<1>6. CASE EnterLoop
  BY <1>6 DEF EnterLoop, NoneHeld
<1>7. CASE Iterate
  BY <1>7 DEF Iterate, Exhausted
<1>8. CASE AccountsReturn
  BY <1>8 DEF AccountsReturn
<1>9. CASE AccountsFail
  BY <1>9 DEF AccountsFail, Fault
<1>10. CASE CopyFills
  BY <1>10 DEF CopyFills
<1>11. CASE ClearFills
  BY <1>11 DEF ClearFills, RowsCleared
<1>12. CASE WriteSnapshot
  BY <1>12 DEF WriteSnapshot, Fault
<1>13. CASE WaitReturns
  BY <1>13 DEF WaitReturns
<1>14. CASE CancelProbe
  BY <1>14 DEF CancelProbe
<1>15. CASE Join
  BY <1>15 DEF Join
<1>16. CASE HangUp
  BY <1>16 DEF HangUp, Clients, NoneHeld
<1>17. CASE Ended
  BY <1>17 DEF Ended, Either, Fault
<1>18. CASE Delay
  BY <1>18 DEF Delay
<1>19. CASE Final
  BY <1>19 DEF Final
<1>20. CASE Restart
  BY <1>20 DEF Restart, NoneHeld
<1>21. CASE ProbeTick
  BY <1>21 DEF ProbeTick, Fault, Noticed, Reported, Down
<1>22. CASE ProbeStops
  BY <1>22 DEF ProbeStops
<1>23. CASE ReconnectReturns
  BY <1>23 DEF ReconnectReturns, Connects
<1>24. CASE \E s \in Slot : Drop(s)
  BY <1>24 DEF Drop, Change
<1>29. CASE \E s \in Slot : RequestReconnects(s)
  BY <1>29 DEF RequestReconnects, Requested
<1>25. CASE \E f \in Fill : FillArrives(f)
  BY <1>25 DEF FillArrives
<1>26. CASE StopSignal
  BY <1>26 DEF StopSignal, Change
<1>27. CASE Cancel
  BY <1>27 DEF Cancel, Change
<1>28. CASE HeartbeatDue
  BY <1>28 DEF HeartbeatDue
<1>. QED BY <1>2, <1>3, <1>4, <1>5, <1>6, <1>7, <1>8, <1>9, <1>10, <1>11, <1>12, <1>13,
         <1>14, <1>15, <1>16, <1>17, <1>18, <1>19, <1>20, <1>21, <1>22, <1>23, <1>24,
         <1>25, <1>26, <1>27, <1>28, <1>29
         DEF Next, MainStep, ProbeStep, Outside

(* Every step keeps unknown fills away. *)
LEMMA FillStep ==
    ASSUME IInv, Next
    PROVE  FillInv'
<1>1. Types /\ FillInv
  BY DEF IInv
<1>. USE <1>1 DEF Types, FillInv, linked, links, probing, ending, executions, bounds, NoFills
<1>2. CASE StartSession
  BY <1>2 DEF StartSession
<1>3. CASE ConnectReturns
  BY <1>3 DEF ConnectReturns, Connects
<1>4. CASE Begin
  BY <1>4 DEF Begin, Either, Fault, Subscribed
<1>5. CASE SubscribeSecondary
  BY <1>5 DEF SubscribeSecondary, Subscribed
<1>6. CASE EnterLoop
  BY <1>6 DEF EnterLoop, NoneHeld
<1>7. CASE Iterate
  BY <1>7 DEF Iterate, Exhausted
<1>8. CASE AccountsReturn
  BY <1>8 DEF AccountsReturn
<1>9. CASE AccountsFail
  BY <1>9 DEF AccountsFail, Fault
<1>10. CASE CopyFills
  BY <1>10 DEF CopyFills
<1>11. CASE ClearFills
  BY <1>11 DEF ClearFills, RowsCleared
<1>12. CASE WriteSnapshot
  BY <1>12 DEF WriteSnapshot, Fault
<1>13. CASE WaitReturns
  BY <1>13 DEF WaitReturns
<1>14. CASE CancelProbe
  BY <1>14 DEF CancelProbe
<1>15. CASE Join
  BY <1>15 DEF Join
<1>16. CASE HangUp
  BY <1>16 DEF HangUp, Clients, NoneHeld
<1>17. CASE Ended
  BY <1>17 DEF Ended, Either, Fault
<1>18. CASE Delay
  BY <1>18 DEF Delay
<1>19. CASE Final
  BY <1>19 DEF Final
<1>20. CASE Restart
  BY <1>20 DEF Restart, NoneHeld
<1>21. CASE ProbeTick
  BY <1>21 DEF ProbeTick, Fault, Noticed, Reported, Down
<1>22. CASE ProbeStops
  BY <1>22 DEF ProbeStops
<1>23. CASE ReconnectReturns
  BY <1>23 DEF ReconnectReturns, Connects
<1>24. CASE \E s \in Slot : Drop(s)
  BY <1>24 DEF Drop, Change
<1>29. CASE \E s \in Slot : RequestReconnects(s)
  BY <1>29 DEF RequestReconnects, Requested
<1>25. CASE \E f \in Fill : FillArrives(f)
  BY <1>25 DEF FillArrives
<1>26. CASE StopSignal
  BY <1>26 DEF StopSignal, Change
<1>27. CASE Cancel
  BY <1>27 DEF Cancel, Change
<1>28. CASE HeartbeatDue
  BY <1>28 DEF HeartbeatDue
<1>. QED BY <1>2, <1>3, <1>4, <1>5, <1>6, <1>7, <1>8, <1>9, <1>10, <1>11, <1>12, <1>13,
         <1>14, <1>15, <1>16, <1>17, <1>18, <1>19, <1>20, <1>21, <1>22, <1>23, <1>24,
         <1>25, <1>26, <1>27, <1>28, <1>29
         DEF Next, MainStep, ProbeStep, Outside

(* Every step subscribes once. *)
LEMMA HandlerStep ==
    ASSUME IInv, Next
    PROVE  HandlerInv'
<1>1. Types /\ LinkInv /\ HandlerInv
  BY DEF IInv
<1>. USE <1>1, SecondIs, FaultType, ChangeType DEF Types, LinkInv, HandlerInv, Fresh, linked, links, probing, ending, executions, bounds
<1>2. CASE StartSession
  BY <1>2 DEF StartSession
<1>3. CASE ConnectReturns
  BY <1>3 DEF ConnectReturns, Connects
<1>4. CASE Begin
  <2>1. CASE main' = "hostorders"
    <3>1. failed' = failed /\ probe' = "wait"
      BY <1>4, <2>1 DEF Begin, Either
    <3>2. handlers' = Subscribed("Host") \/ handlers' = handlers
      BY <1>4, <2>1 DEF Begin
    <3>3. ASSUME "publish" \notin failed
          PROVE  \A s \in Slot : handlers'[s] = 0 \/ (s = "Host" /\ handlers'[s] = 1)
      <4>1. \A s \in Slot : handlers[s] = 0
        BY <1>4, <3>3 DEF Begin
      <4>2. /\ \A s \in Slot : s # "Host" => Subscribed("Host")[s] = handlers[s]
            /\ handlers["Host"] = 0 => Subscribed("Host")["Host"] = 1
        BY SecondIs, SubscribedType
      <4>3. handlers["Host"] = 0
        BY <4>1, SecondIs
      <4>. QED BY <3>2, <4>1, <4>2, <4>3
    <3>. QED BY <2>1, <3>1, <3>3
  <2>2. CASE main' # "hostorders"
    <3>1. "publish" \in failed'
      BY <1>4, <2>2 DEF Begin, Either
    <3>. QED BY <3>1
  <2>. QED BY <2>1, <2>2
<1>5. CASE SubscribeSecondary
  BY <1>5 DEF SubscribeSecondary, Subscribed
<1>6. CASE EnterLoop
  BY <1>6 DEF EnterLoop, NoneHeld
<1>7. CASE Iterate
  BY <1>7 DEF Iterate, Exhausted
<1>8. CASE AccountsReturn
  BY <1>8 DEF AccountsReturn
<1>9. CASE AccountsFail
  BY <1>9 DEF AccountsFail, Fault
<1>10. CASE CopyFills
  BY <1>10 DEF CopyFills
<1>11. CASE ClearFills
  BY <1>11 DEF ClearFills, RowsCleared
<1>12. CASE WriteSnapshot
  BY <1>12 DEF WriteSnapshot, Fault
<1>13. CASE WaitReturns
  BY <1>13 DEF WaitReturns
<1>14. CASE CancelProbe
  BY <1>14 DEF CancelProbe
<1>15. CASE Join
  BY <1>15 DEF Join
<1>16. CASE HangUp
  BY <1>16 DEF HangUp, Clients, NoneHeld
<1>17. CASE Ended
  BY <1>17 DEF Ended, Either, Fault
<1>18. CASE Delay
  BY <1>18 DEF Delay
<1>19. CASE Final
  BY <1>19 DEF Final
<1>20. CASE Restart
  BY <1>20 DEF Restart, NoneHeld
<1>21. CASE ProbeTick
  BY <1>21 DEF ProbeTick, Fault, Noticed, Reported, Down
<1>22. CASE ProbeStops
  BY <1>22 DEF ProbeStops
<1>23. CASE ReconnectReturns
  BY <1>23 DEF ReconnectReturns, Connects
<1>24. CASE \E s \in Slot : Drop(s)
  BY <1>24 DEF Drop, Change
<1>29. CASE \E s \in Slot : RequestReconnects(s)
  BY <1>29 DEF RequestReconnects, Requested
<1>25. CASE \E f \in Fill : FillArrives(f)
  BY <1>25 DEF FillArrives
<1>26. CASE StopSignal
  BY <1>26 DEF StopSignal, Change
<1>27. CASE Cancel
  BY <1>27 DEF Cancel, Change
<1>28. CASE HeartbeatDue
  BY <1>28 DEF HeartbeatDue
<1>. QED BY <1>2, <1>3, <1>4, <1>5, <1>6, <1>7, <1>8, <1>9, <1>10, <1>11, <1>12, <1>13,
         <1>14, <1>15, <1>16, <1>17, <1>18, <1>19, <1>20, <1>21, <1>22, <1>23, <1>24,
         <1>25, <1>26, <1>27, <1>28, <1>29
         DEF Next, MainStep, ProbeStep, Outside

(* Every step keeps each fill in its place. *)
LEMMA PlaceStep ==
    ASSUME IInv, Next
    PROVE  PlaceInv'
<1>1. Types /\ FillInv /\ HandlerInv /\ PlaceInv
  BY DEF IInv
<1>. USE <1>1, SecondIs, FaultType, ChangeType DEF Types, PlaceInv, linked, links, probing, ending, executions, bounds, NoFills
<1>2. CASE StartSession
  BY <1>2 DEF StartSession
<1>3. CASE ConnectReturns
  BY <1>3 DEF ConnectReturns, Connects
<1>4. CASE Begin
  BY <1>4 DEF Begin, Either, Fault, Subscribed
<1>5. CASE SubscribeSecondary
  BY <1>5 DEF SubscribeSecondary, Subscribed
<1>6. CASE EnterLoop
  BY <1>6 DEF EnterLoop, NoneHeld
<1>7. CASE Iterate
  BY <1>7 DEF Iterate, Exhausted
<1>8. CASE AccountsReturn
  BY <1>8 DEF AccountsReturn
<1>9. CASE AccountsFail
  BY <1>9 DEF AccountsFail, Fault
<1>10. CASE CopyFills
  BY <1>10 DEF CopyFills
<1>11. CASE ClearFills
  BY <1>11 DEF ClearFills, RowsCleared
<1>12. CASE WriteSnapshot
  BY <1>12 DEF WriteSnapshot, Fault
<1>13. CASE WaitReturns
  BY <1>13 DEF WaitReturns
<1>14. CASE CancelProbe
  BY <1>14 DEF CancelProbe
<1>15. CASE Join
  BY <1>15 DEF Join
<1>16. CASE HangUp
  BY <1>16 DEF HangUp, Clients, NoneHeld
<1>17. CASE Ended
  BY <1>17 DEF Ended, Either, Fault
<1>18. CASE Delay
  BY <1>18 DEF Delay
<1>19. CASE Final
  BY <1>19 DEF Final
<1>20. CASE Restart
  BY <1>20 DEF Restart, NoneHeld
<1>21. CASE ProbeTick
  BY <1>21 DEF ProbeTick, Fault, Noticed, Reported, Down
<1>22. CASE ProbeStops
  BY <1>22 DEF ProbeStops
<1>23. CASE ReconnectReturns
  BY <1>23 DEF ReconnectReturns, Connects
<1>24. CASE \E s \in Slot : Drop(s)
  BY <1>24 DEF Drop, Change
<1>29. CASE \E s \in Slot : RequestReconnects(s)
  BY <1>29 DEF RequestReconnects, Requested
<1>25. CASE \E f \in Fill : FillArrives(f)
  <2>1. PICK f \in Fill : FillArrives(f)
    BY <1>25
  <2>2. ASSUME "publish" \notin failed
        PROVE  buffer'[f] = 1 /\ taken[f] = 0 /\ written[f] = 0
    BY <2>1, <2>2 DEF FillArrives, FillInv, HandlerInv
  <2>3. \A g \in Fill : g # f => buffer'[g] = buffer[g]
    BY <2>1 DEF FillArrives
  <2>4. taken' = taken /\ written' = written /\ failed' = failed /\ main' = main
    BY <2>1 DEF FillArrives
  <2>. QED BY <2>2, <2>3, <2>4
<1>26. CASE StopSignal
  BY <1>26 DEF StopSignal, Change
<1>27. CASE Cancel
  BY <1>27 DEF Cancel, Change
<1>28. CASE HeartbeatDue
  BY <1>28 DEF HeartbeatDue
<1>. QED BY <1>2, <1>3, <1>4, <1>5, <1>6, <1>7, <1>8, <1>9, <1>10, <1>11, <1>12, <1>13,
         <1>14, <1>15, <1>16, <1>17, <1>18, <1>19, <1>20, <1>21, <1>22, <1>23, <1>24,
         <1>25, <1>26, <1>27, <1>28, <1>29
         DEF Next, MainStep, ProbeStep, Outside

(* The invariant is inductive. *)
LEMMA Invariance == Spec => []IInv
<1>1. Init => IInv
  <2>. SUFFICES ASSUME Init
                PROVE  IInv
    OBVIOUS
  <2>1. conn \in [Slot -> BOOLEAN] /\ handlers \in [Slot -> 0 .. 2]
    BY DEF Init
  <2>2. NoFills \in [Fill -> 0 .. 2] /\ NoFills \in [Fill -> Nat]
        /\ \A f \in Fill : NoFills[f] = 0
    BY DEF NoFills
  <2>3. Types
    <3>1. buffer \in [Fill -> 0 .. 2] /\ taken \in [Fill -> 0 .. 2] /\ written \in [Fill -> Nat]
      BY <2>2 DEF Init
    <3>2. main \in MainStates /\ probe \in ProbeStates
      BY DEF Init, MainStates, ProbeStates
    <3>3. streak \in 0 .. FailLimit /\ changes \in 0 .. MaxChanges /\ failures \in 0 .. MaxFailures
      BY ConstantsAssumption DEF Init
    <3>. QED BY <2>1, <3>1, <3>2, <3>3 DEF Init, Types, NoneHeld
  <2>4. LinkInv /\ StreakInv
    BY ConstantsAssumption DEF Init, LinkInv, StreakInv, NoneHeld
  <2>5. FillInv /\ PlaceInv
    BY <2>2 DEF Init, FillInv, PlaceInv
  <2>6. HandlerInv
    BY DEF Init, HandlerInv
  <2>. QED BY <2>3, <2>4, <2>5, <2>6 DEF IInv
<1>2. IInv /\ [Next]_vars => IInv'
  <2>1. CASE Next
    BY <2>1, TypeStep, LinkStep, StreakStep, FillStep, HandlerStep, PlaceStep DEF IInv
  <2>2. CASE UNCHANGED vars
    BY <2>2 DEF vars, linked, links, probing, ending, executions, bounds, IInv, Types,
                LinkInv, StreakInv, FillInv, HandlerInv, Fresh, PlaceInv
  <2>. QED BY <2>1, <2>2
<1>. QED BY <1>1, <1>2, PTL DEF Spec

-----------------------------------------------------------------------------
(* Theorems *)

(* Every variable always has its type, and only an open connection has     *)
(* handlers.                                                               *)
THEOREM TypeCorrect == Spec => []TypeOK
<1>1. IInv => TypeOK
  <2>. SUFFICES ASSUME IInv
                PROVE  TypeOK
    OBVIOUS
  <2>1. Types /\ LinkInv /\ FillInv
    BY DEF IInv
  <2>2. \A x \in {due, disconnected, lost, leaving, cancelled, stop} : x \in BOOLEAN
    BY <2>1, Zenon DEF Types
  <2>3. {buffer, taken} \subseteq [Fill -> 0 .. 2]
    BY <2>1 DEF Types
  <2>4. \A f \in Fill \ fills : buffer[f] + taken[f] + written[f] = 0
    BY <2>1 DEF FillInv
  <2>. QED BY <2>1, <2>2, <2>3, <2>4 DEF TypeOK, Types, LinkInv
<1>. QED BY <1>1, Invariance, PTL

(* No connection gets the handlers twice. *)
THEOREM HandlersAreAddedOnce == Spec => []SubscribedOnce
<1>1. IInv => SubscribedOnce
  BY DEF IInv, HandlerInv, SubscribedOnce
<1>. QED BY <1>1, Invariance, PTL

(* Every session begins with clients that know whether they are connected. *)
THEOREM NoSessionBeginsBlind == Spec => []SessionsBeginSighted
<1>1. IInv => SessionsBeginSighted
  BY DEF IInv, HandlerInv, Fresh, SessionsBeginSighted
<1>. QED BY <1>1, Invariance, PTL

(* No fill is written twice. *)
THEOREM FillsAreWrittenOnce == Spec => []WrittenOnce
<1>1. IInv => WrittenOnce
  BY DEF IInv, Types, PlaceInv, WrittenOnce
<1>. QED BY <1>1, Invariance, PTL

-----------------------------------------------------------------------------
(* Where a fill can be lost *)

(* A fill that was reported and is not written yet. *)
Pending(f) == buffer[f] + taken[f] > 0

Lost(f) == Pending(f) /\ ~Pending(f)' /\ written'[f] = written[f]

(* A fill that was reported is lost in one of three ways only: it was still*)
(* there when a session began or the process died (_fill_rows.clear() at   *)
(* the start); it arrived between list(self._fill_rows) and clear(); or the*)
(* XADD of its snapshot failed.  No stop, cancellation, drop, failing      *)
(* request or probe that dies takes it away.                               *)
LossesAreExplained ==
    [][ \A f \in Fill : Lost(f) =>
            \/ main \in {"start", "stopped"}
            \/ main = "clear" /\ taken[f] = 0
            \/ main = "write" /\ "stream" \in failed' ]_vars

(* Nothing is on its way but between the copy and the write.               *)
TakenInv == main \notin {"clear", "write"} => taken = NoFills

LEMMA TakenStep ==
    ASSUME TakenInv, [Next]_vars
    PROVE  TakenInv'
<1>. USE DEF TakenInv, executions, ending, bounds
<1>1. CASE CopyFills \/ ClearFills \/ WriteSnapshot
  BY <1>1 DEF CopyFills, ClearFills, WriteSnapshot
<1>2. CASE StartSession \/ ConnectReturns \/ Begin \/ SubscribeSecondary \/ EnterLoop
  BY <1>2 DEF StartSession, ConnectReturns, Begin, SubscribeSecondary, EnterLoop
<1>9. CASE \E s \in Slot : RequestReconnects(s)
  BY <1>9 DEF RequestReconnects
<1>3. CASE Iterate \/ AccountsReturn \/ AccountsFail \/ WaitReturns
  BY <1>3 DEF Iterate, AccountsReturn, AccountsFail, WaitReturns
<1>4. CASE CancelProbe \/ Join \/ HangUp
  BY <1>4 DEF CancelProbe, Join, HangUp
<1>5. CASE Ended \/ Delay \/ Final \/ Restart
  BY <1>5 DEF Ended, Delay, Final, Restart
<1>6. CASE ProbeStep
  BY <1>6 DEF ProbeStep, ProbeTick, ProbeStops, ReconnectReturns
<1>7. CASE Outside
  BY <1>7 DEF Outside, Drop, FillArrives, StopSignal, Cancel, HeartbeatDue
<1>8. CASE UNCHANGED vars
  BY <1>8 DEF vars
<1>. QED BY <1>1, <1>2, <1>3, <1>4, <1>5, <1>6, <1>7, <1>8, <1>9 DEF Next, MainStep

(* What a step does to a pending fill that it does not write.              *)
LEMMA LossStep ==
    ASSUME IInv, TakenInv, Next, NEW f \in Fill, Lost(f)
    PROVE  \/ main \in {"start", "stopped"}
           \/ main = "clear" /\ taken[f] = 0
           \/ main = "write" /\ "stream" \in failed'
<1>1. /\ buffer \in [Fill -> 0 .. 2] /\ taken \in [Fill -> 0 .. 2]
      /\ written \in [Fill -> Nat]
      /\ \A g \in Fill \ fills : buffer[g] = 0 /\ taken[g] = 0
  BY DEF IInv, Types, FillInv
<1>2. buffer[f] \in Nat /\ taken[f] \in Nat /\ written[f] \in Nat
  BY <1>1
<1>3. ~(buffer'[f] = buffer[f] /\ taken'[f] = taken[f])
  BY DEF Lost, Pending
<1>. USE DEF executions
<1>4. CASE StartSession \/ Restart
  BY <1>4 DEF StartSession, Restart
<1>5. CASE CopyFills
  <2>1. taken[f] = 0 /\ taken'[f] = buffer[f] /\ buffer'[f] = buffer[f]
    BY <1>5 DEF CopyFills, TakenInv, NoFills
  <2>. QED BY <1>2, <2>1 DEF Lost, Pending
<1>6. CASE ClearFills
  <2>1. main = "clear" /\ buffer'[f] = 0 /\ taken'[f] = taken[f]
    BY <1>6 DEF ClearFills, RowsCleared, NoFills
  <2>. QED BY <1>2, <2>1 DEF Lost, Pending
<1>7. CASE WriteSnapshot
  <2>1. main = "write" /\ buffer'[f] = buffer[f] /\ taken'[f] = 0
    BY <1>7 DEF WriteSnapshot, NoFills
  <2>2. CASE Fault("stream")
    BY <2>1, <2>2 DEF Fault
  <2>3. CASE written' = [g \in Fill |-> written[g] + taken[g]]
    <3>1. taken[f] = 0
      BY <1>2, <2>3 DEF Lost
    <3>. QED BY <1>3, <2>1, <3>1
  <2>. QED BY <1>7, <2>2, <2>3 DEF WriteSnapshot
<1>8. CASE \E g \in Fill : FillArrives(g)
  <2>1. PICK g \in Fill : FillArrives(g)
    BY <1>8
  <2>2. g # f
    BY <1>1, <2>1 DEF FillArrives, Lost, Pending
  <2>. QED BY <1>1, <1>3, <2>1, <2>2 DEF FillArrives
<1>9. CASE UNCHANGED <<buffer, taken>>
  BY <1>3, <1>9
<1>10. \/ StartSession \/ Restart \/ CopyFills \/ ClearFills \/ WriteSnapshot
       \/ \E g \in Fill : FillArrives(g)
       \/ UNCHANGED <<buffer, taken>>
  <2>0. CASE \E s \in Slot : RequestReconnects(s)
    BY <2>0 DEF RequestReconnects
  <2>1. CASE ConnectReturns \/ Begin \/ SubscribeSecondary \/ EnterLoop \/ Iterate
    BY <2>1 DEF ConnectReturns, Begin, SubscribeSecondary, EnterLoop, Iterate
  <2>2. CASE AccountsReturn \/ AccountsFail \/ WaitReturns \/ CancelProbe \/ Join
    BY <2>2 DEF AccountsReturn, AccountsFail, WaitReturns, CancelProbe, Join
  <2>3. CASE HangUp \/ Ended \/ Delay \/ Final
    BY <2>3 DEF HangUp, Ended, Delay, Final
  <2>4. CASE ProbeStep
    BY <2>4 DEF ProbeStep, ProbeTick, ProbeStops, ReconnectReturns
  <2>5. CASE (\E s \in Slot : Drop(s)) \/ StopSignal \/ Cancel \/ HeartbeatDue
    BY <2>5 DEF Drop, StopSignal, Cancel, HeartbeatDue
  <2>. QED BY <2>0, <2>1, <2>2, <2>3, <2>4, <2>5 DEF Next, MainStep, Outside
<1>. QED BY <1>4, <1>5, <1>6, <1>7, <1>8, <1>9, <1>10

(* Every loss of a fill is one of the three. *)
THEOREM FillLossesAreExplained == Spec => LossesAreExplained
<1>1. Init => TakenInv
  BY DEF Init, TakenInv
<1>2. TakenInv /\ [Next]_vars => TakenInv'
  BY TakenStep
<1>3. IInv /\ TakenInv /\ [Next]_vars
      => [ \A f \in Fill : Lost(f) =>
              \/ main \in {"start", "stopped"}
              \/ main = "clear" /\ taken[f] = 0
              \/ main = "write" /\ "stream" \in failed' ]_vars
  BY LossStep
<1>. QED BY <1>1, <1>2, <1>3, Invariance, PTL DEF Spec, LossesAreExplained

=============================================================================
