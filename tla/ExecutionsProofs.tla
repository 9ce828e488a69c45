--------------------------- MODULE ExecutionsProofs ---------------------------
(***************************************************************************)
(* Theorems about the fetch_executions command, for every set of executions*)
(* and accounts, every length of a day and every bound.                    *)
(***************************************************************************)

EXTENDS Executions, TLAPS

-----------------------------------------------------------------------------
(* The inductive invariant *)

Requesting == stage \in {"asking", "waiting"}

(* Each account is asked for once, and the empty account name only alone.  *)
TodoInv ==
    /\ Every \in todo => todo = {Every}
    /\ Requesting => request.account \notin todo /\ Every \notin todo
    /\ Requesting /\ request.account = Every => todo = {}

(* An execution that has its row belongs to an account that is done with.  *)
RowInv ==
    \A e \in Exec :
        /\ rows[e] <= 1
        /\ rows[e] # 0 => /\ Account[e] \notin todo
                          /\ Every \notin todo
                          /\ Requesting => ~OfAccount(e)

(* There is an answer only while a request waits, of the request's account.*)
AnswerInv ==
    /\ stage # "waiting" => answer = {}
    /\ \A e \in answer : OfAccount(e)

(* What has been reported since the request was made, its handler knows;   *)
(* and what the session has the report of, the answer has it of too, where *)
(* the Fill is the same.                                                   *)
ReportInv ==
    /\ heard \subseteq commission_by_exec_id
    /\ own \subseteq fills
    /\ own \cap reported \subseteq charged

IInv == TypeOK /\ NoHandlerLeft /\ TodoInv /\ RowInv /\ AnswerInv /\ ReportInv

-----------------------------------------------------------------------------
(* Lemmas *)

(* Executions that were made have a time, and stay made. *)
LEMMA MadeHasTime ==
    ASSUME TypeOK, NEW e \in Made
    PROVE  e \in Exec /\ at[e] \in 0 .. MaxTime /\ at[e] \in Nat
  BY ConstantsAssumption DEF TypeOK, Made

(* Every step keeps the types. *)
LEMMA TypeStep == IInv /\ [Next]_vars => TypeOK'
<1> SUFFICES ASSUME IInv, [Next]_vars
             PROVE  TypeOK'
  OBVIOUS
<1>a. TypeOK /\ NoHandlerLeft /\ (stage # "waiting" => answer = {})
  BY DEF IInv, AnswerInv
<1> USE <1>a, ConstantsAssumption DEF gateway, session, exchange, result, TypeOK, Made
<1>1. CASE \E days \in 1 .. MaxDays, accounts \in SUBSET Accounts : Call(days, accounts)
  BY <1>1 DEF Call, NoRequest
<1>2. CASE \E a \in Accounts \cup {Every} : Ask(a)
  <2>1. PICK a \in Accounts \cup {Every} : Ask(a)
    BY <1>2
  <2>2. request' \in [account : Accounts \cup {Every}, days : 1 .. MaxDays, asked : 0 .. MaxTime]
    BY <2>1 DEF Ask
  <2>3. handlers' \in Nat /\ stage' = "asking" /\ todo' \subseteq Accounts \cup {Every}
    BY <2>1 DEF Ask
  <2>4. UNCHANGED <<gateway, session, answer, twice, own, charged, commission_by_exec_id,
                      result, heard>>
    BY <2>1 DEF Ask
  <2> QED
    BY <2>2, <2>3, <2>4
<1>3. CASE Answer
  BY <1>3 DEF Answer
<1>4. CASE Merge
  <2>1. rows' \in [Exec -> Nat]
    BY <1>4 DEF Merge, RowsFor
  <2>2. priced' \subseteq Made
    <3>1. \A e \in Exec : RowsFor(e) > 0 => e \in Made
      BY DEF RowsFor
    <3> QED
      BY <1>4, <3>1 DEF Merge
  <2>3. handlers' \in Nat
    BY <1>4 DEF Merge, HandlerRemoved, NoHandlerLeft
  <2> QED
    BY <1>4, <2>1, <2>2, <2>3 DEF Merge, LocalsGo
<1>5. CASE AskFails
  BY <1>5 DEF AskFails, HandlerRemoved, LocalsGo, NoHandlerLeft
<1>6. CASE Return
  BY <1>6 DEF Return, NoRequest
<1>7. CASE Tick
  BY <1>7 DEF Tick
<1>8. CASE \E e \in Exec : Trade(e)
  <2>1. PICK e \in Exec : Trade(e)
    BY <1>8
  <2>2. at' \in [Exec -> 0 .. MaxTime \cup {NotYet}] /\ Made \subseteq Made' /\ e \in Made'
    BY <2>1 DEF Trade
  <2>3. fills' = fills
    BY <2>1 DEF Trade
  <2> QED
    BY <2>1, <2>2, <2>3 DEF Trade
<1>9. CASE \E e \in Exec : Report(e)
  BY <1>9 DEF Report
<1>10. CASE \E e \in Exec : Learn(e)
  BY <1>10 DEF Learn
<1>11. CASE SessionLost
  BY <1>11 DEF SessionLost
<1>12. CASE UNCHANGED vars
  BY <1>12 DEF vars
<1> QED
  BY <1>1, <1>2, <1>3, <1>4, <1>5, <1>6,
     <1>7, <1>8, <1>9, <1>10, <1>11, <1>12 DEF Next

(* Every step leaves as many handlers as requests. *)
LEMMA HandlerStep == IInv /\ [Next]_vars => NoHandlerLeft'
<1> SUFFICES ASSUME IInv, [Next]_vars
             PROVE  NoHandlerLeft'
  OBVIOUS
<1> USE DEF IInv, NoHandlerLeft, gateway, session, exchange, result
<1>1. CASE \E days \in 1 .. MaxDays, accounts \in SUBSET Accounts : Call(days, accounts)
  BY <1>1 DEF Call, NoRequest
<1>2. CASE \E a \in Accounts \cup {Every} : Ask(a)
  BY <1>2 DEF Ask
<1>3. CASE Answer
  BY <1>3 DEF Answer
<1>4. CASE Merge
  BY <1>4 DEF Merge, HandlerRemoved, LocalsGo
<1>5. CASE AskFails
  BY <1>5 DEF AskFails, HandlerRemoved, LocalsGo
<1>6. CASE Return
  BY <1>6 DEF Return, NoRequest
<1>7. CASE Tick
  BY <1>7 DEF Tick
<1>8. CASE \E e \in Exec : Trade(e)
  BY <1>8 DEF Trade
<1>9. CASE \E e \in Exec : Report(e)
  BY <1>9 DEF Report
<1>10. CASE \E e \in Exec : Learn(e)
  BY <1>10 DEF Learn
<1>11. CASE SessionLost
  BY <1>11 DEF SessionLost
<1>12. CASE UNCHANGED vars
  BY <1>12 DEF vars
<1> QED
  BY <1>1, <1>2, <1>3, <1>4, <1>5, <1>6,
     <1>7, <1>8, <1>9, <1>10, <1>11, <1>12 DEF Next

(* Every step keeps the accounts apart. *)
LEMMA TodoStep == IInv /\ [Next]_vars => TodoInv'
<1> SUFFICES ASSUME IInv, [Next]_vars
             PROVE  TodoInv'
  OBVIOUS
<1>a. TypeOK /\ TodoInv
  BY DEF IInv
<1> USE <1>a, ConstantsAssumption DEF gateway, session, exchange, result, TypeOK, TodoInv, Requesting
<1>1. CASE \E days \in 1 .. MaxDays, accounts \in SUBSET Accounts : Call(days, accounts)
  BY <1>1 DEF Call, NoRequest
<1>2. CASE \E a \in Accounts \cup {Every} : Ask(a)
  BY <1>2 DEF Ask
<1>3. CASE Answer
  BY <1>3 DEF Answer
<1>4. CASE Merge
  BY <1>4 DEF Merge, HandlerRemoved, LocalsGo
<1>5. CASE AskFails
  BY <1>5 DEF AskFails, HandlerRemoved, LocalsGo
<1>6. CASE Return
  BY <1>6 DEF Return, NoRequest
<1>7. CASE Tick
  BY <1>7 DEF Tick
<1>8. CASE \E e \in Exec : Trade(e)
  BY <1>8 DEF Trade
<1>9. CASE \E e \in Exec : Report(e)
  BY <1>9 DEF Report
<1>10. CASE \E e \in Exec : Learn(e)
  BY <1>10 DEF Learn
<1>11. CASE SessionLost
  BY <1>11 DEF SessionLost
<1>12. CASE UNCHANGED vars
  BY <1>12 DEF vars
<1> QED
  BY <1>1, <1>2, <1>3, <1>4, <1>5, <1>6,
     <1>7, <1>8, <1>9, <1>10, <1>11, <1>12 DEF Next

(* Every step adds at most the one row of an execution. *)
LEMMA RowStep == IInv /\ [Next]_vars => RowInv'
<1> SUFFICES ASSUME IInv, [Next]_vars
             PROVE  RowInv'
  OBVIOUS
<1>a. TypeOK /\ TodoInv /\ RowInv /\ AnswerInv
  BY DEF IInv
<1> USE <1>a, ConstantsAssumption DEF gateway, session, exchange, result, TypeOK, RowInv, Requesting, OfAccount
<1>1. CASE \E days \in 1 .. MaxDays, accounts \in SUBSET Accounts : Call(days, accounts)
  BY <1>1 DEF Call, NoRequest
<1>2. CASE \E a \in Accounts \cup {Every} : Ask(a)
  BY <1>2 DEF Ask, TodoInv
<1>3. CASE Answer
  BY <1>3 DEF Answer
<1>4. CASE Merge
  <2>1. \A e \in Exec : rows'[e] = rows[e] + RowsFor(e)
    BY <1>4 DEF Merge
  <2>2. \A e \in Exec : RowsFor(e) = 0 \/ (RowsFor(e) = 1 /\ OfAccount(e))
    BY DEF RowsFor, AnswerInv
  <2>3. stage = "waiting" /\ stage' = "next" /\ todo' = todo /\ request' = request
    BY <1>4 DEF Merge, LocalsGo
  <2>4. \A e \in Exec : OfAccount(e) => rows[e] = 0
    BY <2>3
  <2>5. \A e \in Exec : OfAccount(e) => Account[e] \notin todo /\ Every \notin todo
    BY <2>3 DEF TodoInv
  <2> QED
    BY <2>1, <2>2, <2>3, <2>4, <2>5
<1>5. CASE AskFails
  BY <1>5 DEF AskFails, HandlerRemoved, LocalsGo
<1>6. CASE Return
  BY <1>6 DEF Return, NoRequest
<1>7. CASE Tick
  BY <1>7 DEF Tick
<1>8. CASE \E e \in Exec : Trade(e)
  BY <1>8 DEF Trade
<1>9. CASE \E e \in Exec : Report(e)
  BY <1>9 DEF Report
<1>10. CASE \E e \in Exec : Learn(e)
  BY <1>10 DEF Learn
<1>11. CASE SessionLost
  BY <1>11 DEF SessionLost
<1>12. CASE UNCHANGED vars
  BY <1>12 DEF vars
<1> QED
  BY <1>1, <1>2, <1>3, <1>4, <1>5, <1>6,
     <1>7, <1>8, <1>9, <1>10, <1>11, <1>12 DEF Next

(* Every step keeps the answer to the request's account. *)
LEMMA AnswerStep == IInv /\ [Next]_vars => AnswerInv'
<1> SUFFICES ASSUME IInv, [Next]_vars
             PROVE  AnswerInv'
  OBVIOUS
<1>a. TypeOK /\ AnswerInv
  BY DEF IInv
<1> USE <1>a, ConstantsAssumption, MadeHasTime
    DEF gateway, session, exchange, result, TypeOK, AnswerInv, Requesting, OfAccount, Made
<1>1. CASE \E days \in 1 .. MaxDays, accounts \in SUBSET Accounts : Call(days, accounts)
  BY <1>1 DEF Call, NoRequest
<1>2. CASE \E a \in Accounts \cup {Every} : Ask(a)
  BY <1>2 DEF Ask
<1>3. CASE Answer
  BY <1>3 DEF Answer
<1>4. CASE Merge
  BY <1>4 DEF Merge, HandlerRemoved, LocalsGo
<1>5. CASE AskFails
  BY <1>5 DEF AskFails, HandlerRemoved, LocalsGo
<1>6. CASE Return
  BY <1>6 DEF Return, NoRequest
<1>7. CASE Tick
  BY <1>7 DEF Tick
<1>8. CASE \E e \in Exec : Trade(e)
  BY <1>8 DEF Trade
<1>9. CASE \E e \in Exec : Report(e)
  BY <1>9 DEF Report
<1>10. CASE \E e \in Exec : Learn(e)
  BY <1>10 DEF Learn
<1>11. CASE SessionLost
  BY <1>11 DEF SessionLost
<1>12. CASE UNCHANGED vars
  BY <1>12 DEF vars
<1> QED
  BY <1>1, <1>2, <1>3, <1>4, <1>5, <1>6,
     <1>7, <1>8, <1>9, <1>10, <1>11, <1>12 DEF Next

(* Every step tells the handler what is heard, and writes what is reported *)
(* to the session's Fill.                                                  *)
LEMMA ReportStep == IInv /\ [Next]_vars => ReportInv'
<1> SUFFICES ASSUME IInv, [Next]_vars
             PROVE  ReportInv'
  OBVIOUS
<1>a. ReportInv /\ NoHandlerLeft /\ reported \subseteq fills
  BY DEF IInv, TypeOK
<1> USE <1>a DEF gateway, session, exchange, result, ReportInv, NoHandlerLeft
<1>1. CASE \E days \in 1 .. MaxDays, accounts \in SUBSET Accounts : Call(days, accounts)
  BY <1>1 DEF Call, NoRequest
<1>2. CASE \E a \in Accounts \cup {Every} : Ask(a)
  BY <1>2 DEF Ask
<1>3. CASE Answer
  BY <1>3 DEF Answer
<1>4. CASE Merge
  BY <1>4 DEF Merge, HandlerRemoved, LocalsGo
<1>5. CASE AskFails
  BY <1>5 DEF AskFails, HandlerRemoved, LocalsGo
<1>6. CASE Return
  BY <1>6 DEF Return, NoRequest
<1>7. CASE Tick
  BY <1>7 DEF Tick
<1>8. CASE \E e \in Exec : Trade(e)
  BY <1>8 DEF Trade
<1>9. CASE \E e \in Exec : Report(e)
  BY <1>9 DEF Report
<1>10. CASE \E e \in Exec : Learn(e)
  BY <1>10 DEF Learn
<1>11. CASE SessionLost
  BY <1>11 DEF SessionLost
<1>12. CASE UNCHANGED vars
  BY <1>12 DEF vars
<1> QED
  BY <1>1, <1>2, <1>3, <1>4, <1>5, <1>6,
     <1>7, <1>8, <1>9, <1>10, <1>11, <1>12 DEF Next

-----------------------------------------------------------------------------
(* Theorems *)

(* The invariant is inductive. *)
LEMMA Invariance == Spec => []IInv
<1>1. Init => IInv
  BY ConstantsAssumption
     DEF Init, IInv, TypeOK, NoRequest, Made, NoHandlerLeft, TodoInv, RowInv, AnswerInv,
         ReportInv, Requesting, OfAccount
<1>2. IInv /\ [Next]_vars => IInv'
  BY TypeStep, HandlerStep, TodoStep, RowStep, AnswerStep, ReportStep DEF IInv
<1> QED
  BY <1>1, <1>2, PTL DEF Spec

(* Every variable always has its type. *)
THEOREM TypeCorrect == Spec => []TypeOK
  BY Invariance, PTL DEF IInv

(* The result never has two rows of one execution: an account is asked for *)
(* once, and rows are only added for the account that is being asked for.  *)
THEOREM RowsAreDistinct == Spec => []EachExecutionOnce
<1>1. IInv => EachExecutionOnce
  BY DEF IInv, RowInv, EachExecutionOnce
<1> QED
  BY <1>1, Invariance, PTL

(* No commission handler outlives its request. *)
THEOREM HandlersAreRemoved == Spec => []NoHandlerLeft
  BY Invariance, PTL DEF IInv

(* A report that came before the merge is in the row made from the Fill it *)
(* was written to; and if an empty report said none, every report would be *)
(* in its row.                                                             *)
THEOREM ReportsReachRows == Spec => ReportReachesRow
<1>1. IInv /\ [Next]_vars =>
        [ stage = "waiting" /\ stage' = "next" =>
            \A e \in Exec :
               /\ rows'[e] > rows[e]
               /\ \/ e \in reported /\ (e \in answer => e \in own)
                  \/ Empty = "none" /\ e \in heard \cup reported
               => e \in priced' ]_vars
  <2> SUFFICES ASSUME IInv, Next, stage = "waiting", stage' = "next",
                      NEW e \in Exec, rows'[e] > rows[e],
                      \/ e \in reported /\ (e \in answer => e \in own)
                      \/ Empty = "none" /\ e \in heard \cup reported
               PROVE  e \in priced'
    OBVIOUS
  <2>1. Merge
    BY DEF Next, Call, Ask, Answer, AskFails, Return, Tick, Trade, Learn, Report, SessionLost
  <2>2. rows'[e] = rows[e] + RowsFor(e) /\ rows[e] \in Nat
    BY <2>1 DEF Merge, IInv, TypeOK
  <2>3. RowsFor(e) > 0
    BY <2>2 DEF RowsFor
  <2>4. Commission(e) = "paid"
    <3>1. CASE e \in reported /\ (e \in answer => e \in own)
      BY <3>1 DEF Commission, OfReport, IInv, ReportInv
    <3>2. CASE Empty = "none" /\ e \in heard \cup reported
      BY <3>2 DEF Commission, OfReport, IInv, ReportInv, TypeOK
    <3> QED
      BY <3>1, <3>2
  <2> QED
    BY <2>1, <2>3, <2>4 DEF Merge
<1> QED
  BY <1>1, Invariance, PTL DEF Spec, ReportReachesRow

=============================================================================
