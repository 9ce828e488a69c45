------------------------------- MODULE Executions -------------------------------
(***************************************************************************)
(* The fetch_executions command: one request per managed account, each of  *)
(* which waits for the commission reports that follow the executions, and  *)
(* is merged with what the session already knows                           *)
(* (get_executions_async in src/src/bifrost_socket/ib/connector/           *)
(* ib_connector.py, _fetch_executions_impl in ib_client.py).  Fills and    *)
(* reports arrive at any time; a command runs alone on its client.         *)
(*                                                                         *)
(*   now             the time; a day is DayLength long                     *)
(*   at[e]           when execution e was made; NotYet                     *)
(*   fills           the executions the session knows (`ib.fills()`)       *)
(*   reported        those of them whose Fill has been given its           *)
(*                   commission report                                     *)
(*   stage           of the call: idle, next (account), asking, waiting    *)
(*   todo            the accounts still to be asked for                    *)
(*   request         the account and days asked for, and when              *)
(*   answer          what reqExecutions has returned, twice what of it has *)
(*                   come twice                                            *)
(*   own             the answered executions whose Fill is the session's   *)
(*                   own, which reports are written to                     *)
(*   charged         the answered executions whose Fill has its commission *)
(*   handlers        how many commission handlers are registered           *)
(*   commission_by_exec_id  what this request's handler has been told      *)
(*   rows[e]         how many rows of the result are about e               *)
(*   priced          the executions whose row has the commission they cost *)
(*                                                                         *)
(* One variable only observes:                                             *)
(*   heard           reports that have arrived since the request was made  *)
(*                                                                         *)
(* Of ib_insync: a Fill is born with an empty report, the session keeps the*)
(* first one it makes of an execution, and only that one is written to when*)
(* the report arrives; the answer to a request has Fills of its own but for*)
(* the executions the session first hears of by it.                        *)
(***************************************************************************)

EXTENDS Naturals

CONSTANTS
    Exec,          \* the executions (exec_id)
    Accounts,      \* the managed accounts
    Account,       \* the account of an execution
    Every,         \* the empty account name: no filter
    DayLength,     \* ticks of a day
    MaxDays,       \* bound on the days asked for
    MaxTime,       \* bound on the time
    NotYet,
    Empty          \* the commission in a report that has not arrived: "none",
                   \* or "zero", as in ib_insync's CommissionReport()

ASSUME ConstantsAssumption ==
    /\ Every \notin Accounts
    /\ Account \in [Exec -> Accounts]
    /\ DayLength \in Nat \ {0}
    /\ MaxDays \in Nat \ {0}
    /\ MaxTime \in Nat
    /\ NotYet \notin Nat
    /\ Empty \in {"none", "zero"}

VARIABLES now, at, fills, reported, stage, todo, request, answer, twice,
          own, charged, handlers, commission_by_exec_id, rows, priced, heard

gateway == <<now, at>>
session == <<fills, reported>>
exchange == <<answer, twice, own, charged, handlers, commission_by_exec_id, heard>>
result == <<rows, priced>>
vars == <<gateway, session, stage, todo, request, exchange, result>>

Made == {e \in Exec : at[e] # NotYet}

(* account_filter; the empty one lets every account pass. *)
OfAccount(e) == request.account \in {Every, Account[e]}

(* Not before start = now - (since_days - 1) days, which is no day's start.*)
InWindow(e) == at[e] + (request.days - 1) * DayLength >= request.asked

Day(t) == t \div DayLength

-----------------------------------------------------------------------------

NoRequest == [account |-> Every, days |-> 1, asked |-> 0]

Init ==
    /\ now = 0
    /\ at = [e \in Exec |-> NotYet]
    /\ fills = {}
    /\ reported = {}
    /\ stage = "idle"
    /\ todo = {}
    /\ request = NoRequest
    /\ answer = {}
    /\ twice = {}
    /\ own = {}
    /\ charged = {}
    /\ handlers = 0
    /\ commission_by_exec_id = {}
    /\ rows = [e \in Exec |-> 0]
    /\ priced = {}
    /\ heard = {}

(* The accounts to ask for; with none managed, everything in one request.  *)
Call(days, accounts) ==
    /\ stage = "idle"
    /\ stage' = "next"
    /\ todo' = IF accounts = {} THEN {Every} ELSE accounts
    /\ request' = [NoRequest EXCEPT !.days = days]
    /\ rows' = [e \in Exec |-> 0]
    /\ priced' = {}
    /\ UNCHANGED <<gateway, session, exchange>>

(* The handler is registered, then the executions are asked for. *)
Ask(a) ==
    /\ stage = "next"
    /\ a \in todo
    /\ todo' = todo \ {a}
    /\ request' = [request EXCEPT !.account = a, !.asked = now]
    /\ handlers' = handlers + 1
    /\ stage' = "asking"
    /\ UNCHANGED <<gateway, session, answer, twice, own, charged,
                   commission_by_exec_id, result, heard>>

(* execDetailsEnd: the executions of the account since the start.  The     *)
(* session knows them now.  3 seconds begin.                               *)
Answer ==
    /\ stage = "asking"
    /\ answer' = {e \in Made : OfAccount(e) /\ InWindow(e)}
    /\ twice' \in SUBSET answer'
    /\ own' = answer' \ fills
    /\ fills' = fills \cup answer'
    /\ stage' = "waiting"
    /\ UNCHANGED <<gateway, reported, charged, todo, request, handlers,
                   commission_by_exec_id, result, heard>>

(* A slip: the rows of the answer are not told apart. *)
RowsAsAnswered(e) ==
    IF e \in twice THEN 2
    ELSE IF e \in answer \/ (e \in fills /\ OfAccount(e)) THEN 1 ELSE 0

(* The rows one request adds for e: from the answer, once for an exec_id,  *)
(* else from the session, whatever its day.                                *)
RowsFor(e) == IF e \in answer \/ (e \in fills /\ OfAccount(e)) THEN 1 ELSE 0

(* The commission a Fill's report says. *)
OfReport(arrived) == IF arrived THEN "paid" ELSE Empty

(* A slip: rows of executions that were not answered are only priced by    *)
(* what the handler was told.                                              *)
HandlerOnly(e) == OfReport(e \in charged \/ e \in commission_by_exec_id)

(* The commission of a row: of the Fill it is made from, else, when that   *)
(* says none, from the handler, else, in the second pass, from the session.*)
Commission(e) ==
    LET filled == OfReport(IF e \in answer THEN e \in charged ELSE e \in reported)
    IN  IF filled = "none" /\ (e \in commission_by_exec_id \/ e \in fills \cap reported)
        THEN "paid"
        ELSE filled

HandlerRemoved == handlers' = handlers - 1

(* The locals of a request go with it. *)
LocalsGo ==
    /\ answer' = {}
    /\ twice' = {}
    /\ own' = {}
    /\ charged' = {}
    /\ commission_by_exec_id' = {}
    /\ heard' = {}
    /\ stage' = "next"

Merge ==
    /\ stage = "waiting"
    /\ HandlerRemoved
    /\ rows' = [e \in Exec |-> rows[e] + RowsFor(e)]
    /\ priced' = priced \cup {e \in Exec : RowsFor(e) > 0 /\ Commission(e) = "paid"}
    /\ LocalsGo
    /\ UNCHANGED <<gateway, session, todo, request>>

(* The request fails: no rows for this account, on with the next one. *)
AskFails ==
    /\ stage = "asking"
    /\ HandlerRemoved
    /\ LocalsGo
    /\ UNCHANGED <<gateway, session, todo, request, result>>

Return ==
    /\ stage = "next"
    /\ todo = {}
    /\ stage' = "idle"
    /\ request' = NoRequest
    /\ UNCHANGED <<gateway, session, todo, exchange, result>>

-----------------------------------------------------------------------------
(* TWS *)

Tick ==
    /\ now < MaxTime
    /\ now' = now + 1
    /\ UNCHANGED <<at, session, stage, todo, request, exchange, result>>

(* An execution is made. *)
Trade(e) ==
    /\ at[e] = NotYet
    /\ at' = [at EXCEPT ![e] = now]
    /\ UNCHANGED <<now, session, stage, todo, request, exchange, result>>

(* The session is told of an execution: as it is made, or when it connects *)
(* again after a loss.                                                     *)
Learn(e) ==
    /\ e \in Made \ fills
    /\ fills' = fills \cup {e}
    /\ UNCHANGED <<gateway, reported, stage, todo, request, exchange, result>>

(* commissionReport for an execution the session knows, for the first time *)
(* or again: it is written to the session's Fill, which may be one of the  *)
(* answer's, and the handlers are told.                                    *)
Report(e) ==
    /\ e \in fills
    /\ reported' = reported \cup {e}
    /\ charged' = charged \cup ({e} \cap own)
    /\ commission_by_exec_id' =
          IF handlers > 0 THEN commission_by_exec_id \cup {e} ELSE {}
    /\ heard' = IF stage \in {"asking", "waiting"} THEN heard \cup {e} ELSE {}
    /\ UNCHANGED <<gateway, fills, stage, todo, request, answer, twice, own,
                   handlers, result>>

(* The session is lost, with what it knew; no report will be written to the*)
(* Fills it made.                                                          *)
SessionLost ==
    /\ fills' = {}
    /\ reported' = {}
    /\ own' = {}
    /\ UNCHANGED <<gateway, stage, todo, request, answer, twice, charged, handlers,
                   commission_by_exec_id, result, heard>>

Next ==
    \/ \E days \in 1 .. MaxDays, accounts \in SUBSET Accounts : Call(days, accounts)
    \/ \E a \in Accounts \cup {Every} : Ask(a)
    \/ Answer
    \/ Merge
    \/ AskFails
    \/ Return
    \/ Tick
    \/ \E e \in Exec : Trade(e) \/ Learn(e) \/ Report(e)
    \/ SessionLost

Spec == Init /\ [][Next]_vars

-----------------------------------------------------------------------------
(* Properties *)

(* Every variable has its type. *)
TypeOK ==
    /\ now \in 0 .. MaxTime
    /\ at \in [Exec -> 0 .. MaxTime \cup {NotYet}]
    /\ fills \subseteq Made
    /\ reported \subseteq fills
    /\ stage \in {"idle", "next", "asking", "waiting"}
    /\ todo \subseteq Accounts \cup {Every}
    /\ request \in [account : Accounts \cup {Every}, days : 1 .. MaxDays, asked : 0 .. MaxTime]
    /\ answer \subseteq Made
    /\ twice \subseteq answer
    /\ own \subseteq answer
    /\ charged \subseteq answer
    /\ handlers \in Nat
    /\ commission_by_exec_id \subseteq Made
    /\ rows \in [Exec -> Nat]
    /\ priced \subseteq Made
    /\ heard \subseteq Made

(* The result of a command has no execution twice: not when TWS sends it   *)
(* twice, nor when the session knows it too, nor when two accounts' rows   *)
(* are put together.                                                       *)
EachExecutionOnce ==
    \A e \in Exec : rows[e] <= 1

(* A report that has arrived is in the row it belongs to, when the row is  *)
(* made from the session's own Fill: of an execution that the request did  *)
(* not return, or of one the session first heard of by this request, whose *)
(* report then came during the wait.  (With ib_insync the other rows are   *)
(* left with the 0.0 of an empty report, whatever the handler was told:    *)
(* `commission is None` is false of it.  If an empty report said none, the *)
(* handler and the second pass would fill them in, and every report that   *)
(* came since the request, or that the session has, would reach its row.)  *)
ReportReachesRow ==
    [][ stage = "waiting" /\ stage' = "next" =>
          \A e \in Exec :
             /\ rows'[e] > rows[e]
             /\ \/ e \in reported /\ (e \in answer => e \in own)
                \/ Empty = "none" /\ e \in heard \cup reported
             => e \in priced' ]_vars

(* No commission handler is left behind: there is one while a request is   *)
(* under way, and none otherwise, whatever failed.                         *)
NoHandlerLeft ==
    handlers = IF stage \in {"asking", "waiting"} THEN 1 ELSE 0

(* "since_days: 1=today (default), 3=last 3 days, 7=last 7 days"           *)
(* (ib_connector.py:996): a request for 1 day has a row for every execution*)
(* of its account made earlier that day.                                   *)
TodayIsFetched ==
    [][ stage = "waiting" /\ stage' = "next" /\ request.days = 1 =>
          \A e \in Made :
             /\ OfAccount(e)
             /\ at[e] < request.asked
             /\ Day(at[e]) = Day(request.asked)
             => rows'[e] > 0 ]_vars

=============================================================================
