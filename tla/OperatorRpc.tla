----------------------------- MODULE OperatorRpc -----------------------------
(***************************************************************************)
(* The IB Operator's command consumer: the loop of run_ib_operator_loop    *)
(* (src/src/bifrost_socket/ib/operator/service.py) with its Redis helpers  *)
(* (redis_io.py).  Callers append commands to a Redis stream; one consumer *)
(* of one consumer group takes them one by one, executes them on IB,       *)
(* writes a result under the command's req_id and acknowledges the entry.  *)
(* Redis keeps an entry that was delivered but not acknowledged in the     *)
(* pending entries list (PEL) of the consumer's name.                      *)
(*                                                                         *)
(*   stream      the entries added so far, in order: "rpc" parses to a     *)
(*               CommandMessage, "garbled" does not                        *)
(*   expired     the commands whose deadline_ms has passed                 *)
(*   delivered   the group's last delivered entry; NoGroup without a group *)
(*   pending[i]  the consumer name in whose PEL entry i is, or Nobody      *)
(*   answers[i]  the outcomes written to i's result key so far             *)
(*   executions[i]  how often i was handed to the executor                 *)
(*   consumer    the name of the present process, or of the last one       *)
(*   step        where the loop is (see Steps)                             *)
(*   inHand      the entry being handled                                   *)
(*   verdict     the outcome that is to be written for it                  *)
(*   stopping    the stop event                                            *)
(*   failures, stops   how many faults and stop requests there were; and   *)
(*   failed      the kinds of faults among them                            *)
(***************************************************************************)

EXTENDS Integers, Sequences

CONSTANTS
    Consumer,      \* the names (hostname-pid) a process may get
    Nobody,        \* no consumer
    Faults,        \* which faults occur: see ConstantsAssumption
    MaxCommands,   \* bound on the entries added to the stream
    MaxFailures,   \* bound on the faults
    MaxStops       \* bound on the stop requests

ASSUME ConstantsAssumption ==
    /\ Nobody \notin Consumer
    /\ Consumer # {}
    /\ Faults \subseteq {"read", "write", "ack", "group", "health", "crash"}
    /\ MaxCommands \in Nat
    /\ MaxFailures \in Nat
    /\ MaxStops \in Nat

VARIABLES stream, expired, delivered, pending, answers, executions,
          consumer, step, inHand, verdict, stopping, failures, failed, stops

redis == <<stream, delivered, pending, answers>>
process == <<consumer, step, inHand, verdict, stopping>>
bounds == <<failures, failed, stops>>
vars == <<redis, expired, executions, process, bounds>>

(* down: no process; top: the while condition; fresh: no pending entry was *)
(* found; parse: an entry is in hand; execute: asyncio.run(_handle_message)*)
(* is under way; reply: write_result is next; ack: ack_message is next;    *)
(* close: the finally block is next.                                       *)
Steps == {"down", "top", "fresh", "parse", "execute", "reply", "ack", "close"}

Outcomes == {"ok", "error", "deadline_expired"}
NoOutcome == "none"
NoEntry == 0
NoGroup == -1

Entry == 1..MaxCommands

-----------------------------------------------------------------------------
(* Helpers *)

GroupExists == delivered # NoGroup

(* A slip of the loop: only new entries (">") are read, never the PEL. *)
NothingPending == {}

(* What a read from "0" returns: this consumer's PEL. *)
MyPending == {i \in Entry : pending[i] = consumer}

Fault(kind) ==
    /\ kind \in Faults
    /\ failures < MaxFailures
    /\ failures' = failures + 1
    /\ failed' = failed \cup {kind}
    /\ UNCHANGED stops

Goto(s) == step' = s

(* Control goes to step s with nothing in hand. *)
Drop(s) ==
    /\ step' = s
    /\ inHand' = NoEntry
    /\ verdict' = NoOutcome

-----------------------------------------------------------------------------

Init ==
    /\ stream = <<>>
    /\ expired = {}
    /\ delivered = NoGroup
    /\ pending = [i \in Entry |-> Nobody]
    /\ answers = [i \in Entry |-> {}]
    /\ executions = [i \in Entry |-> 0]
    /\ consumer \in Consumer
    /\ step = "down"
    /\ inHand = NoEntry
    /\ verdict = NoOutcome
    /\ stopping = FALSE
    /\ failures = 0
    /\ failed = {}
    /\ stops = 0

(* A caller appends a command. *)
Add(kind) ==
    /\ Len(stream) < MaxCommands
    /\ stream' = Append(stream, kind)
    /\ UNCHANGED <<expired, delivered, pending, answers, executions, process, bounds>>

(* A command's deadline_ms passes. *)
DeadlinePasses(i) ==
    /\ i \in 1..Len(stream) \ expired
    /\ expired' = expired \cup {i}
    /\ UNCHANGED <<redis, executions, process, bounds>>

(* Somebody destroys the group, or Redis loses it; its PELs go with it. *)
GroupLost ==
    /\ GroupExists
    /\ Fault("group")
    /\ delivered' = NoGroup
    /\ pending' = [i \in Entry |-> Nobody]
    /\ UNCHANGED <<stream, expired, answers, executions, process>>

(* SIGTERM, or the loss of the Lease. *)
StopRequested ==
    /\ step # "down"
    /\ ~stopping
    /\ stops < MaxStops
    /\ stopping' = TRUE
    /\ stops' = stops + 1
    /\ UNCHANGED <<redis, expired, executions, consumer, step, inHand, verdict,
                   failures, failed>>

(* The process starts: ensure_stream_and_group.  A group is created at the *)
(* start of the stream.                                                    *)
Launch(name) ==
    /\ step = "down"
    /\ consumer' = name
    /\ Drop("top")
    /\ stopping' = FALSE
    /\ delivered' = IF GroupExists THEN delivered ELSE 0
    /\ UNCHANGED <<stream, pending, answers, expired, executions, bounds>>

(* while not stop.is_set() *)
LeaveLoop ==
    /\ step = "top"
    /\ stopping
    /\ Goto("close")
    /\ UNCHANGED <<redis, expired, executions, consumer, inHand, verdict, stopping, bounds>>

(* write_health_now, after a reconnect by the heartbeat (OperatorHeartbeat *)
(* has its steps), raises: nothing catches it, and the loop is left.       *)
HeartbeatRaises ==
    /\ step = "top"
    /\ ~stopping
    /\ Fault("health")
    /\ Drop("close")
    /\ UNCHANGED <<redis, expired, executions, consumer, stopping>>

(* XREADGROUP from "0", count 1: the oldest entry of this consumer's PEL.  *)
(* On NOGROUP the group is created anew and the read, retried, is empty.   *)
(* An empty read is followed by a read of new entries, unless stopping.    *)
ReadPending ==
    /\ step = "top"
    /\ ~stopping
    /\ delivered' = IF GroupExists THEN delivered ELSE 0
    /\ \/ \E oldest \in MyPending :
             /\ \A i \in MyPending : oldest <= i
             /\ inHand' = oldest
             /\ step' = "parse"
       \/ /\ MyPending = {}
          /\ step' = "fresh"
          /\ UNCHANGED inHand
    /\ UNCHANGED <<stream, pending, answers, expired, executions, consumer,
                   verdict, stopping, bounds>>

(* A slip of the error handling: a read that raises leaves the loop. *)
ReadFailureLeaves ==
    /\ step = "top"
    /\ ~stopping
    /\ Fault("read")
    /\ Drop("close")
    /\ UNCHANGED <<redis, expired, executions, consumer, stopping>>

(* The read of the PEL raises: logged, and treated as empty. *)
ReadPendingFails ==
    /\ step = "top"
    /\ ~stopping
    /\ Fault("read")
    /\ Goto("fresh")
    /\ UNCHANGED <<redis, expired, executions, consumer, inHand, verdict, stopping>>

(* `not entries and not stop.is_set()` is false: back to the while. *)
SkipFresh ==
    /\ step = "fresh"
    /\ stopping
    /\ Goto("top")
    /\ UNCHANGED <<redis, expired, executions, consumer, inHand, verdict, stopping, bounds>>

(* XREADGROUP from ">", count 1, on the group or on the one created anew   *)
(* after NOGROUP: Redis moves the next entry to this consumer's PEL.       *)
Position == IF GroupExists THEN delivered ELSE 0

Deliver ==
    /\ Position < Len(stream)
    /\ delivered' = Position + 1
    /\ pending' = [pending EXCEPT ![Position + 1] = consumer]

ReadFresh ==
    /\ step = "fresh"
    /\ ~stopping
    /\ \/ /\ Deliver
          /\ inHand' = Position + 1
          /\ step' = "parse"
       \/ /\ Position = Len(stream)
          /\ delivered' = Position
          /\ Goto("top")
          /\ UNCHANGED <<pending, inHand>>
    /\ UNCHANGED <<stream, answers, expired, executions, consumer, verdict,
                   stopping, bounds>>

(* The read raises: logged, `continue`.  Redis may have delivered an entry *)
(* whose reply was lost.                                                   *)
ReadFreshFails ==
    /\ step = "fresh"
    /\ ~stopping
    /\ Fault("read")
    /\ \/ Deliver
       \/ UNCHANGED <<delivered, pending>>
    /\ Goto("top")
    /\ UNCHANGED <<stream, answers, expired, executions, consumer, inHand,
                   verdict, stopping>>

(* The entry in hand is looked at: a stop leaves it pending, an entry that *)
(* does not parse is acknowledged without a result, a late one is answered *)
(* without being executed, and any other goes to the executor.             *)
HandleStopped ==
    /\ step = "parse"
    /\ stopping
    /\ Drop("top")
    /\ UNCHANGED <<redis, expired, executions, consumer, stopping, bounds>>

HandleGarbled ==
    /\ step = "parse"
    /\ ~stopping
    /\ stream[inHand] = "garbled"
    /\ Goto("ack")
    /\ UNCHANGED <<redis, expired, executions, consumer, inHand, verdict, stopping, bounds>>

HandleExpired ==
    /\ step = "parse"
    /\ ~stopping
    /\ stream[inHand] = "rpc"
    /\ inHand \in expired
    /\ Goto("reply")
    /\ verdict' = "deadline_expired"
    /\ UNCHANGED <<redis, expired, executions, consumer, inHand, stopping, bounds>>

(* A slip of the handling: the deadline is not looked at. *)
HandleRpcLate ==
    /\ step = "parse"
    /\ ~stopping
    /\ stream[inHand] = "rpc"
    /\ Goto("execute")
    /\ executions' = [executions EXCEPT ![inHand] = @ + 1]
    /\ UNCHANGED <<redis, expired, consumer, inHand, verdict, stopping, bounds>>

HandleRpc ==
    /\ step = "parse"
    /\ ~stopping
    /\ stream[inHand] = "rpc"
    /\ inHand \notin expired
    /\ Goto("execute")
    /\ executions' = [executions EXCEPT ![inHand] = @ + 1]
    /\ UNCHANGED <<redis, expired, consumer, inHand, verdict, stopping, bounds>>

(* _handle_message turns an exception into an error outcome, and so does   *)
(* dumps_result an outcome that is too large or does not encode.           *)
ExecuteReturns ==
    /\ step = "execute"
    /\ \E outcome \in {"ok", "error"} : verdict' = outcome
    /\ Goto("reply")
    /\ UNCHANGED <<redis, expired, executions, consumer, inHand, stopping, bounds>>

(* write_result *)
StoreAnswer == answers' = [answers EXCEPT ![inHand] = @ \cup {verdict}]

WriteResult ==
    /\ step = "reply"
    /\ StoreAnswer
    /\ Goto("ack")
    /\ UNCHANGED <<stream, delivered, pending, expired, executions, consumer,
                   inHand, verdict, stopping, bounds>>

(* A slip of the error handling: the exception is caught, and the entry    *)
(* acknowledged.                                                           *)
WriteResultFailureIgnored ==
    /\ step = "reply"
    /\ Fault("write")
    /\ UNCHANGED answers
    /\ Goto("ack")
    /\ UNCHANGED <<stream, delivered, pending, expired, executions, consumer,
                   inHand, verdict, stopping>>

(* write_result raises, whether Redis stored the value or not: nothing     *)
(* catches it, and the loop is left through the finally block.             *)
WriteResultFails ==
    /\ step = "reply"
    /\ Fault("write")
    /\ \/ StoreAnswer
       \/ UNCHANGED answers
    /\ Drop("close")
    /\ UNCHANGED <<stream, delivered, pending, expired, executions, consumer, stopping>>

(* A slip of ack_message: XACK is not sent. *)
NotAcknowledged == UNCHANGED pending

(* ack_message: XACK, or, when it raises, a warning and nothing else. *)
Acknowledge == pending' = [pending EXCEPT ![inHand] = Nobody]

Ack ==
    /\ step = "ack"
    /\ Acknowledge
    /\ Drop("top")
    /\ UNCHANGED <<stream, delivered, answers, expired, executions, consumer,
                   stopping, bounds>>

AckFails ==
    /\ step = "ack"
    /\ Fault("ack")
    /\ \/ Acknowledge
       \/ UNCHANGED pending
    /\ Drop("top")
    /\ UNCHANGED <<stream, delivered, answers, expired, executions, consumer, stopping>>

(* finally: the stop event is set, IB is disconnected; the process ends. *)
Close ==
    /\ step = "close"
    /\ Drop("down")
    /\ stopping' = FALSE
    /\ UNCHANGED <<redis, expired, executions, consumer, bounds>>

Crash ==
    /\ step # "down"
    /\ Fault("crash")
    /\ Drop("down")
    /\ stopping' = FALSE
    /\ UNCHANGED <<redis, expired, executions, consumer>>

Loop ==
    \/ LeaveLoop
    \/ ReadPending
    \/ SkipFresh
    \/ ReadFresh
    \/ HandleStopped
    \/ HandleGarbled
    \/ HandleExpired
    \/ HandleRpc
    \/ ExecuteReturns
    \/ WriteResult
    \/ Ack
    \/ Close

Disturbance ==
    \/ GroupLost
    \/ HeartbeatRaises
    \/ ReadPendingFails
    \/ ReadFreshFails
    \/ WriteResultFails
    \/ AckFails
    \/ Crash

Environment ==
    \/ \E kind \in {"rpc", "garbled"} : Add(kind)
    \/ \E i \in Entry : DeadlinePasses(i)
    \/ StopRequested

Next ==
    \/ Loop
    \/ \E name \in Consumer : Launch(name)
    \/ Disturbance
    \/ Environment

(* The loop's thread is scheduled, every call it makes returns or raises,  *)
(* and a process that has ended is restarted.                              *)
Fairness ==
    /\ WF_vars(Loop)
    /\ WF_vars(\E name \in Consumer : Launch(name))

Spec == Init /\ [][Next]_vars
FairSpec == Spec /\ Fairness

-----------------------------------------------------------------------------
(* Properties *)

(* Every variable has its type. *)
TypeOK ==
    /\ stream \in Seq({"rpc", "garbled"}) /\ Len(stream) <= MaxCommands
    /\ expired \subseteq 1..Len(stream)
    /\ delivered \in {NoGroup} \cup 0..Len(stream)
    /\ pending \in [Entry -> Consumer \cup {Nobody}]
    /\ answers \in [Entry -> SUBSET Outcomes]
    /\ executions \in [Entry -> Nat]
    /\ consumer \in Consumer
    /\ step \in Steps
    /\ inHand \in Entry \cup {NoEntry}
    /\ verdict \in Outcomes \cup {NoOutcome}
    /\ stopping \in BOOLEAN
    /\ failures \in 0..MaxFailures
    /\ failed \subseteq Faults
    /\ stops \in 0..MaxStops

(* No command gets lost between delivery and result: an entry that parses, *)
(* was delivered and is in no PEL any more has a result.  Neither a crash, *)
(* a stop, a lost reply nor the loss of the group breaks this.             *)
NoCommandLost ==
    \A i \in 1..delivered :
        stream[i] = "rpc" /\ pending[i] = Nobody => answers[i] # {}

(* A command is executed again only because something failed: graceful     *)
(* stops, restarts and hand-overs to another pod repeat nothing.           *)
ReexecutionNeedsFailure ==
    \A i \in Entry : executions[i] <= 1 + failures

(* Commands are executed in stream order, while no read has failed and no  *)
(* group was lost: when one is executed for the first time, each earlier   *)
(* one has been answered, or is in the PEL of a name that is not the       *)
(* present one.  Failed writes and acknowledgements, crashes, stops and    *)
(* restarts do not change the order.                                       *)
InStreamOrder ==
    [][ \A i, j \in Entry :
            /\ i < j
            /\ executions[j] = 0 /\ executions'[j] = 1
            /\ stream[i] = "rpc"
            /\ failed \cap {"read", "group"} = {}
            => answers[i] # {} \/ pending[i] \notin {Nobody, consumer} ]_vars

(* In the end every command is answered, or is left in the PEL of a name   *)
(* that no process has any more: nothing claims such entries.              *)
EveryCommandSettled ==
    \A i \in Entry :
        (i <= Len(stream) /\ stream[i] = "rpc")
            ~> (answers[i] # {} \/ pending[i] \notin {Nobody, consumer})

(* A result a caller may have read does not change under it: unless an     *)
(* acknowledgement, a write, the group or the process was lost, a command  *)
(* never gets a second outcome, although it may be delivered, put back by  *)
(* a stop, and pass its deadline before it is delivered again.             *)
AnswerIsFinal ==
    failed \cap {"ack", "write", "group", "crash"} = {} =>
        \A i \in Entry : \A a, b \in answers[i] : a = b

(* "Transient Redis timeouts must not tear down IB sessions (finally ->    *)
(* disconnect_all)." (service.py:319) holds for reads and acknowledgements:*)
(* without a stop the loop is left only when the health after a reconnect, *)
(* or a command's result, could not be written; and while the group exists *)
(* that command is still pending, so that the next process of the same     *)
(* name takes it up again.                                                 *)
LeftOnlyByFailedWrite ==
    [][ step' = "close" /\ step # "close" /\ ~stopping =>
            \/ step = "top" /\ "health" \in failed'
            \/ /\ inHand # NoEntry
               /\ "group" \in failed \/ pending[inHand] = consumer ]_vars

(* Commands that were delivered and are in no PEL any more. *)
Settled == {i \in 1..delivered : pending[i] = Nobody}

Service == INSTANCE CommandService
              WITH settled <- Settled, MayForget <- "group" \in Faults

(* The consumer keeps CommandService's promise to the callers: a command   *)
(* is executed only in time and while it is not done with, has only        *)
(* outcomes it has earned (what an execution returned, or                  *)
(* deadline_expired once its deadline_ms has passed), and is done with     *)
(* only when it has one, through every restart and fault.                  *)
ImplementsCommandService == Service!Spec

=============================================================================
