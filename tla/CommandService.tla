---------------------------- MODULE CommandService ----------------------------
(***************************************************************************)
(* What the IB Operator promises to those who append commands to its       *)
(* stream, with processes, consumer names, pending lists and faults left   *)
(* out: each command is open until it is settled, is executed only while   *)
(* it is open and in time, gets only outcomes it has earned, and is        *)
(* settled only with an outcome.  The broker may forget what was settled,  *)
(* and then every command is open again.                                   *)
(*                                                                         *)
(*   stream         the commands so far; one that is garbled has no outcome*)
(*   expired        those whose deadline has passed                        *)
(*   executions[i]  how often command i was executed                       *)
(*   answers[i]     the outcomes its caller may have read                  *)
(*   settled        the commands that are done with                        *)
(***************************************************************************)

EXTENDS Integers, Sequences

CONSTANTS
    Entry,      \* the positions of the stream
    MayForget   \* whether the broker may lose what it knows

VARIABLES stream, expired, executions, answers, settled

vars == <<stream, expired, executions, answers, settled>>

Open == {i \in Entry : i <= Len(stream)} \ settled

Init ==
    /\ stream = <<>>
    /\ expired = {}
    /\ executions = [i \in Entry |-> 0]
    /\ answers = [i \in Entry |-> {}]
    /\ settled = {}

Submit(kind) ==
    /\ stream' = Append(stream, kind)
    /\ UNCHANGED <<expired, executions, answers, settled>>

Expire(i) ==
    /\ expired' = expired \cup {i}
    /\ UNCHANGED <<stream, executions, answers, settled>>

Execute(i) ==
    /\ i \in Open \ expired
    /\ stream[i] = "rpc"
    /\ executions' = [executions EXCEPT ![i] = @ + 1]
    /\ UNCHANGED <<stream, expired, answers, settled>>

(* What came out of an execution, or that there was none in time. *)
Earned(i, outcome) ==
    \/ outcome \in {"ok", "error"} /\ executions[i] > 0
    \/ outcome = "deadline_expired" /\ i \in expired

Answer(i, outcome) ==
    /\ i \in Open
    /\ stream[i] = "rpc"
    /\ Earned(i, outcome)
    /\ answers' = [answers EXCEPT ![i] = @ \cup {outcome}]
    /\ UNCHANGED <<stream, expired, executions, settled>>

Settle(i) ==
    /\ i \in Open
    /\ stream[i] = "rpc" => answers[i] # {}
    /\ settled' = settled \cup {i}
    /\ UNCHANGED <<stream, expired, executions, answers>>

Forget ==
    /\ MayForget
    /\ settled' = {}
    /\ UNCHANGED <<stream, expired, executions, answers>>

Next ==
    \/ \E kind \in {"rpc", "garbled"} : Submit(kind)
    \/ \E i \in Entry :
          \/ Expire(i)
          \/ Execute(i)
          \/ \E outcome \in {"ok", "error", "deadline_expired"} : Answer(i, outcome)
          \/ Settle(i)
    \/ Forget

Spec == Init /\ [][Next]_vars

=============================================================================
