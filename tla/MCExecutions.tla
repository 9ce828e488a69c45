----------------------------- MODULE MCExecutions -----------------------------
(* Executions for TLC: two executions, of an account each, over two days.   *)

EXTENDS Executions

CONSTANTS e1, e2, A, B

MCExec == {e1, e2}
MCAccounts == {A, B}
MCAccount == [e \in MCExec |-> IF e = e2 THEN B ELSE A]

=============================================================================
