----------------------------- MODULE MCIbConnect -----------------------------
(* IbConnect for TLC: the Account Agent, which connects in full and whose  *)
(* requests run beside its probe loop, and the Operator, which heartbeats  *)
(* reconnect, on one host, with client ids next to one another, as several *)
(* of the defaults in config.py are.                                       *)

EXTENDS IbConnect

CONSTANTS agent, operator

MCClients == {agent, operator}
MCHeartbeatOnly == {operator}
MCBeside == {agent}
MCPort == [c \in MCClients |-> 7496]
MCClientId == [c \in MCClients |-> IF c = agent THEN 151 ELSE 152]

=============================================================================
