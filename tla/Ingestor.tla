------------------------------ MODULE Ingestor ------------------------------
(***************************************************************************)
(* The IB Ingestor: IbIngestor.run with its sessions and the probe loop    *)
(* beside them (src/src/bifrost_socket/ib/ingestor/ib_ingestor.py), the    *)
(* watchlist it polls (watchlist.py) and the lines it takes of the market  *)
(* data budget (data_line_budget.py).  Session and probe are tasks of one  *)
(* event loop that interleave at their awaits (here: also between them, at *)
(* more points than in the program); the service's task may be cancelled   *)
(* at any await of its own, when the pod loses the Lease.                  *)
(*                                                                         *)
(*   conn       the client's connection: "none" without a connector,       *)
(*              "down" with one that is not connected, "up"                *)
(*   lines      the market data lines the connector keeps a ticker of      *)
(*   stray      the contracts of lines still open at IB whose tickers were *)
(*              forgotten: their cancellation failed                       *)
(*   watchlist, demand   the tables and the Redis set contracts come from  *)
(*   main       where the service's task is (see MainStates)               *)
(*   probe      where the probe task is (see ProbeStates)                  *)
(*   wanted     the contracts of the present poll                          *)
(*   held       the connector _apply_subs works on is still connected      *)
(*   disconnected  _session_disconnected                                   *)
(*   leaving    a CancelledError is leaving the session                    *)
(*   cancelled  the service's task has been cancelled: "no", "asked", or   *)
(*              "lost" when the CancelledError came to nothing             *)
(*   due        the service heartbeat is due                               *)
(*   published  the subscriptions in Redis                                 *)
(*   stop       _stop                                                      *)
(*   changes, failures, failed   how many changes of the world and faults  *)
(*              there were, and the kinds of the faults                    *)
(***************************************************************************)

EXTENDS Integers, FiniteSets

CONSTANTS
    Option,            \* option contracts, by their rank in the query
    Stock,             \* stocks, by their rank in the query
    OnDemand,          \* stocks somebody may ask for in Redis
    MaxSubscriptions,  \* _max_subscriptions(): the cap on watchlist lines
    Refused,           \* contracts whose subscription fails every time
    Faults,            \* which calls may fail (see FaultKinds)
    MaxChanges,        \* bound on drops, stops, cancellations and new watchlists
    MaxFailures        \* bound on faults

(* Writes of the health (in the probe loop: of the hint before a heartbeat *)
(* attempt) and of the subscriptions, queries of the watchlist and of the  *)
(* on-demand set, cancellations of old lines and subscriptions of new ones.*)
FaultKinds == {"health", "hint", "subs", "watchlist", "demand", "cancel",
               "subscribe"}

ASSUME ConstantsAssumption ==
    /\ Option \subseteq Nat /\ Stock \subseteq Nat /\ OnDemand \subseteq Nat
    /\ IsFiniteSet(Option) /\ IsFiniteSet(Stock) /\ IsFiniteSet(OnDemand)
    /\ Option \cap (Stock \cup OnDemand) = {}
    /\ MaxSubscriptions \in Nat \ {0}
    /\ Refused \subseteq Option \cup Stock \cup OnDemand
    /\ Faults \subseteq FaultKinds
    /\ MaxChanges \in Nat
    /\ MaxFailures \in Nat

VARIABLES conn, lines, stray, watchlist, demand, main, probe, wanted, held,
          disconnected, leaving, cancelled, due, published, stop,
          changes, failures, failed

session == <<conn, lines, stray, held>>
tables == <<watchlist, demand>>
ending == <<leaving, cancelled, stop>>
bounds == <<changes, failures, failed>>
vars == <<session, tables, main, probe, wanted, disconnected, ending, due,
          published, bounds>>

(* connect: in ensure_connected; begin: connected; top: the while          *)
(* condition; fetch: in fetch_watchlist; apply, applying: in _apply_subs;  *)
(* publish; wait: in _wait_poll_or_interrupt; closing, joining, hangup:    *)
(* the finally block, waiting for the probe task and in disconnect; ended: *)
(* back in run; delay: between two sessions; final; stopped.               *)
MainStates == {"connect", "begin", "top", "fetch", "apply", "applying",
               "publish", "wait", "closing", "joining", "hangup", "ended",
               "delay", "final", "stopped"}

(* off: no task, or one that has ended; dead: ended by an exception.       *)
ProbeStates == {"off", "wait", "reconnect", "read", "dead"}

InSession == {"top", "fetch", "apply", "applying", "publish", "wait"}

Contract == Option \cup Stock \cup OnDemand

-----------------------------------------------------------------------------
(* Helpers *)

(* The first k of a query's rows. *)
First(k, rows) == {c \in rows : Cardinality({d \in rows : d < c}) < k}

(* What options leave of the budget for stocks. *)
Remaining(taken) == MaxSubscriptions - Cardinality(taken)

(* fetch_watchlist: options first, cut to the budget. *)
Capped(rows) ==
    LET options == First(MaxSubscriptions, rows \cap Option)
    IN  options \cup First(Remaining(options), rows \cap Stock)

(* With the on-demand stocks, which are not cut. *)
Target == Capped(watchlist) \cup demand

(* What a poll reads: a query that fails counts as empty. *)
Fetched(kinds) ==
    (IF "watchlist" \in kinds THEN {} ELSE Capped(watchlist))
        \cup (IF "demand" \in kinds THEN {} ELSE demand)

(* The calls of these kinds fail, in one step of the service. *)
Fault(kinds) ==
    /\ kinds \subseteq Faults
    /\ failures < MaxFailures
    /\ failures' = failures + 1
    /\ failed' = failed \cup kinds
    /\ UNCHANGED changes

Change ==
    /\ changes < MaxChanges
    /\ changes' = changes + 1
    /\ UNCHANGED <<failures, failed>>

(* The service's task goes on to s; nothing else of it changes. *)
Goto(s) ==
    /\ main' = s
    /\ UNCHANGED <<wanted, ending>>

(* A slip of _wait_poll_or_interrupt: it only looks at _stop. *)
StopOnly == stop

Interrupted == stop \/ disconnected

-----------------------------------------------------------------------------

Init ==
    /\ conn = "none"
    /\ lines = {}
    /\ stray = {}
    /\ held = FALSE
    /\ watchlist \in SUBSET (Option \cup Stock)
    /\ demand = {}
    /\ main = "connect"
    /\ probe = "off"
    /\ wanted = {}
    /\ disconnected = FALSE
    /\ leaving = FALSE
    /\ cancelled = "no"
    /\ stop = FALSE
    /\ due = FALSE
    /\ published = {}
    /\ changes = 0
    /\ failures = 0
    /\ failed = {}

(* client.ensure_connected(): a client that is still connected is left so. *)
ConnectOk ==
    /\ main = "connect"
    /\ conn' = "up"
    /\ Goto("begin")
    /\ UNCHANGED <<lines, stray, held, tables, probe, disconnected, due, published, bounds>>

ConnectFails ==
    /\ main = "connect"
    /\ conn # "up"
    /\ conn' = "none"
    /\ Goto("ended")
    /\ UNCHANGED <<lines, stray, held, tables, probe, disconnected, due, published, bounds>>

(* The session begins; a health write that raises ends it before its try.  *)
Begin ==
    /\ main = "begin"
    /\ disconnected' = FALSE
    /\ \/ /\ Goto("top")
          /\ probe' = "wait"
          /\ UNCHANGED bounds
       \/ /\ Fault({"health"})
          /\ Goto("ended")
          /\ UNCHANGED probe
    /\ UNCHANGED <<session, tables, due, published>>

(* while not self._stop.is_set() *)
Top ==
    /\ main = "top"
    /\ Goto(IF stop THEN "closing" ELSE "fetch")
    /\ UNCHANGED <<session, tables, probe, disconnected, due, published, bounds>>

(* The query returns, and the on-demand stocks are added; either, or both, *)
(* may fail, and then counts as empty.  Without any contract the empty set *)
(* is published, but the lines stay as they are.                           *)
FetchReturns ==
    /\ main = "fetch"
    /\ \E kinds \in SUBSET {"watchlist", "demand"} :
          /\ IF kinds = {} THEN UNCHANGED bounds ELSE Fault(kinds)
          /\ wanted' = Fetched(kinds)
          /\ main' = IF wanted' = {} THEN "publish" ELSE "apply"
    /\ UNCHANGED <<session, tables, ending, probe, disconnected, due, published>>

(* A slip of unsubscribe_ticker: a ticker is forgotten, not cancelled.     *)
Forgotten(left) ==
    /\ lines' = {}
    /\ stray' = stray \cup lines

(* unsubscribe_ticker and unsubscribe_option_ticker of every old line: the *)
(* ticker is forgotten whether or not IB took the cancellation, and the    *)
(* lines of those it did not take stay open.                               *)
GivenUp(left) ==
    /\ lines' = {}
    /\ stray' = stray \cup left

(* _apply_subs: without a connector it raises; a connected one gives up    *)
(* its lines first, and the errors of failing cancellations are swallowed. *)
ApplyBegins ==
    /\ main = "apply"
    /\ Goto(IF conn = "none" THEN "closing" ELSE "applying")
    /\ \E left \in SUBSET lines :
          /\ IF left = {} THEN UNCHANGED bounds ELSE Fault({"cancel"})
          /\ GivenUp(left)
    /\ held' = (conn = "up")
    /\ UNCHANGED <<conn, tables, probe, disconnected, due, published>>

(* The new lines, on the connector it began with: one that has dropped     *)
(* takes none, without an error.  A contract whose subscription fails is   *)
(* logged and skipped.                                                     *)
ApplyEnds ==
    /\ main = "applying"
    /\ \/ /\ ~held
          /\ UNCHANGED <<lines, bounds>>
       \/ /\ held
          /\ lines' = wanted \ Refused
          /\ UNCHANGED bounds
       \/ /\ held
          /\ lines' \in SUBSET (wanted \ Refused)
          /\ Fault({"subscribe"})
    /\ held' = FALSE
    /\ Goto("publish")
    /\ UNCHANGED <<conn, stray, tables, probe, disconnected, due, published>>

(* set_subscriptions and _push_health; an error of either ends the session.*)
Publish ==
    /\ main = "publish"
    /\ \/ /\ Goto("wait")
          /\ published' = wanted
          /\ UNCHANGED bounds
       \/ /\ Fault({"subs"})
          /\ Goto("closing")
          /\ UNCHANGED published
       \/ /\ Fault({"health"})
          /\ Goto("closing")
          /\ published' = wanted
    /\ UNCHANGED <<session, tables, probe, disconnected, due>>

(* _wait_poll_or_interrupt *)
WaitReturns ==
    /\ main = "wait"
    /\ Goto(IF Interrupted THEN "closing" ELSE "top")
    /\ UNCHANGED <<session, tables, probe, disconnected, due, published, bounds>>

(* The CancelledError of a cancellation in the session is gone. *)
Lost == cancelled' = IF cancelled = "asked" THEN "lost" ELSE cancelled

(* finally: the probe task is cancelled and awaited.  One that has ended   *)
(* with an exception raises it here, in place of a CancelledError that may *)
(* be leaving, and the client is not disconnected.                         *)
CancelProbe ==
    /\ main = "closing"
    /\ probe' = "off"
    /\ \/ /\ probe \in {"wait", "reconnect", "read"}
          /\ Goto("joining")
       \/ /\ probe = "off"
          /\ Goto("hangup")
       \/ /\ probe = "dead"
          /\ main' = "ended"
          /\ leaving' = FALSE
          /\ Lost
          /\ UNCHANGED <<wanted, stop>>
    /\ UNCHANGED <<session, tables, disconnected, due, published, bounds>>

(* `await probe_task` returns; the CancelledError of the probe task is     *)
(* swallowed, and so is that of a cancellation that came while it waited.  *)
Join ==
    /\ main = "joining"
    /\ main' = "hangup"
    /\ IF leaving THEN UNCHANGED cancelled ELSE Lost
    /\ UNCHANGED <<wanted, leaving, stop>>
    /\ UNCHANGED <<session, tables, probe, disconnected, due, published, bounds>>

(* A slip of the finally block: the client is left connected. *)
LeftConnected == UNCHANGED <<conn, lines, stray>>

Disconnected ==
    /\ conn' = "none"
    /\ lines' = {}
    /\ stray' = {}

HangUp ==
    /\ main = "hangup"
    /\ Disconnected
    /\ Goto("ended")
    /\ UNCHANGED <<held, tables, probe, disconnected, due, published, bounds>>

(* A slip of run: `except Exception` also catches the CancelledError. *)
CancelCaught ==
    /\ main = "ended"
    /\ Goto(IF stop THEN "final" ELSE "delay")
    /\ UNCHANGED <<session, tables, probe, disconnected, due, published, bounds>>

(* run: a CancelledError and a stop end its loop; else the health is       *)
(* written, whose error ends the process, and the next session waits.      *)
Ended ==
    /\ main = "ended"
    /\ \/ /\ leaving \/ stop
          /\ Goto("final")
          /\ UNCHANGED bounds
       \/ /\ ~leaving /\ ~stop
          /\ Goto("delay")
          /\ UNCHANGED bounds
       \/ /\ ~leaving /\ ~stop
          /\ Fault({"health"})
          /\ Goto("stopped")
    /\ UNCHANGED <<session, tables, probe, disconnected, due, published>>

Delay ==
    /\ main = "delay"
    /\ Goto(IF stop THEN "final" ELSE "connect")
    /\ UNCHANGED <<session, tables, probe, disconnected, due, published, bounds>>

(* The final health write, or its error. *)
Final ==
    /\ main = "final"
    /\ Goto("stopped")
    /\ UNCHANGED <<session, tables, probe, disconnected, due, published, bounds>>

(* The process is gone, and restarted. *)
Restart ==
    /\ main = "stopped"
    /\ main' = "connect"
    /\ conn' = "none"
    /\ lines' = {}
    /\ stray' = {}
    /\ probe' = "off"
    /\ wanted' = {}
    /\ disconnected' = FALSE
    /\ leaving' = FALSE
    /\ cancelled' = "no"
    /\ stop' = FALSE
    /\ due' = FALSE
    /\ UNCHANGED <<held, tables, published, bounds>>

-----------------------------------------------------------------------------
(* _probe_loop *)

(* The probe interval has passed.  When the heartbeat is due and the       *)
(* connection is not up, the hint is published, whose error nobody         *)
(* catches, and one attempt follows.                                       *)
ProbeTick ==
    /\ probe = "wait"
    /\ ~stop
    /\ due' = FALSE
    /\ \/ /\ due /\ conn # "up"
          /\ \/ /\ probe' = "reconnect"
                /\ UNCHANGED bounds
             \/ /\ Fault({"hint"})
                /\ probe' = "dead"
       \/ /\ ~due \/ conn = "up"
          /\ probe' = "read"
          /\ UNCHANGED bounds
    /\ UNCHANGED <<session, tables, main, wanted, disconnected, ending, published>>

ProbeStops ==
    /\ probe = "wait"
    /\ stop
    /\ probe' = "off"
    /\ UNCHANGED <<session, tables, main, wanted, disconnected, ending, due,
                   published, bounds>>

(* heartbeat_reconnect_slot: connected, refused, or timed out. *)
ReconnectReturns ==
    /\ probe = "reconnect"
    /\ conn' \in {"up", "none", "down"}
    /\ probe' = "read"
    /\ UNCHANGED <<lines, stray, held, tables, main, wanted, disconnected, ending, due,
                   published, bounds>>

(* The connection's state, which ends the session when it is not up. *)
ProbeReads ==
    /\ probe = "read"
    /\ disconnected' = (disconnected \/ conn # "up")
    /\ probe' = "wait"
    /\ UNCHANGED <<session, tables, main, wanted, ending, due, published, bounds>>

-----------------------------------------------------------------------------
(* The outside *)

(* TWS restarts or the socket drops. *)
Drop ==
    /\ conn = "up"
    /\ Change
    /\ conn' = "down"
    /\ lines' = {}
    /\ stray' = {}
    /\ held' = FALSE
    /\ UNCHANGED <<tables, main, probe, wanted, disconnected, ending, due, published>>

(* Somebody edits the watchlist or asks for stocks. *)
TablesChange ==
    /\ Change
    /\ \/ /\ watchlist' \in SUBSET (Option \cup Stock)
          /\ UNCHANGED demand
       \/ /\ demand' \in SUBSET OnDemand
          /\ UNCHANGED watchlist
    /\ UNCHANGED <<session, main, probe, wanted, disconnected, ending, due, published>>

StopSignal ==
    /\ ~stop
    /\ main # "stopped"
    /\ Change
    /\ stop' = TRUE
    /\ UNCHANGED <<session, tables, main, probe, wanted, disconnected, leaving,
                   cancelled, due, published>>

(* run_with_leadership cancels the service's task, which gets the          *)
(* CancelledError at the await it is in: in the session, in the wait for   *)
(* the probe task (see Join), or outside of the session.                   *)
Cancel ==
    /\ cancelled = "no"
    /\ Change
    /\ cancelled' = "asked"
    /\ \/ /\ main \in {"fetch", "applying", "wait"}
          /\ main' = "closing"
          /\ leaving' = TRUE
       \/ /\ main = "joining"
          /\ UNCHANGED <<main, leaving>>
       \/ /\ main = "hangup"
          /\ main' = "ended"
          /\ leaving' = TRUE
       \/ /\ main = "connect"
          /\ main' = "final"
          /\ UNCHANGED leaving
       \/ /\ main = "delay"
          /\ main' = "stopped"
          /\ UNCHANGED leaving
    /\ held' = FALSE
    /\ UNCHANGED <<conn, lines, stray, tables, probe, wanted, disconnected, stop,
                   due, published>>

HeartbeatDue ==
    /\ ~due
    /\ due' = TRUE
    /\ UNCHANGED <<session, tables, main, probe, wanted, disconnected, ending,
                   published, bounds>>

MainStep ==
    \/ ConnectOk
    \/ ConnectFails
    \/ Begin
    \/ Top
    \/ FetchReturns
    \/ ApplyBegins
    \/ ApplyEnds
    \/ Publish
    \/ WaitReturns
    \/ CancelProbe
    \/ Join
    \/ HangUp
    \/ Ended
    \/ Delay
    \/ Final
    \/ Restart

ProbeStep ==
    \/ ProbeTick
    \/ ProbeStops
    \/ ReconnectReturns
    \/ ProbeReads

Outside ==
    \/ Drop
    \/ TablesChange
    \/ StopSignal
    \/ Cancel
    \/ HeartbeatDue

Next == MainStep \/ ProbeStep \/ Outside

(* Both tasks are scheduled, their awaits return, the process is           *)
(* restarted, and a session that keeps trying to connect succeeds in the   *)
(* end.  A heartbeat's one attempt need never succeed.                     *)
Fairness ==
    /\ WF_vars(MainStep)
    /\ WF_vars(ProbeStep)
    /\ SF_vars(ConnectOk)

Spec == Init /\ [][Next]_vars
FairSpec == Spec /\ Fairness

-----------------------------------------------------------------------------
(* Properties *)

(* Every variable has its type; lines are those of an open connection.     *)
TypeOK ==
    /\ conn \in {"none", "down", "up"}
    /\ lines \subseteq Contract
    /\ stray \subseteq Contract
    /\ conn # "up" => lines = {} /\ stray = {} /\ ~held
    /\ held \in BOOLEAN
    /\ watchlist \subseteq Option \cup Stock
    /\ demand \subseteq OnDemand
    /\ main \in MainStates
    /\ probe \in ProbeStates
    /\ wanted \subseteq Contract
    /\ disconnected \in BOOLEAN
    /\ leaving \in BOOLEAN
    /\ cancelled \in {"no", "asked", "lost"}
    /\ due \in BOOLEAN
    /\ published \subseteq Contract
    /\ stop \in BOOLEAN
    /\ changes \in 0..MaxChanges
    /\ failures \in 0..MaxFailures
    /\ failed \subseteq Faults

(* The contracts with a line open at IB, with a ticker or without. *)
OpenLines == lines \cup stray

(* The watchlist's share of what is open at IB exceeds the cap only for    *)
(* polls whose cancellations failed, each of which adds at most one cap's  *)
(* worth of contracts; without such faults it never does, whatever changes *)
(* while subscriptions are replaced.  On-demand stocks come on top.        *)
WatchlistWithinCap ==
    Cardinality(OpenLines \ OnDemand) <= MaxSubscriptions * (1 + failures)

(* Between two sessions, and before the first, nothing is open at IB, with *)
(* or without a ticker: a session that ended with an error gives its lines *)
(* back.  (Not the one whose probe task was killed by a hint that failed:  *)
(* the finally block raises that error before it gets to disconnect.)      *)
NoLinesBetweenSessions ==
    main \in {"delay", "connect"} /\ "hint" \notin failed => OpenLines = {}

(* Again and again Redis publishes the watchlist with the on-demand set,   *)
(* and the connector's lines are those but for the contracts that can      *)
(* never be subscribed, which stay published without a line: drops, faults,*)
(* stops and even cancellations are recovered from, without a further      *)
(* change of the watchlist.  An empty one is published but leaves the lines*)
(* as they are, and with its probe task dead a session may go on without a *)
(* connection.                                                             *)
ServesWatchlist ==
    []<>( \/ published = Target /\ (Target = {} \/ lines = Target \ Refused)
          \/ probe = "dead" )

(* "Connect and ingest until stop requested or IB disconnects."            *)
(* (ib_ingestor.py:276): a session does not go on without a connection,    *)
(* as long as its probe task lives.                                        *)
SessionEndsOnDisconnect ==
    main \in InSession /\ conn # "up"
        ~> main \notin InSession \/ conn = "up" \/ probe = "dead"

(* The cancellation came during `await probe_task`, which swallows it.     *)
Swallowed == main = "joining" /\ ~leaving /\ cancelled = "asked"

(* `await probe_task` is about to raise the probe task's own exception.    *)
Displaced == main = "closing" /\ probe = "dead"

(* A service that is cancelled, wherever that is, ends, past the finally   *)
(* block's own awaits and the retry loop around it, and past what would    *)
(* fail on the way; but for two cases, in which it serves on: the          *)
(* cancellation was swallowed by the wait for the probe task, or the probe *)
(* task's exception takes its place.  ("the service task is cancelled and  *)
(* control returns", lease.py:429-431, makes no such exception.)           *)
CancelledServiceEnds ==
    cancelled = "asked" ~> main = "stopped" \/ Swallowed \/ Displaced

=============================================================================
