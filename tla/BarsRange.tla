------------------------------- MODULE BarsRange -------------------------------
(***************************************************************************)
(* The fetch_bars_range command: historical bars of a range, asked for in  *)
(* chunks from its end backwards (get_historical_bars_range in             *)
(* src/src/bifrost_socket/ib/connector/ib_connector.py,                    *)
(* _fetch_bars_range_impl in ib_client.py).  A bar is its time.            *)
(*                                                                         *)
(*   bars         the bars IB has; reachesBack: whether a request that ends*)
(*                in a time without bars is answered with the ones before  *)
(*   stage        idle, loop (between two requests), done                  *)
(*   start, end   the range asked for; start may be None                   *)
(*   cur_end      where the next request ends                              *)
(*   loops        how many times the loop has been entered                 *)
(*   rows[b]      how often bar b is in what was collected                 *)
(*   why          why the loop ended                                       *)
(***************************************************************************)

EXTENDS Integers

CONSTANTS
    Times,         \* the times bars may have
    Chunk,         \* chunk_seconds: from one request's end to the next
    Excess,        \* how much longer a request's duration string may be: a
                   \* year ("1 Y") has a day more than 365 of them, or none
    MaxLoops,      \* how many times the loop is entered (2000)
    None           \* no start

ASSUME ConstantsAssumption ==
    /\ Times \subseteq Int
    /\ Chunk \in Nat \ {0}
    /\ Excess \in 0 .. Chunk - 1
    /\ MaxLoops \in Nat \ {0}
    /\ None \notin Int

VARIABLES bars, reachesBack, stage, start, end, cur_end, loops, rows, why

ib == <<bars, reachesBack>>
range == <<start, end>>
vars == <<ib, stage, range, cur_end, loops, rows, why>>

Whys == {"none", "reached", "empty", "limit", "error", "dropped"}

(* The length of what IB takes duration_str for, which depends on where it *)
(* is counted back from.                                                   *)
Spans == Chunk .. Chunk + Excess

Window(e, span) == {b \in bars : e - span <= b /\ b < e}

Before(e) == {b \in bars : b < e}

(* What IB answers: the bars of the window that ends at e; where it has    *)
(* none and reaches back, those of the window that ends with its last bar. *)
Answer(e, span) ==
    IF reachesBack /\ Window(e, span) = {}
    THEN {b \in Before(e) : \A l \in Before(e) : l - span < b}
    ELSE Window(e, span)

-----------------------------------------------------------------------------

Init ==
    /\ bars \in SUBSET Times
    /\ reachesBack \in BOOLEAN
    /\ stage = "idle"
    /\ start = None
    /\ end = 0
    /\ cur_end = 0
    /\ loops = 0
    /\ rows = [b \in Times |-> 0]
    /\ why = "none"

(* The client is connected, the contract is known. *)
Call(s, e) ==
    /\ stage \in {"idle", "done"}
    /\ stage' = "loop"
    /\ start' = s
    /\ end' = e
    /\ cur_end' = e
    /\ loops' = 0
    /\ rows' = [b \in Times |-> 0]
    /\ why' = "none"
    /\ UNCHANGED ib

Done(reason) ==
    /\ stage' = "done"
    /\ why' = reason

(* The loop may be entered once more. *)
MoreLoops == loops < MaxLoops

(* The range is walked through. *)
Reached == start # None /\ cur_end <= start

Asking == stage = "loop" /\ MoreLoops /\ ~Reached

TooManyLoops ==
    /\ stage = "loop"
    /\ ~MoreLoops
    /\ Done("limit")
    /\ UNCHANGED <<ib, range, cur_end, loops, rows>>

RangeReached ==
    /\ stage = "loop"
    /\ MoreLoops
    /\ Reached
    /\ Done("reached")
    /\ UNCHANGED <<ib, range, cur_end, loops, rows>>

(* A slip: the next request ends a bar below where this one began. *)
NextEndBelow ==
    IF start = None \/ cur_end - Chunk > start THEN cur_end - Chunk - 1 ELSE start

(* A slip: the next request ends where the oldest bar of this one is, with *)
(* that bar.                                                               *)
NextEndAbove ==
    IF start = None \/ cur_end - Chunk > start THEN cur_end - Chunk + 1 ELSE start

(* seg_start, where the next request ends. *)
NextEnd ==
    IF start = None \/ cur_end - Chunk > start THEN cur_end - Chunk ELSE start

(* A request is answered with bars: they are added.  Without a start there *)
(* is one request only.                                                    *)
NextChunk ==
    /\ Asking
    /\ \E span \in Spans :
          /\ Answer(cur_end, span) # {}
          /\ rows' = [b \in Times |-> IF b \in Answer(cur_end, span)
                                      THEN rows[b] + 1 ELSE rows[b]]
    /\ cur_end' = NextEnd
    /\ loops' = loops + 1
    /\ IF start = None THEN Done("reached") ELSE UNCHANGED <<stage, why>>
    /\ UNCHANGED <<ib, range>>

(* A request is answered without bars: that is taken for the end. *)
EmptyChunk ==
    /\ Asking
    /\ \E span \in Spans : Answer(cur_end, span) = {}
    /\ Done("empty")
    /\ UNCHANGED <<ib, range, cur_end, loops, rows>>

(* A request fails with the session up: what there is is returned. *)
RequestFails ==
    /\ Asking
    /\ Done("error")
    /\ UNCHANGED <<ib, range, cur_end, loops, rows>>

(* A request finds the connection dropped: the error is raised, the client *)
(* disconnects (IbClient), nothing is returned.                            *)
ConnectionDropped ==
    /\ Asking
    /\ Done("dropped")
    /\ rows' = [b \in Times |-> 0]
    /\ UNCHANGED <<ib, range, cur_end, loops>>

Steps ==
    \/ TooManyLoops
    \/ RangeReached
    \/ NextChunk
    \/ EmptyChunk
    \/ RequestFails
    \/ ConnectionDropped

Next ==
    \/ \E s \in Times \cup {None}, e \in Times : Call(s, e)
    \/ Steps

Spec == Init /\ [][Next]_vars

-----------------------------------------------------------------------------
(* Properties *)

(* Every variable has its type. *)
TypeOK ==
    /\ bars \subseteq Times
    /\ reachesBack \in BOOLEAN
    /\ stage \in {"idle", "loop", "done"}
    /\ start \in Int \cup {None}
    /\ end \in Int
    /\ cur_end \in Int
    /\ loops \in 0 .. MaxLoops
    /\ rows \in [Times -> Nat]
    /\ why \in Whys

Asked == {b \in bars : (start = None \/ start <= b) /\ b < end}

(* While bars are collected there is no gap: every bar of the range that is*)
(* not before the end of the next request has been collected.              *)
CollectedSuffix ==
    stage = "loop" => \A b \in Asked : b >= cur_end => rows[b] > 0

(* A range with a start that was walked through is complete.  When a chunk *)
(* without bars ends the walk although IB has bars of the range before it, *)
(* IB has a hole of a chunk's length there and does not reach back over it.*)
PartialMeansHole ==
    why \in {"reached", "empty"} /\ start # None =>
        \A b \in Asked : rows[b] = 0 =>
            why = "empty" /\ ~reachesBack /\ b < cur_end - Chunk

(* If IB does not reach back, a bar is collected twice only where the      *)
(* duration of one request reaches over the end of the next, and never     *)
(* three times: what repeats lies within Excess before the end of a request*)
(* other than the first (for "1 Y" against 365 days: the day before it,    *)
(* when there is a 29 February in the year behind the request).            *)
RepeatsOnlyAtSeams ==
    ~reachesBack => \A b \in Times :
        /\ rows[b] <= 2
        /\ rows[b] = 2 => \E k \in 1 .. loops :
               LET seam == end - k * Chunk IN seam - Excess <= b /\ b < seam

(* Nothing is collected from the end on, nor, if IB does not reach back, as*)
(* far before the start as a request is long at most: the last request goes*)
(* beyond the start.                                                       *)
LittleOutside ==
    \A b \in Times : rows[b] > 0 =>
        b < end /\ (start # None /\ ~reachesBack => b > start - (Chunk + Excess))

(* The loop limit cuts off no range that a chunk less would walk through.  *)
LimitOnlyForLongRanges ==
    why = "limit" => start # None /\ end - start > (MaxLoops - 1) * Chunk

=============================================================================
