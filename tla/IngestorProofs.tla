---------------------------- MODULE IngestorProofs ----------------------------
(***************************************************************************)
(* Theorems about the Ingestor, for every set of contracts, every cap,     *)
(* every choice of faults and all bounds.                                  *)
(***************************************************************************)

EXTENDS Ingestor, FiniteSetTheorems, WellFoundedInduction, TLAPS

-----------------------------------------------------------------------------
(* The first rows of a query *)

(* A set of naturals has, for a function to the naturals, a member where   *)
(* the function is least.                                                  *)
LEMMA LeastOf ==
    ASSUME NEW S, S # {}, NEW f \in [S -> Nat]
    PROVE  \E m \in S : \A c \in S : f[m] <= f[c]
<1>. DEFINE T == {f[c] : c \in S}
<1>1. T \subseteq Nat /\ T # {}
  OBVIOUS
<1>2. PICK n \in T : \A y \in T : ~ (<<y, n>> \in OpToRel(<, Nat))
  BY <1>1, NatLessThanWellFounded, WFMin, Zenon
<1>3. PICK m \in S : f[m] = n
  BY <1>2
<1>4. ASSUME NEW c \in S
      PROVE  f[m] <= f[c]
  <2>1. f[c] \in T /\ f[c] \in Nat /\ n \in Nat
    BY <1>1, <1>2, <1>4
  <2>2. ~ (f[c] < n)
    <3>1. SUFFICES ASSUME f[c] < n
                   PROVE  <<f[c], n>> \in OpToRel(<, Nat)
      BY <1>2, <2>1
    <3>. QED BY <2>1, <3>1, Zenon DEF OpToRel
  <2>. QED BY <1>3, <2>1, <2>2
<1>. QED BY <1>4

(* The cut takes no more rows than it is told to: below its last one there *)
(* are fewer.                                                              *)
LEMMA FirstIsCut ==
    ASSUME NEW k \in Nat, NEW rows \in SUBSET Nat, IsFiniteSet(rows)
    PROVE  /\ First(k, rows) \subseteq rows
           /\ IsFiniteSet(First(k, rows))
           /\ Cardinality(First(k, rows)) <= k
<1>. DEFINE Below(c) == {d \in rows : d < c}
            S == First(k, rows)
<1>a. \A c, d : d \in Below(c) <=> d \in rows /\ d < c
  OBVIOUS
<1>b. \A c \in S : Cardinality(Below(c)) < k
  BY DEF First
<1>1. S \subseteq rows /\ IsFiniteSet(S) /\ Cardinality(S) \in Nat
  <2>1. S \in SUBSET rows
    BY DEF First
  <2>2. IsFiniteSet(S)
    BY <2>1, FS_Subset
  <2>. QED BY <2>1, <2>2, FS_CardinalityType
<1>2. ASSUME NEW c \in Nat
      PROVE  Below(c) \subseteq rows /\ IsFiniteSet(Below(c)) /\ Cardinality(Below(c)) \in Nat
  <2>1. Below(c) \in SUBSET rows
    OBVIOUS
  <2>2. IsFiniteSet(Below(c))
    BY <2>1, FS_Subset
  <2>. QED BY <2>1, <2>2, FS_CardinalityType
<1>3. ASSUME NEW c \in S
      PROVE  /\ c \in rows /\ c \in Nat /\ Cardinality(Below(c)) \in Nat
             /\ Cardinality(Below(c)) < k
  BY <1>b, <1>1, <1>2
<1>. HIDE DEF Below, S
<1>4. ASSUME S = {}
      PROVE  Cardinality(S) <= k
  <2>1. Cardinality(S) = 0
    BY <1>4, FS_EmptySet
  <2>. QED BY <2>1
<1>5. ASSUME S # {}
      PROVE  Cardinality(S) <= k
  <2>. DEFINE f == [c \in S |-> k - Cardinality(Below(c))]
  <2>1. f \in [S -> Nat]
    BY <1>1, <1>2, <1>3
  <2>2. PICK m \in S : \A c \in S : f[m] <= f[c]
    BY <1>5, <2>1, LeastOf, Zenon
  <2>3. \A c \in S : Cardinality(Below(c)) <= Cardinality(Below(m))
    <3>1. TAKE c \in S
    <3>2. f[m] = k - Cardinality(Below(m)) /\ f[c] = k - Cardinality(Below(c))
      OBVIOUS
    <3>. QED BY <1>3, <2>2, <3>2
  <2>4. ASSUME NEW c \in S, c # m
        PROVE  c < m
    <3>1. SUFFICES ASSUME m < c
                   PROVE  FALSE
      BY <1>3, <2>4
    <3>2. m \in Nat /\ c \in Nat /\ m \in rows
      BY <1>3
    <3>3. Below(m) \cup {m} \subseteq Below(c) /\ m \notin Below(m)
      <4>1. \A d \in Nat : d < m => d < c
        BY <3>1, <3>2
      <4>2. \A d \in Below(m) : d \in rows /\ d \in Nat /\ d < m
        BY <1>a
      <4>3. m \in Below(c)
        BY <1>a, <3>1, <3>2
      <4>4. ~ (m < m)
        BY <3>2
      <4>5. \A d \in Below(m) : d \in Below(c)
        BY <1>a, <4>1, <4>2
      <4>. QED BY <4>2, <4>3, <4>4, <4>5
    <3>4. Cardinality(Below(m) \cup {m}) = Cardinality(Below(m)) + 1
      BY <1>2, <3>2, <3>3, FS_AddElement
    <3>5. Cardinality(Below(m) \cup {m}) <= Cardinality(Below(c))
      BY <1>2, <3>2, <3>3, FS_Subset
    <3>. QED BY <1>2, <2>3, <3>2, <3>4, <3>5
  <2>5. S \ {m} \subseteq Below(m)
    BY <1>1, <1>a, <2>4
  <2>6. Cardinality(S \ {m}) <= Cardinality(Below(m)) /\ Cardinality(S \ {m}) = Cardinality(S) - 1
    <3>1. Cardinality(S \ {m}) <= Cardinality(Below(m))
      BY <1>2, <1>3, <2>5, FS_Subset
    <3>2. Cardinality(S \ {m}) = Cardinality(S) - 1
      BY <1>1, FS_RemoveElement
    <3>. QED BY <3>1, <3>2
  <2>. QED BY <1>1, <1>3, <2>6
<1>. QED BY <1>1, <1>4, <1>5 DEF S

(* Options and stocks together keep to the cap. *)
LEMMA CappedIsCut ==
    ASSUME NEW rows \in SUBSET (Option \cup Stock)
    PROVE  /\ Capped(rows) \subseteq Option \cup Stock
           /\ IsFiniteSet(Capped(rows))
           /\ Cardinality(Capped(rows)) <= MaxSubscriptions
<1>. DEFINE options == First(MaxSubscriptions, rows \cap Option)
            stocks == First(Remaining(options), rows \cap Stock)
<1>1. /\ rows \cap Option \in SUBSET Nat /\ IsFiniteSet(rows \cap Option)
      /\ rows \cap Stock \in SUBSET Nat /\ IsFiniteSet(rows \cap Stock)
  BY ConstantsAssumption, FS_Subset
<1>2. /\ options \subseteq Option /\ IsFiniteSet(options)
      /\ Cardinality(options) <= MaxSubscriptions /\ Cardinality(options) \in Nat
  BY <1>1, ConstantsAssumption, FirstIsCut, FS_CardinalityType
<1>3. Remaining(options) \in Nat /\ Remaining(options) = MaxSubscriptions - Cardinality(options)
  BY <1>2, ConstantsAssumption DEF Remaining
<1>4. /\ stocks \subseteq Stock /\ IsFiniteSet(stocks)
      /\ Cardinality(stocks) <= Remaining(options) /\ Cardinality(stocks) \in Nat
  BY <1>1, <1>3, FirstIsCut, FS_CardinalityType
<1>5. /\ IsFiniteSet(options \cup stocks)
      /\ Cardinality(options \cup stocks)
            = Cardinality(options) + Cardinality(stocks) - Cardinality(options \cap stocks)
  BY <1>2, <1>4, FS_Union
<1>6. Cardinality(options \cap stocks) \in Nat
  BY <1>2, FS_Subset, FS_CardinalityType
<1>7. Capped(rows) = options \cup stocks
  BY DEF Capped
<1>8. Cardinality(Capped(rows)) <= MaxSubscriptions
  <2>. HIDE DEF options, stocks
  <2>. QED BY <1>2, <1>3, <1>4, <1>5, <1>6, <1>7, ConstantsAssumption
<1>. QED BY <1>2, <1>4, <1>5, <1>7, <1>8

-----------------------------------------------------------------------------
(* The inductive invariant *)

WithinCap(contracts) == Cardinality(contracts \ OnDemand) <= MaxSubscriptions

(* What failed cancellations left open, at most one cap for each of them.  *)
StrayWithin(n) == Cardinality(stray \ OnDemand) <= MaxSubscriptions * n

(* What is wanted, and what is subscribed, was cut; what is left open      *)
(* besides is paid for by faults.                                          *)
CapInv == WithinCap(wanted) /\ WithinCap(lines) /\ StrayWithin(failures)

(* A probe task lives in a session only, is killed only by a hint that     *)
(* failed, and reconnects only a client that is not connected; a connector *)
(* is held only while lines are subscribed on it.                          *)
ProbeInv ==
    /\ main \notin InSession \cup {"closing"} => probe = "off"
    /\ probe = "dead" => "hint" \in failed
    /\ probe = "reconnect" => conn # "up"
    /\ held => main = "applying"

(* Where the lines must have been given back. *)
BackInv ==
    /\ \/ main \in {"delay", "connect", "begin"}
       \/ main = "ended" /\ ~leaving
    /\ "hint" \notin failed
    => lines = {} /\ stray = {}

IInv == TypeOK /\ CapInv /\ ProbeInv /\ BackInv

-----------------------------------------------------------------------------
(* Lemmas *)

(* A set of contracts is finite, and so is what is left of it. *)
LEMMA ContractsFinite ==
    ASSUME NEW S \in SUBSET Contract
    PROVE  /\ IsFiniteSet(S) /\ IsFiniteSet(S \ OnDemand)
           /\ Cardinality(S \ OnDemand) \in Nat
<1>1. IsFiniteSet(Contract)
  BY ConstantsAssumption, FS_Union DEF Contract
<1>2. S \ OnDemand \in SUBSET Contract
  OBVIOUS
<1>. QED BY <1>1, <1>2, FS_Subset, FS_CardinalityType

(* Fewer contracts take fewer lines. *)
LEMMA FewerLines ==
    ASSUME NEW S \in SUBSET Contract, NEW T \in SUBSET S
    PROVE  Cardinality(T \ OnDemand) <= Cardinality(S \ OnDemand)
<1>1. T \ OnDemand \in SUBSET (S \ OnDemand)
  OBVIOUS
<1>. QED BY <1>1, ContractsFinite, FS_Subset

(* Two sets of contracts together take no more lines than each by itself. *)
LEMMA TogetherLines ==
    ASSUME NEW S \in SUBSET Contract, NEW T \in SUBSET Contract
    PROVE  Cardinality((S \cup T) \ OnDemand)
               <= Cardinality(S \ OnDemand) + Cardinality(T \ OnDemand)
<1>. DEFINE A == S \ OnDemand
            B == T \ OnDemand
<1>1. IsFiniteSet(A) /\ IsFiniteSet(B) /\ Cardinality(A) \in Nat /\ Cardinality(B) \in Nat
  BY ContractsFinite
<1>2. Cardinality(A \cup B) = Cardinality(A) + Cardinality(B) - Cardinality(A \cap B)
  BY <1>1, FS_Union
<1>3. Cardinality(A \cap B) \in Nat
  BY <1>1, FS_Intersection, FS_CardinalityType
<1>4. (S \cup T) \ OnDemand = A \cup B
  OBVIOUS
<1>. HIDE DEF A, B
<1>5. Cardinality(A \cup B) <= Cardinality(A) + Cardinality(B)
  BY <1>1, <1>2, <1>3
<1>. QED BY <1>4, <1>5 DEF A, B

(* One cap more. *)
LEMMA CapMore ==
    ASSUME NEW n \in Nat
    PROVE  /\ MaxSubscriptions * n \in Nat
           /\ MaxSubscriptions * (n + 1) = MaxSubscriptions * n + MaxSubscriptions
           /\ MaxSubscriptions * (1 + n) = MaxSubscriptions * n + MaxSubscriptions
<1>. MaxSubscriptions \in Nat
  BY ConstantsAssumption
<1>. QED OBVIOUS

(* Nothing but on-demand stocks is beyond the cap of what is fetched. *)
LEMMA FetchedWithinCap ==
    ASSUME TypeOK, NEW kinds
    PROVE  Fetched(kinds) \subseteq Contract /\ WithinCap(Fetched(kinds))
<1>. DEFINE capped == Capped(watchlist)
            contracts == Fetched(kinds)
<1>1. /\ capped \subseteq Option \cup Stock /\ IsFiniteSet(capped)
      /\ Cardinality(capped) <= MaxSubscriptions /\ Cardinality(capped) \in Nat
  BY CappedIsCut, FS_CardinalityType DEF TypeOK
<1>2. contracts \ OnDemand \subseteq capped
  BY DEF Fetched, TypeOK
<1>3. Cardinality(contracts \ OnDemand) \in Nat /\ Cardinality(contracts \ OnDemand) <= Cardinality(capped)
  BY <1>1, <1>2, FS_Subset, FS_CardinalityType
<1>4. contracts \subseteq Contract
  BY <1>1 DEF Fetched, Contract, TypeOK
<1>5. WithinCap(contracts)
  <2>. HIDE DEF capped, contracts
  <2>. QED BY <1>1, <1>3, ConstantsAssumption DEF WithinCap
<1>. QED BY <1>4, <1>5

(* Nothing subscribed is within the cap, and nothing left open. *)
LEMMA NothingWithinCap ==
    /\ WithinCap({})
    /\ \A n \in Nat : Cardinality({} \ OnDemand) <= MaxSubscriptions * n
<1>1. {} \ OnDemand = {} /\ Cardinality({}) = 0
  BY FS_EmptySet
<1>2. \A n \in Nat : MaxSubscriptions * n \in Nat
  BY CapMore
<1>. QED BY <1>1, <1>2, ConstantsAssumption DEF WithinCap

(* Faults are counted up to their bound. *)
LEMMA FaultType ==
    ASSUME TypeOK, NEW kinds, Fault(kinds)
    PROVE  /\ changes' = changes /\ failures' \in 0 .. MaxFailures /\ failed' \subseteq Faults
           /\ failures' = failures + 1
BY ConstantsAssumption DEF TypeOK, Fault

(* So are the changes of the world. *)
LEMMA ChangeType ==
    ASSUME TypeOK, Change
    PROVE  changes' \in 0 .. MaxChanges /\ failures' = failures /\ failed' = failed
BY ConstantsAssumption DEF TypeOK, Change

(* Every step keeps the types. *)
LEMMA TypeStep ==
    ASSUME IInv, Next
    PROVE  TypeOK'
<1>1. TypeOK /\ (probe = "reconnect" => conn # "up") /\ (held => main = "applying")
  BY DEF IInv, ProbeInv
<1>f. \A kinds : Fault(kinds) => /\ changes' \in 0 .. MaxChanges
                              /\ failures' \in 0 .. MaxFailures
                              /\ failed' \subseteq Faults
  BY <1>1, FaultType DEF TypeOK
<1>c. Change => /\ changes' \in 0 .. MaxChanges
                /\ failures' \in 0 .. MaxFailures
                /\ failed' \subseteq Faults
  BY <1>1, ChangeType DEF TypeOK
<1>. USE <1>1 DEF TypeOK, session, tables, ending, bounds, MainStates, ProbeStates
<1>2. CASE ConnectOk
  BY <1>2 DEF ConnectOk, Goto
<1>3. CASE ConnectFails
  BY <1>3 DEF ConnectFails, Goto
<1>4. CASE Begin
  BY FaultType, ChangeType, <1>4 DEF Begin, Goto
<1>5. CASE Top
  BY <1>5 DEF Top, Goto
<1>6. CASE FetchReturns
  <2>1. wanted' \subseteq Contract
    <3>. HIDE DEF Contract
    <3>. QED BY <1>6, FetchedWithinCap DEF FetchReturns
  <2>2. failures' \in 0 .. MaxFailures /\ failed' \subseteq Faults /\ changes' \in 0 .. MaxChanges
    BY <1>6, FaultType DEF FetchReturns
  <2>. QED BY <1>6, <2>1, <2>2 DEF FetchReturns
<1>7. CASE ApplyBegins
  <2>1. /\ changes' \in 0 .. MaxChanges /\ failures' \in 0 .. MaxFailures
        /\ failed' \subseteq Faults
    BY <1>7, <1>f DEF ApplyBegins
  <2>2. lines' = {} /\ stray' \subseteq stray \cup lines /\ (conn # "up" => stray' = {})
    BY <1>7 DEF ApplyBegins, GivenUp
  <2>. QED BY <1>7, <2>1, <2>2 DEF ApplyBegins, Goto
<1>8. CASE ApplyEnds
  <2>1. /\ changes' \in 0 .. MaxChanges /\ failures' \in 0 .. MaxFailures
        /\ failed' \subseteq Faults
    BY <1>8, <1>f DEF ApplyEnds
  <2>2. lines' \subseteq Contract /\ (~held => lines' = lines)
    BY <1>8 DEF ApplyEnds
  <2>. QED BY <1>8, <2>1, <2>2 DEF ApplyEnds, Goto
<1>9. CASE Publish
  BY FaultType, ChangeType, <1>9 DEF Publish, Goto
<1>10. CASE WaitReturns
  BY <1>10 DEF WaitReturns, Goto
<1>11. CASE CancelProbe
  BY <1>11 DEF CancelProbe, Goto, Lost
<1>12. CASE Join
  BY <1>12 DEF Join, Lost
<1>13. CASE HangUp
  BY <1>13 DEF HangUp, Goto, Disconnected
<1>14. CASE Ended
  BY FaultType, ChangeType, <1>14 DEF Ended, Goto
<1>15. CASE Delay
  BY <1>15 DEF Delay, Goto
<1>16. CASE Final
  BY <1>16 DEF Final, Goto
<1>17. CASE Restart
  BY <1>17 DEF Restart
<1>18. CASE ProbeTick
  <2>1. /\ changes' \in 0 .. MaxChanges /\ failures' \in 0 .. MaxFailures
        /\ failed' \subseteq Faults
    BY <1>18, <1>f DEF ProbeTick
  <2>2. probe' \in ProbeStates /\ due' \in BOOLEAN
    BY <1>18 DEF ProbeTick
  <2>3. UNCHANGED <<session, tables, main, wanted, disconnected, ending, published>>
    BY <1>18 DEF ProbeTick
  <2>. QED BY <2>1, <2>2, <2>3
<1>19. CASE ProbeStops
  BY <1>19 DEF ProbeStops
<1>20. CASE ReconnectReturns
  BY <1>20 DEF ReconnectReturns
<1>21. CASE ProbeReads
  BY <1>21 DEF ProbeReads
<1>22. CASE Drop
  <2>1. /\ changes' \in 0 .. MaxChanges /\ failures' \in 0 .. MaxFailures
        /\ failed' \subseteq Faults
    BY <1>22, <1>c DEF Drop
  <2>2. conn' = "down" /\ lines' = {} /\ stray' = {} /\ held' = FALSE
    BY <1>22 DEF Drop
  <2>3. UNCHANGED <<tables, main, probe, wanted, disconnected, ending, due, published>>
    BY <1>22 DEF Drop
  <2>4. /\ conn' \in {"none", "down", "up"} /\ held' \in BOOLEAN
        /\ lines' \subseteq Contract /\ stray' \subseteq Contract
        /\ conn' # "up" => lines' = {} /\ stray' = {} /\ ~held'
    BY <2>2
  <2>. QED BY <2>1, <2>3, <2>4
<1>23. CASE TablesChange
  <2>1. /\ changes' \in 0 .. MaxChanges /\ failures' \in 0 .. MaxFailures
        /\ failed' \subseteq Faults
    BY <1>23, <1>c DEF TablesChange
  <2>. QED BY <1>23, <2>1 DEF TablesChange
<1>24. CASE StopSignal
  <2>1. /\ changes' \in 0 .. MaxChanges /\ failures' \in 0 .. MaxFailures
        /\ failed' \subseteq Faults
    BY <1>24, <1>c DEF StopSignal
  <2>. QED BY <1>24, <2>1 DEF StopSignal
<1>25. CASE Cancel
  <2>1. /\ changes' \in 0 .. MaxChanges /\ failures' \in 0 .. MaxFailures
        /\ failed' \subseteq Faults
    BY <1>25, <1>c DEF Cancel
  <2>. QED BY <1>25, <2>1 DEF Cancel
<1>26. CASE HeartbeatDue
  BY <1>26 DEF HeartbeatDue
<1>. QED BY <1>2, <1>3, <1>4, <1>5, <1>6, <1>7, <1>8, <1>9, <1>10, <1>11, <1>12, <1>13,
         <1>14, <1>15, <1>16, <1>17, <1>18, <1>19, <1>20, <1>21, <1>22, <1>23, <1>24,
         <1>25, <1>26
         DEF Next, MainStep, ProbeStep, Outside

(* What a failed cancellation leaves open was within the cap. *)
LEMMA GivenUpWithin ==
    ASSUME IInv, ApplyBegins
    PROVE  lines' = {} /\ StrayWithin(failures)'
<1>1. /\ stray \in SUBSET Contract /\ lines \in SUBSET Contract
      /\ WithinCap(lines) /\ StrayWithin(failures) /\ failures \in Nat
  BY ConstantsAssumption DEF IInv, CapInv, TypeOK
<1>2. lines' = {}
  BY DEF ApplyBegins, GivenUp
<1>3. CASE stray' = stray /\ failures' = failures
  BY <1>1, <1>2, <1>3 DEF StrayWithin
<1>4. CASE stray' \subseteq stray \cup lines /\ failures' = failures + 1
  <2>. DEFINE a == Cardinality(stray \ OnDemand)
              b == Cardinality(lines \ OnDemand)
              c == Cardinality(stray' \ OnDemand)
              d == Cardinality((stray \cup lines) \ OnDemand)
  <2>1. a \in Nat /\ b \in Nat /\ c \in Nat /\ d \in Nat
    <3>1. stray' \in SUBSET Contract /\ stray \cup lines \in SUBSET Contract
      BY <1>1, <1>4
    <3>. QED BY <1>1, <3>1, ContractsFinite
  <2>2. c <= d
    <3>1. stray \cup lines \in SUBSET Contract /\ stray' \in SUBSET (stray \cup lines)
      BY <1>1, <1>4
    <3>. QED BY <3>1, FewerLines
  <2>3. d <= a + b
    BY <1>1, TogetherLines
  <2>4. a <= MaxSubscriptions * failures /\ b <= MaxSubscriptions
    BY <1>1 DEF WithinCap, StrayWithin
  <2>5. /\ MaxSubscriptions * failures \in Nat /\ MaxSubscriptions \in Nat
        /\ MaxSubscriptions * (failures + 1) = MaxSubscriptions * failures + MaxSubscriptions
    BY <1>1, CapMore, ConstantsAssumption
  <2>. HIDE DEF a, b, c, d
  <2>6. c <= MaxSubscriptions * (failures + 1)
    BY <2>1, <2>2, <2>3, <2>4, <2>5
  <2>. QED BY <1>2, <1>4, <2>6 DEF c, StrayWithin
<1>5. \/ stray' = stray /\ failures' = failures
      \/ stray' \subseteq stray \cup lines /\ failures' = failures + 1
  <2>1. PICK left \in SUBSET lines :
            /\ IF left = {} THEN UNCHANGED bounds ELSE Fault({"cancel"})
            /\ stray' = stray \cup left
    BY DEF ApplyBegins, GivenUp
  <2>. QED BY <2>1 DEF bounds, Fault
<1>. QED BY <1>3, <1>4, <1>5, <1>2

(* Of all other steps none opens a line without a ticker, and faults only  *)
(* become more.                                                            *)
LEMMA StrayStep ==
    ASSUME IInv, Next, ~ApplyBegins
    PROVE  StrayWithin(failures)'
<1>1. stray' = stray \/ stray' = {}
  BY DEF Next, MainStep, ProbeStep, Outside, session, Disconnected, ConnectOk, ConnectFails,
         Begin, Top, FetchReturns, ApplyEnds, Publish, WaitReturns, CancelProbe, Join, HangUp,
         Ended, Delay, Final, Restart, ProbeTick, ProbeStops, ReconnectReturns, ProbeReads,
         Drop, TablesChange, StopSignal, Cancel, HeartbeatDue
<1>2. failures' = failures \/ failures' = failures + 1
  BY DEF Next, MainStep, ProbeStep, Outside, bounds, Fault, Change, ConnectOk, ConnectFails,
         Begin, Top, FetchReturns, ApplyEnds, Publish, WaitReturns, CancelProbe, Join, HangUp,
         Ended, Delay, Final, Restart, ProbeTick, ProbeStops, ReconnectReturns, ProbeReads,
         Drop, TablesChange, StopSignal, Cancel, HeartbeatDue
<1>3. /\ failures \in Nat /\ stray \in SUBSET Contract
      /\ Cardinality(stray \ OnDemand) <= MaxSubscriptions * failures
  BY ConstantsAssumption DEF IInv, CapInv, TypeOK, StrayWithin
<1>4. /\ MaxSubscriptions * failures \in Nat /\ MaxSubscriptions \in Nat
      /\ MaxSubscriptions * (failures + 1) = MaxSubscriptions * failures + MaxSubscriptions
  BY <1>3, CapMore, ConstantsAssumption
<1>5. Cardinality(stray \ OnDemand) \in Nat
  BY <1>3, ContractsFinite
<1>6. Cardinality(stray \ OnDemand) <= MaxSubscriptions * failures'
  BY <1>2, <1>3, <1>4, <1>5
<1>7. failures' \in Nat
  BY <1>2, <1>3
<1>. QED BY <1>1, <1>6, <1>7, NothingWithinCap DEF StrayWithin

(* Every step keeps what is wanted and subscribed within the cap. *)
LEMMA CapStep ==
    ASSUME IInv, Next
    PROVE  CapInv'
<1>s. StrayWithin(failures)'
  BY GivenUpWithin, StrayStep
<1>. USE NothingWithinCap, <1>s DEF IInv, CapInv, session, Goto
<1>1. CASE ConnectOk \/ ConnectFails \/ Begin \/ Top
  BY <1>1 DEF ConnectOk, ConnectFails, Begin, Top, WithinCap
<1>2. CASE FetchReturns
  <2>1. WithinCap(wanted') /\ lines' = lines
    BY <1>2, FetchedWithinCap DEF FetchReturns
  <2>. QED BY <2>1 DEF WithinCap
<1>3. CASE ApplyBegins
  BY <1>3, GivenUpWithin DEF ApplyBegins, WithinCap
<1>10. CASE ApplyEnds
  <2>1. WithinCap(wanted) /\ wanted \in SUBSET Contract /\ wanted' = wanted
    BY <1>10 DEF ApplyEnds, TypeOK
  <2>2. CASE lines' = lines
    BY <2>1, <2>2 DEF WithinCap
  <2>3. CASE lines' \in SUBSET wanted
    <3>1. Cardinality(lines' \ OnDemand) <= Cardinality(wanted \ OnDemand)
      BY <2>1, <2>3, FewerLines
    <3>2. Cardinality(lines' \ OnDemand) \in Nat /\ Cardinality(wanted \ OnDemand) \in Nat
      <4>1. lines' \in SUBSET Contract
        BY <2>1, <2>3
      <4>. QED BY <2>1, <4>1, ContractsFinite
    <3>. QED BY <2>1, <3>1, <3>2, ConstantsAssumption DEF WithinCap
  <2>. QED BY <1>10, <2>2, <2>3 DEF ApplyEnds
<1>4. CASE Publish \/ WaitReturns
  BY <1>4 DEF Publish, WaitReturns, WithinCap
<1>5. CASE CancelProbe \/ Join \/ HangUp
  BY <1>5 DEF CancelProbe, Join, HangUp, Disconnected, WithinCap
<1>6. CASE Ended \/ Delay \/ Final
  BY <1>6 DEF Ended, Delay, Final, WithinCap
<1>7. CASE Restart
  BY <1>7 DEF Restart, WithinCap
<1>8. CASE ProbeStep
  BY <1>8 DEF ProbeStep, ProbeTick, ProbeStops, ReconnectReturns, ProbeReads, WithinCap
<1>9. CASE Outside
  BY <1>9 DEF Outside, Drop, TablesChange, StopSignal, Cancel, HeartbeatDue, WithinCap
<1>. QED BY <1>1, <1>2, <1>3, <1>4, <1>5, <1>6, <1>7, <1>8, <1>9, <1>10 DEF Next, MainStep

(* Every step keeps the probe task where it may be. *)
LEMMA ProbeInvStep ==
    ASSUME IInv, Next
    PROVE  ProbeInv'
<1>. USE DEF IInv, TypeOK, ProbeInv, InSession, session, ending, bounds, Goto, Change, Fault,
             MainStates, ProbeStates, Disconnected
<1>1. CASE ConnectOk \/ ConnectFails \/ Begin \/ Top
  BY <1>1 DEF ConnectOk, ConnectFails, Begin, Top
<1>2. CASE FetchReturns \/ ApplyBegins \/ ApplyEnds
  BY <1>2 DEF FetchReturns, ApplyBegins, ApplyEnds, GivenUp
<1>3. CASE Publish \/ WaitReturns
  BY <1>3 DEF Publish, WaitReturns
<1>4. CASE CancelProbe \/ Join \/ HangUp
  BY <1>4 DEF CancelProbe, Join, HangUp, Lost
<1>5. CASE Ended \/ Delay \/ Final \/ Restart
  BY <1>5 DEF Ended, Delay, Final, Restart
<1>6. CASE ProbeStep
  BY <1>6 DEF ProbeStep, ProbeTick, ProbeStops, ReconnectReturns, ProbeReads
<1>7. CASE Drop \/ TablesChange
  BY <1>7 DEF Drop, TablesChange
<1>8. CASE StopSignal \/ Cancel \/ HeartbeatDue
  BY <1>8 DEF StopSignal, Cancel, HeartbeatDue
<1>. QED BY <1>1, <1>2, <1>3, <1>4, <1>5, <1>6, <1>7, <1>8 DEF Next, MainStep, Outside

(* Every step that leaves a session gives its lines back, or its error is  *)
(* that of a hint, or the process ends.                                    *)
LEMMA BackStep ==
    ASSUME IInv, Next
    PROVE  BackInv'
<1>. USE DEF IInv, TypeOK, ProbeInv, BackInv, InSession, session, ending, bounds, Goto, Change,
             Fault, MainStates, Disconnected
<1>1. CASE ConnectOk \/ ConnectFails \/ Begin \/ Top
  BY <1>1 DEF ConnectOk, ConnectFails, Begin, Top
<1>2. CASE FetchReturns \/ ApplyBegins \/ ApplyEnds
  BY <1>2 DEF FetchReturns, ApplyBegins, ApplyEnds, GivenUp
<1>3. CASE Publish \/ WaitReturns
  BY <1>3 DEF Publish, WaitReturns
<1>4. CASE CancelProbe \/ Join \/ HangUp
  BY <1>4 DEF CancelProbe, Join, HangUp, Lost
<1>5. CASE Ended \/ Delay \/ Final \/ Restart
  BY <1>5 DEF Ended, Delay, Final, Restart
<1>6. CASE ProbeStep
  BY <1>6 DEF ProbeStep, ProbeTick, ProbeStops, ReconnectReturns, ProbeReads
<1>7. CASE Drop \/ TablesChange
  BY <1>7 DEF Drop, TablesChange
<1>8. CASE StopSignal \/ Cancel \/ HeartbeatDue
  BY <1>8 DEF StopSignal, Cancel, HeartbeatDue
<1>. QED BY <1>1, <1>2, <1>3, <1>4, <1>5, <1>6, <1>7, <1>8 DEF Next, MainStep, Outside

(* The invariant is inductive. *)
LEMMA Invariance == Spec => []IInv
<1>1. Init => IInv
  <2>. SUFFICES ASSUME Init
                PROVE  IInv
    OBVIOUS
  <2>1. TypeOK
    <3>1. 0 \in 0 .. MaxChanges /\ 0 \in 0 .. MaxFailures
      BY ConstantsAssumption
    <3>. QED BY <3>1 DEF Init, TypeOK, MainStates, ProbeStates
  <2>2. CapInv
    BY NothingWithinCap DEF Init, CapInv, StrayWithin
  <2>3. ProbeInv /\ BackInv
    BY DEF Init, ProbeInv, BackInv, InSession
  <2>. QED BY <2>1, <2>2, <2>3 DEF IInv
<1>2. IInv /\ [Next]_vars => IInv'
  <2>1. CASE Next
    BY <2>1, TypeStep, CapStep, ProbeInvStep, BackStep DEF IInv
  <2>2. CASE UNCHANGED vars
    BY <2>2 DEF vars, session, tables, ending, bounds, IInv, TypeOK, CapInv, WithinCap, StrayWithin,
                ProbeInv, BackInv
  <2>. QED BY <2>1, <2>2
<1>. QED BY <1>1, <1>2, PTL DEF Spec

-----------------------------------------------------------------------------
(* Theorems *)

(* Every variable always has its type, and only an open connection has     *)
(* lines.                                                                  *)
THEOREM TypeCorrect == Spec => []TypeOK
BY Invariance, PTL DEF IInv

(* The watchlist never has more lines open at IB than the budget's cap, and*)
(* one cap more for every poll whose cancellations failed.                 *)
THEOREM BudgetIsKept == Spec => []WatchlistWithinCap
<1>1. ASSUME IInv
      PROVE  WatchlistWithinCap
  <2>. DEFINE a == Cardinality(stray \ OnDemand)
              b == Cardinality(lines \ OnDemand)
              c == Cardinality(OpenLines \ OnDemand)
  <2>1. /\ stray \in SUBSET Contract /\ lines \in SUBSET Contract /\ failures \in Nat
        /\ OpenLines \in SUBSET Contract
    BY <1>1, ConstantsAssumption DEF IInv, TypeOK, OpenLines
  <2>2. a \in Nat /\ b \in Nat /\ c \in Nat
    BY <2>1, ContractsFinite
  <2>3. c <= b + a
    BY <2>1, TogetherLines DEF OpenLines
  <2>4. a <= MaxSubscriptions * failures /\ b <= MaxSubscriptions
    BY <1>1 DEF IInv, CapInv, WithinCap, StrayWithin
  <2>5. /\ MaxSubscriptions * failures \in Nat /\ MaxSubscriptions \in Nat
        /\ MaxSubscriptions * (1 + failures) = MaxSubscriptions * failures + MaxSubscriptions
    BY <2>1, CapMore, ConstantsAssumption
  <2>. HIDE DEF a, b, c
  <2>6. c <= MaxSubscriptions * (1 + failures)
    BY <2>2, <2>3, <2>4, <2>5
  <2>. QED BY <2>6 DEF c, WatchlistWithinCap
<1>. QED BY <1>1, Invariance, PTL

(* Between two sessions nothing is open at IB. *)
THEOREM LinesAreGivenBack == Spec => []NoLinesBetweenSessions
<1>1. IInv => NoLinesBetweenSessions
  BY DEF IInv, BackInv, NoLinesBetweenSessions, OpenLines
<1>. QED BY <1>1, Invariance, PTL

-----------------------------------------------------------------------------
(* A poll's lines and what it publishes *)

(* The lines that a poll, once it has subscribed, has of what it wants.    *)
Served(contracts) ==
    \/ lines = {}
    \/ lines = contracts \ Refused
    \/ "subscribe" \in failed /\ lines \subseteq contracts

(* What a poll subscribes, on the connector it began with, and publishes   *)
(* is the same but for what was refused, unless the connection was lost on *)
(* the way; what else is open was left so by a failed cancellation.        *)
PollInv ==
    /\ main = "applying" => lines = {}
    /\ main = "publish" /\ wanted # {} => Served(wanted)
    /\ main = "wait" => /\ published = wanted
                        /\ wanted # {} => Served(wanted)
    /\ stray # {} => "cancel" \in failed

(* While the session waits for its next poll, quotes come only from        *)
(* contracts that Redis publishes, and from all of them but those whose    *)
(* subscription was refused or failed, or from none of them because the    *)
(* connection was lost, or was already when they were asked for.  Quotes of*)
(* other contracts are of lines whose cancellation failed.  (Without any   *)
(* contract to serve, the old lines stay.)                                 *)
LinesArePublished ==
    main = "wait" /\ published # {} =>
        /\ Served(published)
        /\ OpenLines \subseteq published \/ "cancel" \in failed

LEMMA PollStep ==
    ASSUME PollInv, [Next]_vars
    PROVE  PollInv'
<1>. USE DEF PollInv, Served, session, ending, bounds, Goto, Fault, Change
<1>1. CASE ConnectOk \/ ConnectFails \/ Begin \/ Top
  BY <1>1 DEF ConnectOk, ConnectFails, Begin, Top
<1>2. CASE FetchReturns
  BY <1>2 DEF FetchReturns
<1>3. CASE ApplyBegins
  BY <1>3 DEF ApplyBegins, GivenUp
<1>11. CASE ApplyEnds
  BY <1>11 DEF ApplyEnds
<1>4. CASE Publish
  BY <1>4 DEF Publish
<1>5. CASE WaitReturns \/ CancelProbe \/ Join \/ HangUp
  BY <1>5 DEF WaitReturns, CancelProbe, Join, HangUp, Disconnected
<1>6. CASE Ended \/ Delay \/ Final \/ Restart
  BY <1>6 DEF Ended, Delay, Final, Restart
<1>7. CASE ProbeStep
  BY <1>7 DEF ProbeStep, ProbeTick, ProbeStops, ReconnectReturns, ProbeReads
<1>8. CASE Drop \/ TablesChange
  BY <1>8 DEF Drop, TablesChange
<1>9. CASE StopSignal \/ Cancel \/ HeartbeatDue
  BY <1>9 DEF StopSignal, Cancel, HeartbeatDue
<1>10. CASE UNCHANGED vars
  BY <1>10 DEF vars
<1>. QED BY <1>1, <1>2, <1>3, <1>4, <1>5, <1>6, <1>7, <1>8, <1>9, <1>10, <1>11
         DEF Next, MainStep, Outside

(* Quotes come from published contracts only, but for lines whose          *)
(* cancellation failed; and a published contract has its line, unless it   *)
(* could not be subscribed.                                                *)
THEOREM QuotesArePublished == Spec => []LinesArePublished
<1>1. Init => PollInv
  BY DEF Init, PollInv
<1>2. PollInv /\ [Next]_vars => PollInv'
  BY PollStep
<1>3. PollInv => LinesArePublished
  BY DEF PollInv, Served, LinesArePublished, OpenLines
<1>. QED BY <1>1, <1>2, <1>3, PTL DEF Spec

=============================================================================
