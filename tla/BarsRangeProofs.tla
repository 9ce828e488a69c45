---------------------------- MODULE BarsRangeProofs ----------------------------
(***************************************************************************)
(* What is true of BarsRange for every set of bar times, chunk length,     *)
(* excess of the durations and loop limit.  The invariant has, beside the  *)
(* properties themselves, how far the walk has come (Progress), in bars and*)
(* in loops: the properties speak of calls that are over, Progress of the  *)
(* loop they come from.                                                    *)
(***************************************************************************)

EXTENDS BarsRange, WellFoundedInduction, TLAPS

(* A non-empty set of integers with an upper bound has a greatest member.  *)
LEMMA GreatestBelow ==
    ASSUME NEW S \in SUBSET Int, S # {}, NEW e \in Int, \A b \in S : b < e
    PROVE  \E m \in S : \A b \in S : b <= m
<1> DEFINE T == {n \in Nat : e - n \in S}
<1>1. T \subseteq Nat /\ T # {}
  <2>1. PICK b \in S : TRUE
    OBVIOUS
  <2>2. e - b \in Nat /\ e - (e - b) = b
    BY <2>1
  <2>3. e - b \in T
    BY <2>1, <2>2
  <2>. QED BY <2>3
<1>2. PICK n \in T : \A y \in T : ~ (<<y, n>> \in OpToRel(<, Nat))
  BY <1>1, NatLessThanWellFounded, WFMin, Zenon
<1>3. \A y \in T : n <= y
  <2>1. TAKE y \in T
  <2>2. y \in Nat /\ n \in Nat
    BY <1>1
  <2>3. ~ (y < n)
    <3>1. SUFFICES ASSUME y < n
                   PROVE  <<y, n>> \in OpToRel(<, Nat)
      BY <1>2
    <3>. QED BY <2>2, <3>1, Zenon DEF OpToRel
  <2>. QED BY <2>2, <2>3
<1>4. e - n \in S
  BY <1>2
<1>5. \A b \in S : b <= e - n
  <2>1. TAKE b \in S
  <2>2. e - b \in Nat /\ e - (e - b) = b
    BY <2>1
  <2>3. e - b \in T
    BY <2>1, <2>2
  <2>4. n \in Nat /\ n <= e - b
    BY <2>3, <1>1, <1>3
  <2>. QED BY <2>2, <2>4
<1>. QED BY <1>4, <1>5

(* What a request is answered with lies before its end, and, unless IB     *)
(* reaches back, in the duration before it, which is a chunk at least.     *)
LEMMA AnswerIsBefore ==
    ASSUME ConstantsAssumption, bars \subseteq Times, NEW e \in Int, NEW span \in Spans
    PROVE  /\ \A b \in Answer(e, span) : b \in bars /\ b < e
           /\ ~reachesBack => \A b \in Answer(e, span) : e - (Chunk + Excess) <= b
           /\ \A b \in bars : e - Chunk <= b /\ b < e => b \in Answer(e, span)
<1>1. /\ span \in Int /\ Chunk \in Int /\ Excess \in Int
      /\ Chunk <= span /\ span <= Chunk + Excess
  BY DEF ConstantsAssumption, Spans
<1>2. \A b \in bars : b \in Int
  BY DEF ConstantsAssumption
<1>3. \A b \in bars : e - Chunk <= b /\ b < e => b \in Window(e, span)
  BY <1>1, <1>2 DEF Window
<1>4. \A b \in Window(e, span) : b \in bars /\ b < e /\ e - (Chunk + Excess) <= b
  BY <1>1, <1>2 DEF Window
<1>. QED BY <1>3, <1>4 DEF Answer, Before

(* When IB reaches back, only the beginning of its bars has no answer.     *)
LEMMA ReachingBackFindsBars ==
    ASSUME ConstantsAssumption, bars \subseteq Times, NEW e \in Int, NEW span \in Spans,
           reachesBack, Answer(e, span) = {}
    PROVE  \A b \in bars : b >= e
<1> SUFFICES ASSUME NEW x \in bars, x < e
             PROVE  FALSE
  BY DEF ConstantsAssumption
<1>0. span \in Int /\ span > 0
  BY DEF ConstantsAssumption, Spans
<1>1. Before(e) \subseteq Int /\ Before(e) # {} /\ \A b \in Before(e) : b < e
  BY DEF Before, ConstantsAssumption
<1>2. PICK m \in Before(e) : \A b \in Before(e) : b <= m
  BY <1>1, GreatestBelow
<1>3. \A l \in Before(e) : l - span < m
  BY <1>0, <1>1, <1>2
<1>4. CASE Window(e, span) = {}
  BY <1>2, <1>3, <1>4 DEF Answer
<1>5. CASE Window(e, span) # {}
  BY <1>5 DEF Answer
<1>. QED BY <1>4, <1>5

-----------------------------------------------------------------------------

(* How far the loop has come: without a start it has not been through;     *)
(* with one, all its requests but the last went back by a chunk; and,      *)
(* without reaching back, little was collected before the next request's   *)
(* end, and nothing twice.                                                 *)
Progress ==
    stage = "loop" =>
        /\ why = "none"
        /\ cur_end <= end
        /\ start = None => loops = 0
        /\ start # None /\ loops > 0 => end - start > (loops - 1) * Chunk
        /\ start # None /\ cur_end > start => end - cur_end = loops * Chunk
        /\ ~reachesBack /\ ~Reached =>
              \A b \in Times : /\ rows[b] > 0 => b >= cur_end - Excess
                               /\ rows[b] > 1 => b >= cur_end

(* Before the first request nothing is collected. *)
Begun == loops = 0 => \A b \in Times : rows[b] = 0

IInv ==
    /\ TypeOK
    /\ Progress
    /\ Begun
    /\ CollectedSuffix
    /\ PartialMeansHole
    /\ RepeatsOnlyAtSeams
    /\ LittleOutside
    /\ LimitOnlyForLongRanges

(* Before the first call there is nothing to lack. *)
LEMMA InitIInv ==
    ASSUME ConstantsAssumption, Init
    PROVE  IInv
BY DEF ConstantsAssumption, Init, IInv, TypeOK, Progress, Begun, CollectedSuffix, PartialMeansHole,
       RepeatsOnlyAtSeams, LittleOutside, LimitOnlyForLongRanges, Whys

(* A call begins with nothing collected. *)
LEMMA CallKeepsIInv ==
    ASSUME ConstantsAssumption, IInv, NEW s \in Times \cup {None}, NEW e \in Times, Call(s, e)
    PROVE  IInv'
<1>. USE DEF ConstantsAssumption, IInv, Call, ib
<1>1. TypeOK'
  BY DEF TypeOK, Whys
<1>2. Progress'
  BY <1>1 DEF Progress, TypeOK, Reached
<1>3. CollectedSuffix'
  <2>1. \A b \in bars : b \in Int
    BY DEF TypeOK
  <2>. QED BY <2>1 DEF CollectedSuffix, Asked
<1>4. PartialMeansHole' /\ LimitOnlyForLongRanges'
  BY DEF PartialMeansHole, LimitOnlyForLongRanges
<1>5. RepeatsOnlyAtSeams' /\ LittleOutside'
  BY DEF RepeatsOnlyAtSeams, LittleOutside
<1>6. Begun'
  BY DEF Begun
<1>. QED BY <1>1, <1>2, <1>3, <1>4, <1>5, <1>6

(* A request that is answered with bars. *)
LEMMA NextChunkKeepsIInv ==
    ASSUME ConstantsAssumption, IInv, NextChunk
    PROVE  IInv'
<1>0. PICK span \in Spans :
          rows' = [b \in Times |-> IF b \in Answer(cur_end, span) THEN rows[b] + 1 ELSE rows[b]]
  BY DEF NextChunk
<1>. DEFINE new == Answer(cur_end, span)
<1>1. /\ TypeOK /\ Progress /\ Begun /\ CollectedSuffix /\ RepeatsOnlyAtSeams /\ LittleOutside
      /\ stage = "loop" /\ loops < MaxLoops /\ ~Reached
      /\ rows' = [b \in Times |-> IF b \in new THEN rows[b] + 1 ELSE rows[b]]
      /\ cur_end' = NextEnd
      /\ loops' = loops + 1
      /\ UNCHANGED <<bars, reachesBack, start, end>>
  BY <1>0 DEF IInv, NextChunk, Asking, MoreLoops, ib, range
<1>2. \/ start = None /\ stage' = "done" /\ why' = "reached"
      \/ start # None /\ stage' = "loop" /\ why' = "none"
  BY <1>1 DEF NextChunk, Done, Progress
<1>3. /\ cur_end \in Int /\ end \in Int /\ start \in Int \cup {None} /\ loops \in Nat
      /\ bars \subseteq Times /\ Times \subseteq Int /\ Chunk \in Nat \ {0} /\ MaxLoops \in Nat \ {0}
      /\ None \notin Int /\ rows \in [Times -> Nat] /\ Excess \in Nat /\ Excess < Chunk
  BY <1>1 DEF TypeOK, ConstantsAssumption
<1>4. /\ \A b \in new : b \in bars /\ b < cur_end
      /\ ~reachesBack => \A b \in new : cur_end - (Chunk + Excess) <= b
      /\ \A b \in bars : cur_end - Chunk <= b /\ b < cur_end => b \in new
  BY <1>0, <1>3, AnswerIsBefore
<1>5. /\ cur_end' \in Int
      /\ cur_end' < cur_end
      /\ cur_end' >= cur_end - Chunk
      /\ start = None => cur_end' = cur_end - Chunk
      /\ start # None => start <= cur_end' /\ cur_end > start
      /\ start # None /\ cur_end' > start => cur_end' = cur_end - Chunk
  BY <1>1, <1>3 DEF NextEnd, Reached
<1>6. /\ rows' \in [Times -> Nat]
      /\ \A b \in Times : rows'[b] > 0 <=> rows[b] > 0 \/ b \in new
      /\ \A b \in Times : rows'[b] = IF b \in new THEN rows[b] + 1 ELSE rows[b]
  BY <1>1, <1>3
<1>7. TypeOK'
  <2>1. loops' \in 0 .. MaxLoops
    BY <1>1, <1>3
  <2>. QED BY <1>1, <1>2, <1>3, <1>5, <1>6, <2>1 DEF TypeOK, Whys
<1>8. Progress'
  <2>1. SUFFICES ASSUME stage' = "loop"
                 PROVE  Progress'
    BY DEF Progress
  <2>2. start # None /\ why' = "none" /\ cur_end' <= end'
    BY <2>1, <1>1, <1>2, <1>3, <1>5 DEF Progress
  <2>3. end - cur_end = loops * Chunk
    BY <2>2, <1>1, <1>5 DEF Progress
  <2>4. (loops' - 1) * Chunk = loops * Chunk /\ loops' * Chunk = loops * Chunk + Chunk
    BY <1>1, <1>3
  <2>5. end' - start' > (loops' - 1) * Chunk
    BY <2>2, <2>3, <2>4, <1>1, <1>3, <1>5
  <2>6. cur_end' > start' => end' - cur_end' = loops' * Chunk
    BY <2>2, <2>3, <2>4, <1>1, <1>3, <1>5
  <2>7. ~reachesBack' /\ ~Reached' =>
            \A b \in Times : /\ rows'[b] > 0 => b >= cur_end' - Excess
                             /\ rows'[b] > 1 => b >= cur_end'
    <3>1. SUFFICES ASSUME ~reachesBack, cur_end' > start, NEW b \in Times
                   PROVE  /\ rows'[b] > 0 => b >= cur_end' - Excess
                          /\ rows'[b] > 1 => b >= cur_end'
      BY <2>2, <1>1, <1>3, <1>5 DEF Reached
    <3>2. rows[b] > 0 => b >= cur_end - Excess
      BY <3>1, <1>1 DEF Progress
    <3>3. cur_end' = cur_end - Chunk /\ b \in Int /\ rows[b] \in Nat
      BY <3>1, <2>2, <1>3, <1>5
    <3>4. CASE b \in new
      <4>1. cur_end - (Chunk + Excess) <= b /\ rows'[b] = rows[b] + 1
        BY <3>1, <3>4, <1>4, <1>6
      <4>. QED BY <4>1, <3>2, <3>3, <1>3
    <3>5. CASE b \notin new
      BY <3>5, <3>2, <3>3, <1>3, <1>6
    <3>. QED BY <3>4, <3>5
  <2>. QED BY <2>2, <2>5, <2>6, <2>7, <1>1 DEF Progress
<1>9. CollectedSuffix'
  <2>1. SUFFICES ASSUME NEW b \in Asked, b >= cur_end'
                 PROVE  rows'[b] > 0
    BY <1>1 DEF CollectedSuffix, Asked
  <2>2. b \in bars /\ b \in Times /\ b < end
    BY <1>3 DEF Asked
  <2>3. CASE b >= cur_end
    BY <2>1, <2>2, <2>3, <1>1, <1>3, <1>6 DEF CollectedSuffix
  <2>4. CASE b < cur_end
    BY <2>1, <2>2, <2>4, <1>3, <1>4, <1>5, <1>6
  <2>. QED BY <2>2, <2>3, <2>4, <1>3
<1>10. PartialMeansHole' /\ LimitOnlyForLongRanges'
  BY <1>1, <1>2 DEF PartialMeansHole, LimitOnlyForLongRanges
<1>11. RepeatsOnlyAtSeams'
  <2>1. SUFFICES ASSUME ~reachesBack, NEW b \in Times
                 PROVE  /\ rows'[b] <= 2
                        /\ rows'[b] = 2 => \E k \in 1 .. loops' :
                               LET seam == end - k * Chunk IN seam - Excess <= b /\ b < seam
    BY <1>1 DEF RepeatsOnlyAtSeams
  <2>2. /\ rows[b] > 0 => b >= cur_end - Excess
        /\ rows[b] > 1 => b >= cur_end
    BY <2>1, <1>1 DEF Progress
  <2>3. /\ rows[b] <= 2
        /\ rows[b] = 2 => \E k \in 1 .. loops :
               LET seam == end - k * Chunk IN seam - Excess <= b /\ b < seam
    BY <2>1, <1>1 DEF RepeatsOnlyAtSeams
  <2>4. b \in Int /\ rows[b] \in Nat /\ (b \in new => b < cur_end)
    BY <1>3, <1>4
  <2>5. CASE rows'[b] = rows[b]
    <3>1. 1 .. loops \subseteq 1 .. loops'
      BY <1>1, <1>3
    <3>. QED BY <2>3, <2>5, <3>1
  <2>6. CASE b \in new /\ rows'[b] = rows[b] + 1
    <3>1. rows[b] <= 1
      BY <2>2, <2>4, <2>6, <1>3
    <3>2. ASSUME rows[b] = 1
          PROVE  \E k \in 1 .. loops' :
                    LET seam == end - k * Chunk IN seam - Excess <= b /\ b < seam
      <4>1. start # None /\ cur_end > start /\ loops > 0
        <5>1. loops > 0
          BY <3>2, <1>1, <1>3, <2>1 DEF Begun
        <5>. QED BY <5>1, <1>1, <1>3, <1>5 DEF Progress
      <4>2. end - loops * Chunk = cur_end
        <5>1. end - cur_end = loops * Chunk
          BY <4>1, <1>1 DEF Progress
        <5>2. loops * Chunk \in Int
          BY <1>3
        <5>. QED BY <5>1, <5>2, <1>3
      <4>3. cur_end - Excess <= b /\ b < cur_end
        BY <2>2, <2>4, <2>6, <3>2
      <4>4. loops \in 1 .. loops'
        BY <4>1, <1>1, <1>3
      <4>. QED BY <4>2, <4>3, <4>4
    <3>. QED BY <2>4, <2>6, <3>1, <3>2
  <2>. QED BY <2>5, <2>6, <1>6
<1>12. LittleOutside'
  <2>1. SUFFICES ASSUME NEW b \in Times, rows'[b] > 0
                 PROVE  b < end /\ (start # None /\ ~reachesBack => b > start - (Chunk + Excess))
    BY <1>1 DEF LittleOutside
  <2>2. CASE b \in new
    BY <2>1, <2>2, <1>1, <1>3, <1>4, <1>5 DEF Progress
  <2>3. CASE b \notin new
    BY <2>1, <2>3, <1>1, <1>6 DEF LittleOutside
  <2>. QED BY <2>2, <2>3
<1>13. Begun'
  BY <1>1, <1>3 DEF Begun
<1>. QED BY <1>7, <1>8, <1>9, <1>10, <1>11, <1>12, <1>13 DEF IInv

(* The ends of the loop. *)
LEMMA EndsKeepIInv ==
    ASSUME ConstantsAssumption, IInv,
           TooManyLoops \/ RangeReached \/ EmptyChunk \/ RequestFails \/ ConnectionDropped
    PROVE  IInv'
<1>1. /\ TypeOK /\ Progress /\ Begun /\ CollectedSuffix /\ RepeatsOnlyAtSeams /\ LittleOutside
      /\ stage = "loop" /\ stage' = "done"
      /\ UNCHANGED <<bars, reachesBack, start, end, cur_end, loops>>
      /\ rows' = rows \/ (why' = "dropped" /\ rows' = [b \in Times |-> 0])
  BY DEF IInv, TooManyLoops, RangeReached, EmptyChunk, RequestFails, ConnectionDropped,
         Asking, Done, ib, range
<1>2. /\ cur_end \in Int /\ end \in Int /\ start \in Int \cup {None} /\ loops \in 0 .. MaxLoops
      /\ bars \subseteq Times /\ Times \subseteq Int /\ Chunk \in Nat \ {0} /\ MaxLoops \in Nat \ {0}
      /\ None \notin Int /\ rows \in [Times -> Nat] /\ Excess \in Nat /\ Excess < Chunk
  BY <1>1 DEF TypeOK, ConstantsAssumption
<1>3. TypeOK'
  <2>1. why' \in Whys
    BY DEF TooManyLoops, RangeReached, EmptyChunk, RequestFails, ConnectionDropped, Done, Whys
  <2>2. rows' \in [Times -> Nat]
    BY <1>1, <1>2
  <2>. QED BY <1>1, <1>2, <2>1, <2>2 DEF TypeOK
<1>4. Progress' /\ CollectedSuffix'
  BY <1>1 DEF Progress, CollectedSuffix
<1>5. PartialMeansHole'
  <2>1. SUFFICES ASSUME why' \in {"reached", "empty"}, start # None,
                        NEW b \in Asked, rows[b] = 0
                 PROVE  why' = "empty" /\ ~reachesBack /\ b < cur_end - Chunk
    BY <1>1 DEF PartialMeansHole, Asked
  <2>2. b \in bars /\ b \in Int /\ start <= b /\ b < cur_end
    BY <2>1, <1>1, <1>2 DEF CollectedSuffix, Asked
  <2>3. CASE RangeReached
    BY <2>1, <2>2, <2>3, <1>2 DEF RangeReached, Reached
  <2>4. CASE EmptyChunk
    <3>1. PICK span \in Spans : why' = "empty" /\ Answer(cur_end, span) = {}
      BY <2>4 DEF EmptyChunk, Done
    <3>2. ~reachesBack
      BY <3>1, <2>2, <1>2, ReachingBackFindsBars
    <3>3. ~ (cur_end - Chunk <= b)
      BY <3>1, <2>2, <1>2, AnswerIsBefore
    <3>. QED BY <3>1, <3>2, <3>3, <2>2, <1>2
  <2>5. CASE TooManyLoops \/ RequestFails \/ ConnectionDropped
    BY <2>1, <2>5 DEF TooManyLoops, RequestFails, ConnectionDropped, Done
  <2>. QED BY <2>3, <2>4, <2>5
<1>6. RepeatsOnlyAtSeams' /\ LittleOutside'
  <2>1. CASE rows' = rows
    BY <1>1, <2>1 DEF RepeatsOnlyAtSeams, LittleOutside
  <2>2. CASE rows' = [b \in Times |-> 0]
    <3>1. \A b \in Times : rows'[b] = 0
      BY <2>2
    <3>. QED BY <3>1 DEF RepeatsOnlyAtSeams, LittleOutside
  <2>. QED BY <1>1, <2>1, <2>2
<1>7. LimitOnlyForLongRanges'
  <2>1. CASE TooManyLoops
    <3>1. loops = MaxLoops /\ loops > 0
      BY <2>1, <1>2 DEF TooManyLoops, MoreLoops
    <3>. QED BY <3>1, <1>1, <1>2 DEF Progress, LimitOnlyForLongRanges
  <2>2. CASE ~TooManyLoops
    BY <2>2 DEF LimitOnlyForLongRanges, RangeReached, EmptyChunk, RequestFails,
                ConnectionDropped, Done
  <2>. QED BY <2>1, <2>2
<1>8. Begun'
  BY <1>1 DEF Begun
<1>. QED BY <1>3, <1>4, <1>5, <1>6, <1>7, <1>8 DEF IInv

(* The invariant is inductive. *)
THEOREM SpecIInv == Spec => []IInv
<1>1. Init => IInv
  BY InitIInv, ConstantsAssumption
<1>2. IInv /\ [Next]_vars => IInv'
  <2>1. SUFFICES ASSUME IInv, [Next]_vars
                 PROVE  IInv'
    OBVIOUS
  <2>2. CASE UNCHANGED vars
    BY <2>1, <2>2 DEF IInv, vars, ib, range, TypeOK, Progress, Begun, CollectedSuffix,
       PartialMeansHole, RepeatsOnlyAtSeams, LittleOutside, LimitOnlyForLongRanges, Asked, Reached
  <2>3. ASSUME NEW s \in Times \cup {None}, NEW e \in Times, Call(s, e)
        PROVE  IInv'
    BY <2>1, <2>3, ConstantsAssumption, CallKeepsIInv
  <2>4. CASE NextChunk
    BY <2>1, <2>4, ConstantsAssumption, NextChunkKeepsIInv
  <2>5. CASE TooManyLoops \/ RangeReached \/ EmptyChunk \/ RequestFails \/ ConnectionDropped
    BY <2>1, <2>5, ConstantsAssumption, EndsKeepIInv
  <2>. QED BY <2>1, <2>2, <2>3, <2>4, <2>5 DEF Next, Steps
<1>. QED BY <1>1, <1>2, PTL DEF Spec

(* The collected bars have no gap. *)
THEOREM SpecCollectedSuffix == Spec => []CollectedSuffix
BY SpecIInv, PTL DEF IInv

(* What a range that was walked through, or cut off by an empty chunk, may *)
(* lack.                                                                   *)
THEOREM SpecPartialMeansHole == Spec => []PartialMeansHole
BY SpecIInv, PTL DEF IInv

(* Requests repeat bars at their seams only, if IB does not reach back. *)
THEOREM SpecRepeatsOnlyAtSeams == Spec => []RepeatsOnlyAtSeams
BY SpecIInv, PTL DEF IInv

(* Nothing is collected outside the range by more than the last request's  *)
(* length.                                                                 *)
THEOREM SpecLittleOutside == Spec => []LittleOutside
BY SpecIInv, PTL DEF IInv

(* The loop limit ends only ranges of nearly that many chunks. *)
THEOREM SpecLimitOnlyForLongRanges == Spec => []LimitOnlyForLongRanges
BY SpecIInv, PTL DEF IInv

(* Every variable always has its type. *)
THEOREM SpecTypeOK == Spec => []TypeOK
BY SpecIInv, PTL DEF IInv

=============================================================================
