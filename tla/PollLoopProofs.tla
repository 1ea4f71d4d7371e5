--------------------------- MODULE PollLoopProofs ---------------------------
(***************************************************************************)
(* Proofs about PollLoop, for every interval, every set of host statuses   *)
(* and every width of the backoff.                                         *)
(*                                                                         *)
(* PollSpacing, BoundedSilence and EveryPayloadSettled speak of the end of *)
(* an iteration; what makes them inductive is what each point inside the   *)
(* iteration has established, which is IInv.                               *)
(***************************************************************************)
EXTENDS PollLoop, InductionFacts

\* The backoff stays between the smaller and the larger of interval and 60.
BackoffRange ==
  /\ Least(interval, BACKOFF_CAP) <= backoff
  /\ backoff <= Most(interval, BACKOFF_CAP)

\* Which fetch outcome each point of drive_once follows.
OutcomeAtPoint ==
  /\ pc \in {"push", "retrySleep", "pollSleep"} => outcome = "ok"
  /\ pc = "backoffSleep" => outcome = "err"

\* Inside the retry loop every offer so far was refused.
RetryProgress ==
  /\ pc \in {"push", "retrySleep"} =>
       ~pushed /\ taken = 0 /\ attempt < PUSH_RETRY_LIMIT
  /\ pc = "push" => offers = attempt
  /\ pc = "retrySleep" => offers = attempt + 1

\* The seconds slept before the long sleep: one for each refused offer.
RetrySeconds ==
  /\ pc \in {"push", "retrySleep"} => elapsed <= attempt
  /\ pc = "pollSleep" => elapsed <= PUSH_RETRY_LIMIT
  /\ pc = "backoffSleep" => elapsed = 0

\* The channel never runs ahead of the payload, nor the payload of the data.
VersionOrder ==
  /\ slot <= payload
  /\ payload <= source

IInv ==
  /\ TypeOK
  /\ BackoffRange
  /\ OutcomeAtPoint
  /\ RetryProgress
  /\ RetrySeconds
  /\ VersionOrder
  /\ PollSpacing
  /\ BoundedSilence
  /\ EveryPayloadSettled
-----------------------------------------------------------------------------
(***************************************************************************)
(* Doubling a backoff, saturating and capping it keeps it between the      *)
(* smaller and the larger of interval and 60, and inside a u32             *)
(* (src/poll.rs:106).                                                      *)
(***************************************************************************)
LEMMA NextBackoffInRange ==
  ASSUME NEW i \in 1 .. U32Max, NEW b \in 1 .. U32Max,
         Least(i, BACKOFF_CAP) <= b
  PROVE  /\ NextBackoff(b) \in 1 .. U32Max
         /\ Least(i, BACKOFF_CAP) <= NextBackoff(b)
         /\ NextBackoff(b) <= Most(i, BACKOFF_CAP)
  BY WidthAssumption DEF NextBackoff, Least, Most, BACKOFF_CAP

(***************************************************************************)
(* A sleep adds its seconds to the time slept, unless the host's answer    *)
(* cancels it (src/poll.rs:40-43).                                         *)
(***************************************************************************)
LEMMA SleepEffect ==
  ASSUME NEW secs \in Nat, NEW status, TypeOK, Sleep(secs, status)
  PROVE  /\ elapsed' \in Nat
         /\ elapsed <= elapsed'
         /\ elapsed' <= elapsed + secs
         /\ ~SleepCancelled(status) => elapsed' = elapsed + secs
  <1>1. CASE SleepCancelled(status)
    BY <1>1 DEF Sleep, TypeOK
  <1>2. CASE ~SleepCancelled(status)
    BY <1>2 DEF Sleep, TypeOK
  <1> QED BY <1>1, <1>2

LEMMA SleepToFetchEffect ==
  ASSUME NEW secs \in Nat, TypeOK, SleepToFetch(secs)
  PROVE  /\ elapsed' \in Nat
         /\ skip' \in AnnounceStatuses
         /\ elapsed <= elapsed'
         /\ elapsed' <= elapsed + secs
         /\ ~SleepCancelled(skip') => elapsed' = elapsed + secs
         /\ pc' = "fetch"
  BY SleepEffect DEF SleepToFetch
-----------------------------------------------------------------------------
LEMMA InitEstablishesIInv ==
  ASSUME Init PROVE IInv
  <1>1. PICK requested \in Requested : interval = EffectiveInterval(requested)
    BY DEF Init
  <1>2. interval \in 1 .. U32Max
    BY <1>1, RequestedAssumption, WidthAssumption
    DEF EffectiveInterval, Most
  <1>3. TypeOK
    <2>1. backoff \in 1 .. U32Max /\ pc \in Points
      BY <1>2 DEF Init, Points
    <2>2. payload \in 0 .. MaxVersion /\ source \in 0 .. MaxVersion
          /\ slot \in 0 .. MaxVersion /\ seen \in 0 .. MaxVersion
      BY VersionAssumption DEF Init
    <2>3. /\ attempt \in 0 .. PUSH_RETRY_LIMIT
          /\ offers \in 0 .. PUSH_RETRY_LIMIT
          /\ taken \in 0 .. PUSH_RETRY_LIMIT
          /\ fails \in 0 .. FailsCap
          /\ elapsed \in Nat
      BY CapAssumption DEF Init, PUSH_RETRY_LIMIT
    <2>4. pushed \in BOOLEAN /\ outcome \in {"none", "ok", "err"}
      BY DEF Init
    <2>5. skip \in AnnounceStatuses \cup {0}
      BY DEF Init
    <2> QED BY <1>2, <2>5, <2>1, <2>2, <2>3, <2>4 DEF TypeOK
  <1>4. BackoffRange
    BY <1>2, WidthAssumption
    DEF Init, BackoffRange, Least, Most, BACKOFF_CAP
  <1>5. OutcomeAtPoint /\ RetryProgress /\ RetrySeconds /\ VersionOrder
    BY DEF Init, OutcomeAtPoint, RetryProgress, RetrySeconds, VersionOrder
  <1>6. PollSpacing /\ EveryPayloadSettled
    BY DEF Init, PollSpacing, EveryPayloadSettled
  <1>7. BoundedSilence
    BY <1>2 DEF Init, BoundedSilence, Most, BACKOFF_CAP, PUSH_RETRY_LIMIT
  <1> QED BY <1>3, <1>4, <1>5, <1>6, <1>7 DEF IInv

LEMMA FetchOkPreserves ==
  ASSUME IInv, FetchOk PROVE IInv'
  <1> USE DEF IInv, FetchOk, FetchBegins, PayloadFetched
  <1>1. TypeOK'
    <2>1. /\ attempt' \in 0 .. PUSH_RETRY_LIMIT
          /\ offers' \in 0 .. PUSH_RETRY_LIMIT
          /\ taken' \in 0 .. PUSH_RETRY_LIMIT
          /\ fails' \in 0 .. FailsCap
      BY CapAssumption DEF PUSH_RETRY_LIMIT
    <2> QED BY <2>1 DEF TypeOK, Points
  <1>2. BackoffRange'
    BY DEF BackoffRange
  <1>3. OutcomeAtPoint' /\ RetryProgress' /\ RetrySeconds'
    BY DEF OutcomeAtPoint, RetryProgress, RetrySeconds, PUSH_RETRY_LIMIT
  <1>4. VersionOrder'
    BY DEF VersionOrder, TypeOK
  <1>5. PollSpacing' /\ EveryPayloadSettled'
    BY DEF PollSpacing, EveryPayloadSettled
  <1>6. BoundedSilence'
    BY DEF BoundedSilence, TypeOK, Most, BACKOFF_CAP, PUSH_RETRY_LIMIT
  <1> QED BY <1>1, <1>2, <1>3, <1>4, <1>5, <1>6

LEMMA FetchErrPreserves ==
  ASSUME IInv, FetchErr PROVE IInv'
  <1> USE DEF IInv, FetchErr, FetchBegins
  <1>1. TypeOK'
    BY CapAssumption DEF TypeOK, Points, Least
  <1>2. BackoffRange' /\ VersionOrder'
    BY DEF BackoffRange, VersionOrder
  <1>3. OutcomeAtPoint' /\ RetryProgress' /\ RetrySeconds'
    BY DEF OutcomeAtPoint, RetryProgress, RetrySeconds
  <1>4. PollSpacing' /\ EveryPayloadSettled'
    BY DEF PollSpacing, EveryPayloadSettled
  <1>5. BoundedSilence'
    BY DEF BoundedSilence, TypeOK, Most, BACKOFF_CAP, PUSH_RETRY_LIMIT
  <1> QED BY <1>1, <1>2, <1>3, <1>4, <1>5

LEMMA PushAcceptedPreserves ==
  ASSUME IInv, PushAccepted PROVE IInv'
  <1> USE DEF IInv, PushAccepted, PayloadOffered, RetryLoopEnds, BackoffAfterSuccess
  <1>1. TypeOK'
    BY DEF TypeOK, Points, PUSH_RETRY_LIMIT, RetryProgress
  <1>2. BackoffRange'
    BY DEF BackoffRange, TypeOK, Least, Most, BACKOFF_CAP
  <1>3. OutcomeAtPoint' /\ RetryProgress'
    BY DEF OutcomeAtPoint, RetryProgress
  <1>4. RetrySeconds'
    BY DEF RetrySeconds, RetryProgress, TypeOK, PUSH_RETRY_LIMIT
  <1>5. VersionOrder'
    BY DEF VersionOrder, TypeOK
  <1>6. PollSpacing' /\ BoundedSilence'
    BY DEF PollSpacing, BoundedSilence
  <1>7. EveryPayloadSettled'
    BY DEF EveryPayloadSettled, RetryProgress, TypeOK, PUSH_RETRY_LIMIT
  <1> QED BY <1>1, <1>2, <1>3, <1>4, <1>5, <1>6, <1>7

LEMMA PushRejectedPreserves ==
  ASSUME IInv, PushRejected PROVE IInv'
  <1> USE DEF IInv, PushRejected
  <1>1. TypeOK'
    BY DEF TypeOK, Points, PUSH_RETRY_LIMIT, RetryProgress
  <1>2. BackoffRange' /\ VersionOrder'
    BY DEF BackoffRange, VersionOrder
  <1>3. OutcomeAtPoint' /\ RetryProgress' /\ RetrySeconds'
    BY DEF OutcomeAtPoint, RetryProgress, RetrySeconds
  <1>4. PollSpacing' /\ BoundedSilence' /\ EveryPayloadSettled'
    BY DEF PollSpacing, BoundedSilence, EveryPayloadSettled
  <1> QED BY <1>1, <1>2, <1>3, <1>4

LEMMA RetrySleepPreserves ==
  ASSUME IInv, RetrySleep PROVE IInv'
  <1> USE DEF IInv, RetrySleep
  <1>1. elapsed' \in Nat /\ elapsed' <= elapsed + 1
    BY SleepEffect
  <1>2. attempt' \in 1 .. PUSH_RETRY_LIMIT /\ attempt' = attempt + 1
    BY DEF RetryProgress, TypeOK, PUSH_RETRY_LIMIT
  <1>3. elapsed' <= attempt' /\ elapsed' <= PUSH_RETRY_LIMIT
    BY <1>1, <1>2 DEF RetrySeconds, TypeOK, PUSH_RETRY_LIMIT
  <1>4. BoundedSilence'
    BY <1>1, <1>3 DEF BoundedSilence, TypeOK, Most, BACKOFF_CAP, PUSH_RETRY_LIMIT
  <1>5. VersionOrder'
    BY DEF VersionOrder
  <1>6. CASE AttemptsLeft(attempt + 1)
    <2>1. TypeOK'
      BY <1>1, <1>2, <1>6 DEF TypeOK, Points, PUSH_RETRY_LIMIT
    <2>2. BackoffRange'
      BY <1>6 DEF BackoffRange
    <2>3. OutcomeAtPoint' /\ RetryProgress' /\ RetrySeconds'
      BY <1>2, <1>3, <1>6
      DEF OutcomeAtPoint, RetryProgress, RetrySeconds, AttemptsLeft
    <2>4. PollSpacing' /\ EveryPayloadSettled'
      BY <1>6 DEF PollSpacing, EveryPayloadSettled
    <2> QED BY <1>4, <1>5, <2>1, <2>2, <2>3, <2>4
  <1>7. CASE ~AttemptsLeft(attempt + 1)
    <2> USE DEF RetryLoopEnds, BackoffAfterSuccess
    <2>1. TypeOK'
      BY <1>1, <1>2, <1>7 DEF TypeOK, Points, PUSH_RETRY_LIMIT
    <2>2. BackoffRange'
      BY <1>7 DEF BackoffRange, TypeOK, Least, Most, BACKOFF_CAP
    <2>3. OutcomeAtPoint' /\ RetryProgress' /\ RetrySeconds'
      BY <1>3, <1>7 DEF OutcomeAtPoint, RetryProgress, RetrySeconds
    <2>4. PollSpacing'
      BY <1>7 DEF PollSpacing
    <2>5. EveryPayloadSettled'
      BY <1>2, <1>7
      DEF EveryPayloadSettled, RetryProgress, AttemptsLeft, TypeOK,
          PUSH_RETRY_LIMIT
    <2> QED BY <1>4, <1>5, <2>1, <2>2, <2>3, <2>4, <2>5
  <1> QED BY <1>6, <1>7

LEMMA PollSleepPreserves ==
  ASSUME IInv, PollSleep PROVE IInv'
  <1> USE DEF IInv, PollSleep
  <1>1. /\ elapsed' \in Nat
        /\ skip' \in AnnounceStatuses
        /\ elapsed' <= elapsed + interval
        /\ ~SleepCancelled(skip') => elapsed' = elapsed + interval
        /\ pc' = "fetch"
    BY SleepToFetchEffect DEF TypeOK
  <1>2. TypeOK'
    BY <1>1 DEF TypeOK, Points
  <1>3. BackoffRange' /\ VersionOrder'
    BY <1>1 DEF BackoffRange, VersionOrder
  <1>4. OutcomeAtPoint' /\ RetryProgress' /\ RetrySeconds'
    BY <1>1 DEF OutcomeAtPoint, RetryProgress, RetrySeconds
  <1>5. PollSpacing'
    BY <1>1 DEF PollSpacing, OutcomeAtPoint, TypeOK
  <1>6. BoundedSilence'
    BY <1>1 DEF BoundedSilence, RetrySeconds, TypeOK, Most, BACKOFF_CAP,
                PUSH_RETRY_LIMIT
  <1>7. EveryPayloadSettled'
    BY <1>1 DEF EveryPayloadSettled
  <1> QED BY <1>2, <1>3, <1>4, <1>5, <1>6, <1>7

LEMMA BackoffSleepPreserves ==
  ASSUME IInv, BackoffSleep PROVE IInv'
  <1> USE DEF IInv, BackoffSleep
  <1>1. BackoffSleepSecs = backoff
    BY DEF BackoffSleepSecs, TypeOK, Most
  <1>2. /\ elapsed' \in Nat
        /\ skip' \in AnnounceStatuses
        /\ elapsed' <= elapsed + backoff
        /\ ~SleepCancelled(skip') => elapsed' = elapsed + backoff
        /\ pc' = "fetch"
    BY <1>1, SleepToFetchEffect DEF TypeOK
  <1>3. /\ backoff' \in 1 .. U32Max
        /\ Least(interval, BACKOFF_CAP) <= backoff'
        /\ backoff' <= Most(interval, BACKOFF_CAP)
    BY <1>2, <1>1, NextBackoffInRange DEF TypeOK, BackoffRange
  <1>4. TypeOK'
    BY <1>2, <1>3 DEF TypeOK, Points
  <1>5. BackoffRange' /\ VersionOrder'
    BY <1>2, <1>3 DEF BackoffRange, VersionOrder
  <1>6. OutcomeAtPoint' /\ RetryProgress' /\ RetrySeconds'
    BY <1>2 DEF OutcomeAtPoint, RetryProgress, RetrySeconds
  <1>7. PollSpacing'
    BY <1>2 DEF PollSpacing, OutcomeAtPoint, RetrySeconds, BackoffRange,
                TypeOK, Least, BACKOFF_CAP
  <1>8. BoundedSilence'
    BY <1>2 DEF BoundedSilence, RetrySeconds, BackoffRange, TypeOK, Most,
                BACKOFF_CAP, PUSH_RETRY_LIMIT
  <1>9. EveryPayloadSettled'
    BY <1>2 DEF EveryPayloadSettled, OutcomeAtPoint
  <1> QED BY <1>4, <1>5, <1>6, <1>7, <1>8, <1>9

LEMMA EnvironmentPreserves ==
  ASSUME IInv, SourceChanges \/ SlidePolls PROVE IInv'
  <1> USE DEF IInv, SourceChanges, SlidePolls, loopVars, histVars
  <1>1. TypeOK'
    BY VersionAssumption DEF TypeOK
  <1>2. BackoffRange' /\ OutcomeAtPoint' /\ RetryProgress' /\ RetrySeconds'
    BY DEF BackoffRange, OutcomeAtPoint, RetryProgress, RetrySeconds
  <1>3. VersionOrder'
    BY DEF VersionOrder, TypeOK
  <1>4. PollSpacing' /\ BoundedSilence' /\ EveryPayloadSettled'
    BY DEF PollSpacing, BoundedSilence, EveryPayloadSettled
  <1> QED BY <1>1, <1>2, <1>3, <1>4

LEMMA StutterPreserves ==
  ASSUME IInv, UNCHANGED vars PROVE IInv'
  BY DEF IInv, vars, loopVars, histVars, TypeOK, BackoffRange, OutcomeAtPoint,
         RetryProgress, RetrySeconds, VersionOrder, PollSpacing,
         BoundedSilence, EveryPayloadSettled
-----------------------------------------------------------------------------
(***************************************************************************)
(* IInv holds in every reachable state of the poll loop.                   *)
(***************************************************************************)
THEOREM Inductive == Spec => []IInv
  <1>1. Init => IInv
    BY InitEstablishesIInv
  <1>2. IInv /\ [Next]_vars => IInv'
    <2> SUFFICES ASSUME IInv, [Next]_vars PROVE IInv'
      OBVIOUS
    <2>1. CASE FetchOk       BY <2>1, FetchOkPreserves
    <2>2. CASE FetchErr      BY <2>2, FetchErrPreserves
    <2>3. CASE PushAccepted  BY <2>3, PushAcceptedPreserves
    <2>4. CASE PushRejected  BY <2>4, PushRejectedPreserves
    <2>5. CASE RetrySleep    BY <2>5, RetrySleepPreserves
    <2>6. CASE PollSleep     BY <2>6, PollSleepPreserves
    <2>7. CASE BackoffSleep  BY <2>7, BackoffSleepPreserves
    <2>8. CASE SourceChanges \/ SlidePolls
      BY <2>8, EnvironmentPreserves
    <2>9. CASE UNCHANGED vars
      BY <2>9, StutterPreserves
    <2> QED
      BY <2>1, <2>2, <2>3, <2>4, <2>5, <2>6, <2>7, <2>8, <2>9
      DEF Next, LoopStep
  <1> QED BY <1>1, <1>2, PTL DEF Spec

(***************************************************************************)
(* Every variable of the loop keeps its type: in particular the backoff    *)
(* never leaves the u32 and is never 0 (src/poll.rs:18, :98, :106).        *)
(***************************************************************************)
THEOREM TypeCorrect == Spec => []TypeOK
  <1>1. IInv => TypeOK
    BY DEF IInv
  <1> QED BY <1>1, Inductive, PTL

(***************************************************************************)
(* Whatever fails, an uncancelled iteration lasts at least the smaller of  *)
(* the interval and 60 s, and the whole interval after a success           *)
(* (src/poll.rs:91-94, :98-106).                                           *)
(***************************************************************************)
THEOREM SpacingHolds == Spec => []PollSpacing
  <1>1. IInv => PollSpacing
    BY DEF IInv
  <1> QED BY <1>1, Inductive, PTL

(***************************************************************************)
(* No run of failures makes the loop sleep longer than the larger of the   *)
(* interval and 60 s, plus the retry pauses (src/poll.rs:106).             *)
(***************************************************************************)
THEOREM SilenceBounded == Spec => []BoundedSilence
  <1>1. IInv => BoundedSilence
    BY DEF IInv
  <1> QED BY <1>1, Inductive, PTL

(***************************************************************************)
(* Before the next fetch every payload was taken exactly once or refused   *)
(* PUSH_RETRY_LIMIT times (src/poll.rs:65-85).                             *)
(***************************************************************************)
THEOREM PayloadsSettled == Spec => []EveryPayloadSettled
  <1>1. IInv => EveryPayloadSettled
    BY DEF IInv
  <1> QED BY <1>1, Inductive, PTL

(***************************************************************************)
(* The loop implements the lossy feed: the initial states are a feed's,    *)
(* and every step is a step of the feed or leaves it alone, because the    *)
(* payload being pushed lies between the channel's version and the         *)
(* source's (VersionOrder).                                                *)
(***************************************************************************)
THEOREM FeedImplemented == Spec => ImplementsFeed
  <1>1. Init => Feed!FeedInit
    BY DEF Init, Feed!FeedInit
  <1>2. IInv /\ [Next]_vars => [Feed!FeedNext]_(Feed!feedVars)
    <2> SUFFICES ASSUME IInv, [Next]_vars
                 PROVE  [Feed!FeedNext]_(Feed!feedVars)
      OBVIOUS
    <2> USE DEF Feed!feedVars
    <2>1. CASE PushAccepted
      <3>1. CASE slot = payload
        BY <2>1, <3>1 DEF PushAccepted, PayloadOffered
      <3>2. CASE slot # payload
        <4>1. slot' \in (slot + 1) .. source
          BY <2>1, <3>2 DEF PushAccepted, PayloadOffered, IInv, VersionOrder, TypeOK
        <4> QED BY <2>1, <4>1 DEF PushAccepted, PayloadOffered, Feed!FeedNext, Feed!Publish
      <3> QED BY <3>1, <3>2
    <2>2. CASE SourceChanges
      BY <2>2 DEF SourceChanges, Feed!FeedNext, Feed!Change
    <2>3. CASE SlidePolls
      BY <2>3 DEF SlidePolls, Feed!FeedNext, Feed!Pickup
    <2>4. CASE FetchOk \/ FetchErr
      BY <2>4 DEF FetchOk, FetchErr, FetchBegins
    <2>5. CASE PushRejected \/ RetrySleep \/ PollSleep \/ BackoffSleep
      BY <2>5 DEF PushRejected, RetrySleep, PollSleep, BackoffSleep
    <2>6. CASE UNCHANGED vars
      BY <2>6 DEF vars
    <2> QED
      BY <2>1, <2>2, <2>3, <2>4, <2>5, <2>6 DEF Next, LoopStep
  <1> QED BY <1>1, <1>2, Inductive, PTL DEF Spec, ImplementsFeed, Feed!FeedSpec
-----------------------------------------------------------------------------
(***************************************************************************)
(* The backoff as a function of the failures in a row.                     *)
(***************************************************************************)
\* After a success no failure is counted; in a backoff one is.
FailuresCounted ==
  /\ pc \in {"push", "retrySleep", "pollSleep"} => fails = 0
  /\ pc = "backoffSleep" => fails > 0

\* The powers of two, as far as failures are counted.
LEMMA Powers ==
  /\ PowerOfTwo[0] = 1
  /\ \A n \in 1 .. FailsCap : PowerOfTwo[n] = 2 * PowerOfTwo[n - 1]
  /\ \A n \in 0 .. FailsCap : PowerOfTwo[n] \in Nat \ {0}
  <1> DEFINE Is(f) == f = [n \in 0 .. FailsCap |-> IF n = 0 THEN 1 ELSE 2 * f[n - 1]]
             step == [x \in (1 .. FailsCap) \X Nat |-> 2 * x[2]]
  <1>1. FailsCap \in Nat /\ 0 \in 0 .. FailsCap
    BY CapAssumption
  <1>2. step \in [(1 .. FailsCap) \X Nat -> Nat]
    OBVIOUS
  <1>3. PICK f : Recursive(f, FailsCap, Nat, 1, step)
    <2> HIDE DEF step
    <2> QED BY <1>1, <1>2, RecursionExists
  <1>4. f \in [0 .. FailsCap -> Nat] /\ f[0] = 1
    BY <1>3 DEF Recursive
  <1>5. ASSUME NEW n \in 1 .. FailsCap PROVE f[n] = 2 * f[n - 1]
    <2>1. f[n] = step[<<n, f[n - 1]>>]
      BY <1>3 DEF Recursive
    <2>2. n - 1 \in 0 .. FailsCap
      BY <1>1
    <2>3. f[n - 1] \in Nat
      BY <1>4, <2>2
    <2> QED BY <2>1, <2>3
  <1>6. Is(f)
    <2>1. ASSUME NEW n \in 0 .. FailsCap
          PROVE  f[n] = IF n = 0 THEN 1 ELSE 2 * f[n - 1]
      <3>1. n # 0 => n \in 1 .. FailsCap
        BY <1>1
      <3> QED BY <3>1, <1>4, <1>5
    <2> QED BY <2>1, <1>4
  <1>7. Is(PowerOfTwo)
    <2>1. PowerOfTwo = CHOOSE g : Is(g)
      BY DEF PowerOfTwo
    <2> HIDE DEF Is
    <2> QED BY <2>1, <1>6
  <1>8. PowerOfTwo[0] = 1
    BY <1>1, <1>7
  <1>9. ASSUME NEW n \in 1 .. FailsCap PROVE PowerOfTwo[n] = 2 * PowerOfTwo[n - 1]
    <2>1. n \in 0 .. FailsCap /\ n # 0
      BY <1>1
    <2> QED BY <2>1, <1>7
  <1> DEFINE T == {m \in Nat : m <= FailsCap => PowerOfTwo[m] \in Nat \ {0}}
  <1>10. \A n \in Nat : n \in T
    <2>1. 0 \in T
      BY <1>8
    <2>2. ASSUME NEW n \in Nat, n \in T PROVE n + 1 \in T
      <3> SUFFICES ASSUME n + 1 <= FailsCap PROVE PowerOfTwo[n + 1] \in Nat \ {0}
        OBVIOUS
      <3>1. n + 1 \in 1 .. FailsCap /\ (n + 1) - 1 = n /\ PowerOfTwo[n] \in Nat \ {0}
        BY <2>2, <1>1
      <3>2. PowerOfTwo[n + 1] = 2 * PowerOfTwo[n]
        BY <3>1, <1>9
      <3> QED BY <3>1, <3>2
    <2> HIDE DEF T
    <2> QED BY <2>1, <2>2, SetInduction
  <1> QED BY <1>1, <1>8, <1>9, <1>10

\* From six doublings on, the backoff of any interval is at its cap.
LEMMA SixDoublings ==
  \A n \in 6 .. FailsCap : PowerOfTwo[n] \in Nat /\ PowerOfTwo[n] >= 64
  <1> DEFINE T == {n \in Nat : n + 6 <= FailsCap => PowerOfTwo[n + 6] >= 64}
  <1>1. 0 \in T
    <2>1. \A n \in 1 .. 6 : n \in 1 .. FailsCap
      BY CapAssumption
    <2>2. /\ PowerOfTwo[1] = 2 * PowerOfTwo[1 - 1] /\ PowerOfTwo[2] = 2 * PowerOfTwo[2 - 1]
          /\ PowerOfTwo[3] = 2 * PowerOfTwo[3 - 1] /\ PowerOfTwo[4] = 2 * PowerOfTwo[4 - 1]
          /\ PowerOfTwo[5] = 2 * PowerOfTwo[5 - 1] /\ PowerOfTwo[6] = 2 * PowerOfTwo[6 - 1]
      BY <2>1, Powers
    <2>3. PowerOfTwo[6] = 64
      BY <2>2, Powers
    <2> QED BY <2>3
  <1>2. ASSUME NEW n \in Nat, n \in T PROVE n + 1 \in T
    <2> SUFFICES ASSUME n + 1 + 6 <= FailsCap PROVE PowerOfTwo[n + 1 + 6] >= 64
      OBVIOUS
    <2>1. n + 7 \in 1 .. FailsCap /\ n + 6 \in 0 .. FailsCap /\ (n + 7) - 1 = n + 6
      BY CapAssumption
    <2>2. PowerOfTwo[n + 7] = 2 * PowerOfTwo[n + 6]
      BY <2>1, Powers
    <2>3. PowerOfTwo[n + 6] \in Nat /\ PowerOfTwo[n + 6] >= 64
      BY <2>1, Powers, <1>2
    <2>4. PowerOfTwo[n + 7] >= 64
      BY <2>2, <2>3
    <2>5. n + 1 + 6 = n + 7
      OBVIOUS
    <2> QED BY <2>4, <2>5
  <1>3. \A n \in Nat : n \in T
    <2> HIDE DEF T
    <2> QED BY <1>1, <1>2, SetInduction
  <1>4. ASSUME NEW n \in 6 .. FailsCap PROVE PowerOfTwo[n] \in Nat /\ PowerOfTwo[n] >= 64
    <2>1. n - 6 \in Nat /\ (n - 6) + 6 = n /\ n \in 0 .. FailsCap /\ n <= FailsCap
      BY CapAssumption
    <2>2. n - 6 \in T
      BY <2>1, <1>3
    <2> QED BY <2>1, <2>2, Powers
  <1> QED BY <1>4

\* What BackoffDoubles says of the backoff after n doublings.
Doubled(n) ==
  IF n = 0 THEN interval ELSE Least(interval * PowerOfTwo[n], BACKOFF_CAP)

\* One more doubling, which no width of the backoff cuts short before the cap.
LEMMA NextDoubling ==
  ASSUME interval \in 1 .. U32Max, NEW n \in 0 .. FailsCap - 1
  PROVE  NextBackoff(Doubled(n)) = Doubled(n + 1)
  <1> DEFINE p == interval * PowerOfTwo[n]
  <1>1. /\ n \in 0 .. FailsCap /\ n + 1 \in 1 .. FailsCap /\ (n + 1) - 1 = n
        /\ PowerOfTwo[n] \in Nat \ {0} /\ PowerOfTwo[n + 1] = 2 * PowerOfTwo[n]
    BY CapAssumption, Powers
  <1>2. interval \in Nat /\ p \in Nat
    BY <1>1, WidthAssumption
  <1>3. interval * PowerOfTwo[n + 1] = 2 * p
    BY <1>1, <1>2
  <1>4. Doubled(n + 1) = Least(2 * p, BACKOFF_CAP)
    BY <1>1, <1>3 DEF Doubled
  <1> HIDE DEF p
  <1>5. CASE n = 0
    <2>1. p = interval
      BY <1>5, <1>2, Powers DEF p
    <2> QED BY <2>1, <1>2, <1>4, <1>5, WidthAssumption
            DEF Doubled, NextBackoff, Least, BACKOFF_CAP
  <1>6. CASE n # 0
    <2>1. Doubled(n) = Least(p, BACKOFF_CAP)
      BY <1>6 DEF Doubled, p
    <2> QED BY <2>1, <1>2, <1>4, WidthAssumption DEF NextBackoff, Least, BACKOFF_CAP
  <1> QED BY <1>5, <1>6

\* A failure more than is counted finds the backoff at its cap.
LEMMA BeyondTheCount ==
  ASSUME interval \in 1 .. U32Max, NEW n \in 6 .. FailsCap
  PROVE  Doubled(n) = BACKOFF_CAP
  <1>1. interval \in Nat /\ interval >= 1 /\ PowerOfTwo[n] \in Nat /\ PowerOfTwo[n] >= 64
    BY SixDoublings, WidthAssumption
  <1>2. interval * PowerOfTwo[n] \in Nat /\ interval * PowerOfTwo[n] >= PowerOfTwo[n]
    BY <1>1
  <1>3. n # 0
    OBVIOUS
  <1> QED BY <1>1, <1>2, <1>3 DEF Doubled, Least, BACKOFF_CAP

LEMMA BackoffStep ==
  ASSUME IInv, FailuresCounted, BackoffDoubles, [Next]_vars
  PROVE  FailuresCounted' /\ BackoffDoubles'
  <1> USE DEF FailuresCounted
  <1>1. /\ interval \in 1 .. U32Max /\ interval \in Nat /\ fails \in 0 .. FailsCap /\ fails \in Nat
        /\ backoff \in 1 .. U32Max
        /\ pc \in Points /\ FailsCap \in Nat /\ FailsCap >= 7
    BY CapAssumption, WidthAssumption DEF IInv, TypeOK
  <1>2. /\ pc = "fetch" \/ pc = "pollSleep" => backoff = Doubled(fails)
        /\ pc = "backoffSleep" => backoff = Doubled(fails - 1)
    BY DEF BackoffDoubles, Doublings, Doubled
  <1>3. /\ (pc' = "fetch" \/ pc' = "pollSleep" => backoff' = Doubled(fails)')
        /\ (pc' = "backoffSleep" => backoff' = Doubled(fails - 1)')
        => BackoffDoubles'
    BY DEF BackoffDoubles, Doublings, Doubled
  <1>4. CASE FetchOk \/ PushRejected
    BY <1>4, <1>3 DEF FetchOk, PushRejected
  <1>5. CASE FetchErr
    <2>1. /\ pc = "fetch" /\ pc' = "backoffSleep" /\ backoff' = backoff /\ interval' = interval
          /\ fails' = Least(fails + 1, FailsCap)
      BY <1>5 DEF FetchErr, FetchBegins
    <2>2. fails' > 0
      BY <2>1, <1>1 DEF Least
    <2>3. CASE fails < FailsCap
      <3>1. fails' = fails + 1
        BY <2>1, <2>3, <1>1 DEF Least
      <3>2. Doubled(fails - 1)' = Doubled(fails)
        BY <3>1, <2>1, <1>1 DEF Doubled
      <3> QED BY <3>2, <2>1, <2>2, <1>2, <1>3
    <2>4. CASE fails = FailsCap
      <3>1. fails' = fails /\ fails - 1 \in 6 .. FailsCap /\ fails \in 6 .. FailsCap
        BY <2>1, <2>4, <1>1 DEF Least
      <3>2. Doubled(fails - 1)' = Doubled(fails - 1)
        BY <3>1, <2>1 DEF Doubled
      <3>3. Doubled(fails - 1) = BACKOFF_CAP /\ Doubled(fails) = BACKOFF_CAP
        BY <3>1, <1>1, BeyondTheCount
      <3> QED BY <3>2, <3>3, <2>1, <2>2, <1>2, <1>3
    <2> QED BY <2>3, <2>4, <1>1
  <1>6. CASE PushAccepted \/ RetrySleep
    <2>1. /\ fails' = fails /\ fails = 0 /\ interval' = interval
          /\ \/ pc' = "push"
             \/ pc' = "pollSleep" /\ backoff' = interval
      BY <1>6 DEF PushAccepted, RetrySleep, RetryLoopEnds, BackoffAfterSuccess
    <2>2. Doubled(fails)' = interval
      BY <2>1 DEF Doubled
    <2> QED BY <2>1, <2>2, <1>3
  <1>7. CASE PollSleep
    <2>1. /\ pc = "pollSleep" /\ pc' = "fetch" /\ UNCHANGED <<fails, interval, backoff>>
      BY <1>7 DEF PollSleep, SleepToFetch
    <2>2. Doubled(fails)' = Doubled(fails)
      BY <2>1 DEF Doubled
    <2> QED BY <2>1, <2>2, <1>2, <1>3
  <1>8. CASE BackoffSleep
    <2>1. /\ pc = "backoffSleep" /\ pc' = "fetch" /\ UNCHANGED <<fails, interval>>
          /\ backoff' = NextBackoff(BackoffSleepSecs)
      BY <1>8 DEF BackoffSleep, SleepToFetch
    <2>2. BackoffSleepSecs = backoff
      BY <1>1, WidthAssumption DEF BackoffSleepSecs, Most
    <2>3. fails - 1 \in 0 .. FailsCap - 1 /\ (fails - 1) + 1 = fails
      BY <2>1, <1>1
    <2>4. backoff' = Doubled(fails)
      BY <2>1, <2>2, <2>3, <1>1, <1>2, NextDoubling
    <2>5. Doubled(fails)' = Doubled(fails)
      BY <2>1 DEF Doubled
    <2> QED BY <2>1, <2>4, <2>5, <1>3
  <1>9. CASE SourceChanges \/ SlidePolls \/ UNCHANGED vars
    <2>1. UNCHANGED <<pc, fails, interval, backoff>>
      BY <1>9 DEF SourceChanges, SlidePolls, vars, loopVars, histVars
    <2>2. Doubled(fails)' = Doubled(fails) /\ Doubled(fails - 1)' = Doubled(fails - 1)
      BY <2>1 DEF Doubled
    <2> QED BY <2>1, <2>2, <1>2, <1>3
  <1> QED BY <1>4, <1>5, <1>6, <1>7, <1>8, <1>9 DEF Next, LoopStep

(***************************************************************************)
(* The backoff is the interval doubled once per failure in a row and       *)
(* capped at 60 s, for every interval and every width of the backoff: the  *)
(* saturation never shows (src/poll.rs:91, :98-106).                       *)
(***************************************************************************)
THEOREM BackoffDoublesAlways == Spec => []BackoffDoubles
  <1>1. Init => FailuresCounted /\ BackoffDoubles
    BY DEF Init, FailuresCounted, BackoffDoubles, Doublings
  <1>2. IInv /\ FailuresCounted /\ BackoffDoubles /\ [Next]_vars
        => FailuresCounted' /\ BackoffDoubles'
    BY BackoffStep
  <1> QED BY <1>1, <1>2, Inductive, PTL DEF Spec
=============================================================================
