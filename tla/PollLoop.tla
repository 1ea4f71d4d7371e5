------------------------------ MODULE PollLoop ------------------------------
(***************************************************************************)
(* poll_loop and drive_once (src/poll.rs) over the host channel calls they *)
(* make (src/channel.rs).                                                  *)
(*                                                                         *)
(* The loop runs the caller's fetch closure, offers a fetched payload to   *)
(* the channel at most PUSH_RETRY_LIMIT times, one second apart, and       *)
(* sleeps for the interval; a failed fetch sleeps for the backoff instead. *)
(* Every sleep is announced to the host first, whose answer may cancel it. *)
(*                                                                         *)
(* A payload is the version of the remote data it was made from.  Time is  *)
(* the number of seconds slept since the latest fetch began, so the model  *)
(* is finite without a bound on the clock.                                 *)
(***************************************************************************)
EXTENDS Integers

CONSTANTS
  Requested,          \* the interval_secs arguments poll_loop is called with
  AnnounceStatuses,   \* what the host's announce_sleep may return
  U32Max,             \* the largest u32
  MaxVersion,         \* bound: versions the remote data goes through
  FailsCap            \* bound: consecutive failures counted

ASSUME RequestedAssumption == Requested \subseteq 0 .. U32Max
ASSUME StatusAssumption    == AnnounceStatuses \subseteq Int
ASSUME WidthAssumption     == U32Max \in Nat /\ U32Max > 120
ASSUME VersionAssumption   == MaxVersion \in Nat
ASSUME CapAssumption       == FailsCap \in Nat /\ FailsCap >= 7

PUSH_RETRY_LIMIT == 3
BACKOFF_CAP == 60

VARIABLES
  interval,   \* interval_secs of drive_once, never 0
  backoff,    \* *backoff
  pc,         \* the point drive_once has reached
  payload,    \* the version in the payload last fetched
  attempt,    \* the retry loop's counter
  pushed,     \* whether a push of this payload succeeded
  source,     \* environment: the current version of the remote data
  slot,       \* environment: the version in the host's channel
  seen,       \* environment: the version the slide has polled
  outcome,    \* history: how the latest fetch ended
  elapsed,    \* history: seconds slept since the latest fetch began
  skip,       \* history: what the host answered to the announcement of the
              \* poll or backoff sleep since then: nonzero if it was cancelled
  fails,      \* history: consecutive failed fetches, up to FailsCap
  offers,     \* history: channel_push calls made with this payload
  taken       \* history: those of them the host accepted

loopVars == <<interval, backoff, pc, payload, attempt, pushed>>
histVars == <<outcome, elapsed, skip, fails, offers, taken>>
vars == <<loopVars, source, slot, seen, histVars>>

Least(a, b) == IF a <= b THEN a ELSE b
Most(a, b) == IF a >= b THEN a ELSE b

Points == {"fetch", "push", "retrySleep", "pollSleep", "backoffSleep"}

TypeOK ==
  /\ interval \in 1 .. U32Max
  /\ backoff \in 1 .. U32Max
  /\ pc \in Points
  /\ payload \in 0 .. MaxVersion
  /\ attempt \in 0 .. PUSH_RETRY_LIMIT
  /\ pushed \in BOOLEAN
  /\ source \in 0 .. MaxVersion
  /\ slot \in 0 .. MaxVersion
  /\ seen \in 0 .. MaxVersion
  /\ outcome \in {"none", "ok", "err"}
  /\ elapsed \in Nat
  /\ skip \in AnnounceStatuses \cup {0}
  /\ fails \in 0 .. FailsCap
  /\ offers \in 0 .. PUSH_RETRY_LIMIT
  /\ taken \in 0 .. PUSH_RETRY_LIMIT
-----------------------------------------------------------------------------
(***************************************************************************)
(* Faulty variants of the definitions below.  No action uses them: each is *)
(* a slip the code could contain, put in the place of the definition it is *)
(* named after to see that some property notices.                          *)
(***************************************************************************)
NextBackoff_Wraps(secs) == Least((2 * secs) % (U32Max + 1), BACKOFF_CAP)
NextBackoff_Uncapped(secs) == Least(2 * secs, U32Max)
NextBackoff_Linear(secs) == Least(secs + interval, BACKOFF_CAP)
BackoffAfterSuccess_Kept == backoff
AttemptsLeft_Inclusive(n) == n <= PUSH_RETRY_LIMIT
PayloadFetched_Stale == payload
PayloadOffered_Consumed == IF attempt = 0 THEN payload ELSE 0
-----------------------------------------------------------------------------
\* interval_secs.max(1): poll_loop accepts 0 and treats it as 1.
EffectiveInterval(requested) == Most(requested, 1)

\* sleep_for.saturating_mul(2).min(60)
NextBackoff(secs) == Least(Least(2 * secs, U32Max), BACKOFF_CAP)

\* (*backoff).max(1)
BackoffSleepSecs == Most(backoff, 1)

\* *backoff = interval_secs, reached whether or not the payload was pushed.
BackoffAfterSuccess == interval

\* 0..PUSH_RETRY_LIMIT still has a value after n attempts.
AttemptsLeft(n) == n < PUSH_RETRY_LIMIT

\* What the fetch closure returns: the data as it is when it is fetched.
PayloadFetched == source

\* The argument of every channel_push: the payload is only borrowed.
PayloadOffered == payload

(***************************************************************************)
(* HostRuntime::sleep: announce the sleep, then sleep unless the status is *)
(* nonzero.                                                                *)
(***************************************************************************)
SleepCancelled(status) == status # 0

Sleep(secs, status) ==
  elapsed' = elapsed + IF SleepCancelled(status) THEN 0 ELSE secs

\* The sleep before the next fetch.
SleepToFetch(secs) ==
  /\ \E status \in AnnounceStatuses : Sleep(secs, status) /\ skip' = status
  /\ pc' = "fetch"

Init ==
  /\ \E requested \in Requested : interval = EffectiveInterval(requested)
  /\ backoff = interval
  /\ pc = "fetch"
  /\ payload = 0
  /\ attempt = 0
  /\ pushed = FALSE
  /\ source = 0
  /\ slot = 0
  /\ seen = 0
  /\ outcome = "none"
  /\ elapsed = 0
  /\ skip = 0
  /\ fails = 0
  /\ offers = 0
  /\ taken = 0
-----------------------------------------------------------------------------
\* fetch() begins: the histories are about what follows it.
FetchBegins ==
  /\ pc = "fetch"
  /\ elapsed' = 0
  /\ skip' = 0
  /\ UNCHANGED <<interval, backoff, source, slot, seen>>

FetchOk ==
  /\ FetchBegins
  /\ payload' = PayloadFetched
  /\ attempt' = 0
  /\ pushed' = FALSE
  /\ pc' = "push"
  /\ outcome' = "ok"
  /\ fails' = 0
  /\ offers' = 0
  /\ taken' = 0

FetchErr ==
  /\ FetchBegins
  /\ pc' = "backoffSleep"
  /\ outcome' = "err"
  /\ fails' = Least(fails + 1, FailsCap)
  /\ UNCHANGED <<payload, attempt, pushed, offers, taken>>

\* The retry loop is over, with or without success.
RetryLoopEnds ==
  /\ backoff' = BackoffAfterSuccess
  /\ pc' = "pollSleep"

\* channel_push returns 0: the payload is in the channel.
PushAccepted ==
  /\ pc = "push"
  /\ slot' = PayloadOffered
  /\ pushed' = TRUE
  /\ offers' = offers + 1
  /\ taken' = taken + 1
  /\ RetryLoopEnds
  /\ UNCHANGED <<interval, payload, attempt, source, seen, outcome, elapsed,
                 skip, fails>>

\* channel_push returns anything else: the host did not take the payload.
PushRejected ==
  /\ pc = "push"
  /\ offers' = offers + 1
  /\ pc' = "retrySleep"
  /\ UNCHANGED <<interval, backoff, payload, attempt, pushed, source, slot,
                 seen, outcome, elapsed, skip, fails, taken>>

\* runtime.sleep(1), taken after the last rejected push as well.
RetrySleep ==
  /\ pc = "retrySleep"
  /\ \E status \in AnnounceStatuses : Sleep(1, status)
  /\ attempt' = attempt + 1
  /\ \/ AttemptsLeft(attempt + 1) /\ pc' = "push" /\ UNCHANGED backoff
     \/ ~AttemptsLeft(attempt + 1) /\ RetryLoopEnds
  /\ UNCHANGED <<interval, payload, pushed, source, slot, seen, outcome,
                 skip, fails, offers, taken>>

PollSleep ==
  /\ pc = "pollSleep"
  /\ SleepToFetch(interval)
  /\ UNCHANGED <<interval, backoff, payload, attempt, pushed, source, slot,
                 seen, outcome, fails, offers, taken>>

BackoffSleep ==
  /\ pc = "backoffSleep"
  /\ SleepToFetch(BackoffSleepSecs)
  /\ backoff' = NextBackoff(BackoffSleepSecs)
  /\ UNCHANGED <<interval, payload, attempt, pushed, source, slot, seen,
                 outcome, fails, offers, taken>>
-----------------------------------------------------------------------------
\* The remote data changes, at any moment.
SourceChanges ==
  /\ source < MaxVersion
  /\ source' = source + 1
  /\ UNCHANGED <<loopVars, slot, seen, histVars>>

\* The slide side of the channel polls the latest payload.
SlidePolls ==
  /\ seen # slot
  /\ seen' = slot
  /\ UNCHANGED <<loopVars, source, slot, histVars>>

LoopStep ==
  \/ FetchOk
  \/ FetchErr
  \/ PushAccepted
  \/ PushRejected
  \/ RetrySleep
  \/ PollSleep
  \/ BackoffSleep

Next == LoopStep \/ SourceChanges \/ SlidePolls

Spec == Init /\ [][Next]_vars

(***************************************************************************)
(* The loop never returns and every host call it makes does, so it keeps   *)
(* taking steps.  Strong fairness of FetchOk and PushAccepted is not the   *)
(* code's doing: it says that the network and the host do not fail for     *)
(* ever.                                                                   *)
(***************************************************************************)
Fairness ==
  /\ WF_vars(LoopStep)
  /\ WF_vars(SlidePolls)
  /\ SF_vars(FetchOk)
  /\ SF_vars(PushAccepted)

FairSpec == Spec /\ Fairness
-----------------------------------------------------------------------------
(***************************************************************************)
(* When the loop comes back to fetch and the host did not cancel the sleep *)
(* before it, it has slept the whole interval after a success and at least *)
(* the smaller of interval and 60 s after a failure.  Neither a run of     *)
(* failures, nor a zero interval, nor the width of the backoff makes it    *)
(* poll in a tight loop; and a refresh the host asks for during a retry    *)
(* pause ends that pause and does not bring the next fetch forward         *)
(* (src/poll.rs:18, :83, :91, :98, :106).                                  *)
(***************************************************************************)
PollSpacing ==
  pc = "fetch" /\ outcome # "none" /\ ~SleepCancelled(skip) =>
    elapsed >= IF outcome = "ok" THEN interval ELSE Least(interval, BACKOFF_CAP)

(***************************************************************************)
(* The loop never goes quiet for longer than its longest sleep and the     *)
(* retry pauses before it, however long the fetches have been failing: a   *)
(* recovered source is asked again within that time (src/poll.rs:65-106).  *)
(***************************************************************************)
BoundedSilence ==
  elapsed <= Most(interval, BACKOFF_CAP) + PUSH_RETRY_LIMIT

(***************************************************************************)
(* The backoff is a function of the number of failures in a row: the       *)
(* interval, doubled once per failure and capped at 60 s from the first    *)
(* failure on; one success forgets them all (src/poll.rs:91, :106).        *)
(***************************************************************************)
Doublings == IF pc = "backoffSleep" THEN fails - 1 ELSE fails

PowerOfTwo[n \in 0 .. FailsCap] == IF n = 0 THEN 1 ELSE 2 * PowerOfTwo[n - 1]

BackoffDoubles ==
  pc \in {"fetch", "pollSleep", "backoffSleep"} =>
    backoff = IF Doublings = 0 THEN interval
              ELSE Least(interval * PowerOfTwo[Doublings], BACKOFF_CAP)

(***************************************************************************)
(* A fetched payload is settled before the next fetch: the host took it    *)
(* exactly once and it is what the channel holds, or the host refused it   *)
(* PUSH_RETRY_LIMIT times and it is dropped.  It is never offered again    *)
(* after it was taken (src/poll.rs:65-85).                                 *)
(***************************************************************************)
EveryPayloadSettled ==
  outcome = "ok" /\ pc \in {"pollSleep", "fetch"} =>
    \/ pushed /\ taken = 1 /\ offers <= PUSH_RETRY_LIMIT /\ slot = payload
    \/ ~pushed /\ taken = 0 /\ offers = PUSH_RETRY_LIMIT

(***************************************************************************)
(* The slide's view is a lossy feed of the remote data: the channel never  *)
(* goes back to an older version, although a payload may be pushed long    *)
(* after it was fetched, and never holds a version that was not fetched    *)
(* (src/poll.rs:61-81 implements LatestValueFeed).                         *)
(***************************************************************************)
Feed == INSTANCE LatestValueFeed

ImplementsFeed == Feed!FeedSpec

(***************************************************************************)
(* Once the remote data stops changing the slide ends up showing it, if    *)
(* fetches and pushes do not fail for ever: failures and dropped payloads  *)
(* only delay it (src/poll.rs:20-22).                                      *)
(***************************************************************************)
Converges == <>[](seen = source)

(***************************************************************************)
(* The comment in HostRuntime::sleep (src/poll.rs:38-39): the host returns *)
(* 1 to skip the sleep, so a loop back at fetch early was asked to be.     *)
(***************************************************************************)
DocSkipOnlyOnRequest ==
  /\ pc = "fetch"
  /\ outcome # "none"
  /\ elapsed < Least(interval, BACKOFF_CAP)
  => skip = 1
=============================================================================
