---------------------------- MODULE SidecarProofs ----------------------------
(***************************************************************************)
(* Proofs about Sidecar: the composition keeps what its parts promise, and *)
(* the spans it opens nest and end.                                        *)
(*                                                                         *)
(* The data.  The invariants of the loop and of the conditional GET hold   *)
(* in the composition, because each action is an action of one of them:    *)
(* to the loop, whose data is the body the caller keeps, a request is a    *)
(* source that moves on while it waits.  What joins them is Composed: a    *)
(* call that succeeds leaves the body that was served, so this is what the *)
(* loop fetches and pushes.                                                *)
(*                                                                         *)
(* The spans.  The guards that are alive at a point of the program are     *)
(* known by name, and distinct (GuardsHere), so each operation on the      *)
(* innermost one needs to be looked at once, for any stack of guards       *)
(* (Opening, Marking, Dropping, Ending), and each action is a few of them. *)
(***************************************************************************)
EXTENDS Sidecar, InductionFacts, SequenceTheorems

GetP == INSTANCE ConditionalGetProofs WITH pc <- getPc, outcome <- answered
LoopP == INSTANCE PollLoopProofs WITH pc <- loopPc, source <- Returned, outcome <- fetched

\* The loop and the request that Sidecar composes are the ones of the proofs.
LEMMA SameLoop ==
  /\ Loop!Init => LoopP!Init
  /\ Loop!FetchOk => LoopP!FetchOk
  /\ Loop!FetchErr => LoopP!FetchErr
  /\ Loop!PushAccepted => LoopP!PushAccepted
  /\ Loop!PushRejected => LoopP!PushRejected
  /\ Loop!RetrySleep => LoopP!RetrySleep
  /\ Loop!PollSleep => LoopP!PollSleep
  /\ Loop!BackoffSleep => LoopP!BackoffSleep
  /\ Loop!SlidePolls => LoopP!SlidePolls
  /\ LoopP!TypeOK => Loop!TypeOK
  <1>1. Loop!Init => LoopP!Init
    BY DEF Loop!Init, Loop!EffectiveInterval, Loop!Most,
         LoopP!Init, LoopP!EffectiveInterval, LoopP!Most
  <1>2. Loop!FetchOk => LoopP!FetchOk
    BY DEF Loop!FetchOk, Loop!FetchBegins, Loop!PayloadFetched,
         LoopP!FetchOk, LoopP!FetchBegins, LoopP!PayloadFetched
  <1>3. Loop!FetchErr => LoopP!FetchErr
    BY DEF Loop!FetchErr, Loop!FetchBegins, Loop!Least,
         LoopP!FetchErr, LoopP!FetchBegins, LoopP!Least
  <1>4. Loop!PushAccepted => LoopP!PushAccepted
    BY DEF Loop!PushAccepted, Loop!PayloadOffered, Loop!RetryLoopEnds, Loop!BackoffAfterSuccess,
         LoopP!PushAccepted, LoopP!PayloadOffered, LoopP!RetryLoopEnds, LoopP!BackoffAfterSuccess
  <1>5. Loop!PushRejected => LoopP!PushRejected
    BY DEF Loop!PushRejected,
         LoopP!PushRejected
  <1>6. Loop!RetrySleep => LoopP!RetrySleep
    BY DEF Loop!RetrySleep, Loop!Sleep, Loop!SleepCancelled, Loop!AttemptsLeft, Loop!RetryLoopEnds, Loop!BackoffAfterSuccess, Loop!PUSH_RETRY_LIMIT,
         LoopP!RetrySleep, LoopP!Sleep, LoopP!SleepCancelled, LoopP!AttemptsLeft, LoopP!RetryLoopEnds, LoopP!BackoffAfterSuccess, LoopP!PUSH_RETRY_LIMIT
  <1>7. Loop!PollSleep => LoopP!PollSleep
    BY DEF Loop!PollSleep, Loop!SleepToFetch, Loop!Sleep, Loop!SleepCancelled,
         LoopP!PollSleep, LoopP!SleepToFetch, LoopP!Sleep, LoopP!SleepCancelled
  <1>8. Loop!BackoffSleep => LoopP!BackoffSleep
    BY DEF Loop!BackoffSleep, Loop!SleepToFetch, Loop!Sleep, Loop!SleepCancelled, Loop!BackoffSleepSecs, Loop!NextBackoff, Loop!Least, Loop!Most, Loop!BACKOFF_CAP,
         LoopP!BackoffSleep, LoopP!SleepToFetch, LoopP!Sleep, LoopP!SleepCancelled, LoopP!BackoffSleepSecs, LoopP!NextBackoff, LoopP!Least, LoopP!Most, LoopP!BACKOFF_CAP
  <1>9. Loop!SlidePolls => LoopP!SlidePolls
    BY DEF Loop!SlidePolls, Loop!loopVars, Loop!histVars,
         LoopP!SlidePolls, LoopP!loopVars, LoopP!histVars
  <1>10. LoopP!TypeOK => Loop!TypeOK
    BY DEF Loop!TypeOK, Loop!Points, Loop!PUSH_RETRY_LIMIT,
         LoopP!TypeOK, LoopP!Points, LoopP!PUSH_RETRY_LIMIT
  <1> QED BY <1>1, <1>2, <1>3, <1>4, <1>5, <1>6, <1>7, <1>8, <1>9, <1>10

\* The same for the request.
LEMMA SameRequest ==
  /\ Get!Init => GetP!Init
  /\ Get!Call => GetP!Call
  /\ Get!ServerAnswers => GetP!ServerAnswers
  /\ Get!ExchangeFails => GetP!ExchangeFails
  /\ Get!CallReturns => GetP!CallReturns
  /\ Get!ResourceChanges => GetP!ResourceChanges
  /\ GetP!TypeOK => Get!TypeOK
  <1> USE DEF Get!callerVars, Get!NoBody, Get!Names,
         GetP!callerVars, GetP!NoBody, GetP!Names
  <1>1. Get!Init => GetP!Init
    BY DEF Get!Init, Get!NoValidators, Get!NoResponse,
         GetP!Init, GetP!NoValidators, GetP!NoResponse
  <1>2. Get!Call => GetP!Call
    BY DEF Get!Call, Get!Conditions, Get!ConditionOf,
         GetP!Call, GetP!Conditions, GetP!ConditionOf
  <1>3. Get!ServerAnswers => GetP!ServerAnswers
    BY DEF Get!ServerAnswers, Get!Answers, Get!NotModified, Get!header_value, Get!SomeOf, Get!ValidatorsOf, Get!Refusals, Get!ErrorPage,
         GetP!ServerAnswers, GetP!Answers, GetP!NotModified, GetP!header_value, GetP!SomeOf, GetP!ValidatorsOf, GetP!Refusals, GetP!ErrorPage
  <1>4. Get!ExchangeFails => GetP!ExchangeFails
    BY DEF Get!ExchangeFails, Get!NoResponse, Get!NoValidators,
         GetP!ExchangeFails, GetP!NoResponse, GetP!NoValidators
  <1>5. Get!CallReturns => GetP!CallReturns
    BY DEF Get!CallReturns, Get!https_get_conditional, Get!Ok, Get!Err, Get!Successful, Get!ValidatorsOf304, Get!ValidatorsOf200, Get!OrElse, Get!Bridged, Get!header_value, Get!headers_from_response, Get!NoResponse, Get!NoValidators,
         GetP!CallReturns, GetP!https_get_conditional, GetP!Ok, GetP!Err, GetP!Successful, GetP!ValidatorsOf304, GetP!ValidatorsOf200, GetP!OrElse, GetP!Bridged, GetP!header_value, GetP!headers_from_response, GetP!NoResponse, GetP!NoValidators
  <1>6. Get!ResourceChanges => GetP!ResourceChanges
    BY DEF Get!ResourceChanges,
         GetP!ResourceChanges
  <1>7. GetP!TypeOK => Get!TypeOK
    BY DEF Get!TypeOK, Get!Versions, Get!Validators, Get!Responses, Get!Refusals, Get!ErrorPage,
         GetP!TypeOK, GetP!Versions, GetP!Validators, GetP!Responses, GetP!Refusals, GetP!ErrorPage
  <1> QED BY <1>1, <1>2, <1>3, <1>4, <1>5, <1>6, <1>7

\* What the proofs of the parts assume is what Sidecar assumes.
LEMMA RequestAssumed ==
  /\ GetP!VersionAssumption
  /\ GetP!TagAssumption
  /\ GetP!StampAssumption
  BY GetAssumption DEF Get!Versions, GetP!Versions

LEMMA LoopAssumed ==
  /\ LoopP!RequestedAssumption
  /\ LoopP!StatusAssumption
  /\ LoopP!WidthAssumption
  /\ LoopP!VersionAssumption
  /\ LoopP!CapAssumption
  BY LoopAssumption
-----------------------------------------------------------------------------
(***************************************************************************)
(* The data: what the loop fetches, pushes and shows is what was served.   *)
(***************************************************************************)
\* Where the closure is fits where the loop and the request are, and what
\* the loop holds after a fetch is what the request got.
Composed ==
  /\ closure \in {"idle", "running", "returned"}
  /\ closure # "idle" => loopPc = "fetch"
  /\ (closure = "running") <=> (getPc # "idle")
  /\ getPc = "answered" => body <= served
  /\ answered = "ok" => body \in Get!Versions
  /\ loopPc \in {"push", "retrySleep", "pollSleep"} => payload = served

\* The invariant about data: those of the parts, and what joins them.
DInv == LoopP!IInv /\ GetP!IInv /\ Composed

\* The versions of a feed, in the order in which the data passes them on.
LEMMA FeedOrder ==
  ASSUME DInv
  PROVE  /\ slot \in 0 .. MaxVersion /\ payload \in 0 .. MaxVersion
         /\ current \in 0 .. MaxVersion /\ seen \in 0 .. MaxVersion
         /\ slot <= payload /\ payload <= Returned /\ Returned <= current
  <1>1. LoopP!TypeOK /\ LoopP!VersionOrder
    BY DEF DInv, LoopP!IInv
  <1>2. GetP!TypeOK /\ GetP!Order
    BY DEF DInv, GetP!IInv
  <1>3. Returned <= current
    BY <1>2 DEF GetP!TypeOK, GetP!Order, GetP!Versions, Returned, Get!NoBody
  <1> QED BY <1>1, <1>2, <1>3 DEF LoopP!TypeOK, LoopP!VersionOrder, GetP!TypeOK, GetP!Versions

\* A step of the loop, which the data is not part of.
LEMMA LoopStepKeeps ==
  ASSUME LoopP!IInv,
         \/ Loop!FetchOk \/ Loop!FetchErr \/ Loop!PushAccepted \/ Loop!PushRejected
         \/ Loop!RetrySleep \/ Loop!PollSleep \/ Loop!BackoffSleep \/ Loop!SlidePolls
  PROVE  LoopP!IInv'
  <1>1. CASE Loop!FetchOk
    BY <1>1, SameLoop, LoopAssumed, LoopP!FetchOkPreserves
  <1>2. CASE Loop!FetchErr
    BY <1>2, SameLoop, LoopAssumed, LoopP!FetchErrPreserves
  <1>3. CASE Loop!PushAccepted
    BY <1>3, SameLoop, LoopAssumed, LoopP!PushAcceptedPreserves
  <1>4. CASE Loop!PushRejected
    BY <1>4, SameLoop, LoopAssumed, LoopP!PushRejectedPreserves
  <1>5. CASE Loop!RetrySleep
    BY <1>5, SameLoop, LoopAssumed, LoopP!RetrySleepPreserves
  <1>6. CASE Loop!PollSleep
    BY <1>6, SameLoop, LoopAssumed, LoopP!PollSleepPreserves
  <1>7. CASE Loop!BackoffSleep
    BY <1>7, SameLoop, LoopAssumed, LoopP!BackoffSleepPreserves
  <1>8. CASE Loop!SlidePolls
    BY <1>8, SameLoop, LoopAssumed, LoopP!EnvironmentPreserves
  <1> QED BY <1>1, <1>2, <1>3, <1>4, <1>5, <1>6, <1>7, <1>8

\* The data moves on by any number of versions while the loop waits for it.
LEMMA DataGrows ==
  ASSUME LoopP!IInv, UNCHANGED loopVars,
         Returned' \in 0 .. MaxVersion, Returned <= Returned'
  PROVE  LoopP!IInv'
  <1> USE DEF LoopP!IInv, loopVars
  <1>1. LoopP!TypeOK'
    BY DEF LoopP!TypeOK
  <1>2. LoopP!BackoffRange' /\ LoopP!OutcomeAtPoint' /\ LoopP!RetryProgress' /\ LoopP!RetrySeconds'
    BY DEF LoopP!BackoffRange, LoopP!OutcomeAtPoint, LoopP!RetryProgress, LoopP!RetrySeconds
  <1>3. LoopP!VersionOrder'
    <2>1. slot' = slot /\ payload' = payload
      OBVIOUS
    <2>2. payload \in Int /\ Returned \in Int
      BY DEF LoopP!TypeOK
    <2> QED BY <2>1, <2>2 DEF LoopP!VersionOrder
  <1>4. LoopP!PollSpacing' /\ LoopP!BoundedSilence' /\ LoopP!EveryPayloadSettled'
    BY DEF LoopP!PollSpacing, LoopP!BoundedSilence, LoopP!EveryPayloadSettled
  <1> QED BY <1>1, <1>2, <1>3, <1>4

\* A step of the request, and of nothing else.
LEMMA GetStepKeeps ==
  ASSUME GetP!IInv,
         \/ Get!Call \/ Get!ServerAnswers \/ Get!ExchangeFails \/ Get!CallReturns
         \/ Get!ResourceChanges
  PROVE  GetP!IInv'
  <1>1. GetP!Next
    BY SameRequest DEF GetP!Next
  <1> QED BY <1>1, RequestAssumed, GetP!NextPreserves

\* What a call that returns does to the body that is kept.
LEMMA CallReturnsEffect ==
  ASSUME DInv, Get!CallReturns
  PROVE  /\ GetP!IInv'
         /\ answered' \in {"ok", "err"}
         /\ body' = IF answered' = "ok" THEN served ELSE body
         /\ served' = served /\ served \in Get!Versions
         /\ getPc = "answered" /\ getPc' = "idle"
         /\ current' = current
  <1>1. GetP!IInv'
    BY GetStepKeeps DEF DInv
  <1>2. /\ getPc = "answered" /\ getPc' = "idle" /\ served' = served /\ current' = current
        /\ \/ answered' = "ok"
           \/ answered' = "err" /\ body' = body
    BY DEF Get!CallReturns, Get!callerVars
  <1>3. answered' = "ok" => body' = served
    BY <1>1, <1>2 DEF GetP!IInv, GetP!UpToDate
  <1>4. served \in Get!Versions
    BY <1>2 DEF DInv, GetP!IInv, GetP!AnswerHonest, GetP!Versions, Get!Versions
  <1> QED BY <1>1, <1>2, <1>3, <1>4

LEMMA DataInit == ASSUME Init PROVE DInv
  <1>1. LoopP!IInv
    BY SameLoop, LoopAssumed, LoopP!InitEstablishesIInv DEF Init
  <1>2. GetP!IInv
    BY SameRequest, RequestAssumed, GetP!InitHolds DEF Init
  <1>3. Composed
    BY DEF Composed, Init, Get!Init, Loop!Init
  <1> QED BY <1>1, <1>2, <1>3 DEF DInv

\* A step of the request that has no result.
LEMMA RequestKeepsData ==
  ASSUME DInv, UNCHANGED loopVars, UNCHANGED body, answered' \in {answered, "err"}, GetP!IInv',
         closure' \in {"idle", "running", "returned"},
         closure' # "idle" => loopPc = "fetch",
         (closure' = "running") <=> (getPc' # "idle"),
         getPc' = "answered" => body <= served',
         served' = served \/ loopPc = "fetch"
  PROVE  DInv'
  <1>1. LoopP!IInv'
    <2>1. LoopP!IInv /\ Returned' = Returned
      BY DEF DInv, Returned
    <2>2. Returned \in 0 .. MaxVersion /\ Returned <= Returned
      BY <2>1 DEF LoopP!IInv, LoopP!TypeOK
    <2> QED BY <2>1, <2>2, DataGrows
  <1>2. Composed'
    BY DEF DInv, Composed, loopVars
  <1> QED BY <1>1, <1>2 DEF DInv

\* The closure starts, with a request.
LEMMA FetchStartsKeepsData == ASSUME DInv, FetchStarts PROVE DInv'
  <1>1. GetP!IInv'
    BY GetStepKeeps DEF FetchStarts, DInv
  <1>2. /\ loopPc = "fetch" /\ closure' = "running" /\ getPc' = "sent"
        /\ UNCHANGED <<body, served, answered, loopVars>>
    BY DEF FetchStarts, Get!Call, Get!callerVars
  <1> QED BY <1>1, <1>2, RequestKeepsData

\* What is served cannot be older than the body that is kept.
LEMMA ServerAnswersKeepsData == ASSUME DInv, ServerAnswers PROVE DInv'
  <1>1. GetP!IInv'
    BY GetStepKeeps DEF ServerAnswers, DInv
  <1>2. /\ getPc = "sent" /\ getPc' = "answered" /\ served' = current
        /\ UNCHANGED <<body, answered, closure, loopVars>>
    BY DEF ServerAnswers, Get!ServerAnswers, Get!callerVars
  <1>3. body <= current
    BY DEF DInv, GetP!IInv, GetP!Order
  <1>4. closure = "running" /\ loopPc = "fetch"
    BY <1>2 DEF DInv, Composed
  <1> QED BY <1>1, <1>2, <1>3, <1>4, RequestKeepsData

\* A request that fails leaves the body as it is.
LEMMA RequestFailsKeepsData == ASSUME DInv, RequestFails PROVE DInv'
  <1>1. GetP!IInv'
    BY GetStepKeeps DEF RequestFails, DInv
  <1>2. /\ getPc \in {"sent", "answered"} /\ getPc' = "idle" /\ closure' = "returned"
        /\ answered' = "err" /\ UNCHANGED <<body, served, loopVars>>
    BY DEF RequestFails, Get!ExchangeFails, Get!callerVars
  <1>3. closure = "running" /\ loopPc = "fetch"
    BY <1>2 DEF DInv, Composed
  <1> QED BY <1>1, <1>2, <1>3, RequestKeepsData

\* To the loop, a request that returns is data that moved on.
LEMMA RequestReturnsKeepsData == ASSUME DInv, RequestReturns PROVE DInv'
  <1>1. closure' = "returned" /\ UNCHANGED loopVars /\ Get!CallReturns
    BY DEF RequestReturns
  <1>2. /\ GetP!IInv'
        /\ answered' \in {"ok", "err"}
        /\ body' = IF answered' = "ok" THEN served ELSE body
        /\ served' = served /\ served \in Get!Versions
        /\ getPc = "answered" /\ getPc' = "idle"
    BY <1>1, CallReturnsEffect
  <1>3. closure = "running" /\ loopPc = "fetch" /\ body <= served
    BY <1>2 DEF DInv, Composed
  <1>4. body \in Int /\ served \in 0 .. MaxVersion /\ Returned \in 0 .. MaxVersion
    BY <1>2 DEF DInv, GetP!IInv, GetP!TypeOK, GetP!Versions, GetP!NoBody, Get!Versions,
       LoopP!IInv, LoopP!TypeOK
  <1>5. Returned' \in 0 .. MaxVersion /\ Returned <= Returned'
    BY <1>2, <1>3, <1>4 DEF Returned, Get!NoBody
  <1>6. LoopP!IInv'
    BY <1>1, <1>5, DataGrows DEF DInv
  <1>7. Composed'
    BY <1>1, <1>2, <1>3 DEF Composed, loopVars
  <1> QED BY <1>2, <1>6, <1>7 DEF DInv

\* A step that the request has no part in.
LEMMA GetUnchanged == ASSUME GetP!IInv, UNCHANGED getVars PROVE GetP!IInv'
  <1>1. UNCHANGED GetP!vars
    BY DEF getVars, GetP!vars, GetP!callerVars
  <1> QED BY <1>1, RequestAssumed, GetP!NextPreserves

\* What the loop fetches is the body that was served.
LEMMA FetchReturnsKeepsData == ASSUME DInv, FetchReturns PROVE DInv'
  <1>1. /\ closure = "returned" /\ closure' = "idle" /\ UNCHANGED getVars
        /\ \/ answered = "ok" /\ Loop!FetchOk
           \/ answered = "err" /\ Loop!FetchErr
    BY DEF FetchReturns
  <1>2. LoopP!IInv' /\ GetP!IInv'
    BY <1>1, LoopStepKeeps, GetUnchanged DEF DInv
  <1>3. Composed'
    <2>1. getPc = "idle"
      BY <1>1 DEF DInv, Composed
    <2>2. CASE answered = "ok" /\ Loop!FetchOk
      <3>1. loopPc' = "push" /\ payload' = Returned
        BY <2>2 DEF Loop!FetchOk, Loop!PayloadFetched
      <3>2. body = served /\ body \in Get!Versions
        BY <2>1, <2>2 DEF DInv, Composed, GetP!IInv, GetP!UpToDate
      <3>3. payload' = served
        BY <3>1, <3>2, LoopAssumption, GetAssumption DEF Returned, Get!NoBody, Get!Versions
      <3> QED BY <1>1, <2>1, <3>1, <3>3 DEF DInv, Composed, getVars
    <2>3. CASE answered = "err" /\ Loop!FetchErr
      <3>1. loopPc' = "backoffSleep"
        BY <2>3 DEF Loop!FetchErr
      <3> QED BY <1>1, <2>1, <3>1 DEF DInv, Composed, getVars
    <2> QED BY <1>1, <2>2, <2>3
  <1> QED BY <1>2, <1>3 DEF DInv

\* After the fetch the loop holds on to it, while no request is under way.
LEMMA LoopKeepsData ==
  ASSUME DInv, PushAccepted \/ PushRejected \/ RetrySleep \/ PollSleep \/ BackoffSleep \/ SlidePolls
  PROVE  DInv'
  <1>1. /\ UNCHANGED <<getVars, closure>>
        /\ \/ Loop!PushAccepted \/ Loop!PushRejected \/ Loop!RetrySleep
           \/ Loop!PollSleep \/ Loop!BackoffSleep \/ Loop!SlidePolls
    BY DEF PushAccepted, PushRejected, RetrySleep, PollSleep, BackoffSleep, SlidePolls
  <1>2. LoopP!IInv' /\ GetP!IInv'
    BY <1>1, LoopStepKeeps, GetUnchanged DEF DInv
  <1>3. /\ payload' = payload
        /\ loopPc' = loopPc \/ loopPc' = "fetch"
           \/ loopPc \in {"push", "retrySleep", "pollSleep"}
        /\ loopPc = "fetch" => loopPc' = "fetch"
    BY <1>1 DEF Loop!PushAccepted, Loop!PushRejected, Loop!RetrySleep, Loop!PollSleep,
       Loop!BackoffSleep, Loop!SleepToFetch, Loop!SlidePolls, Loop!loopVars
  <1>4. Composed'
    BY <1>1, <1>3 DEF DInv, Composed, getVars
  <1> QED BY <1>2, <1>4 DEF DInv

\* The resource changes, and neither the body nor the loop notices.
LEMMA EnvironmentKeepsData ==
  ASSUME DInv, ResourceChanges \/ UNCHANGED vars
  PROVE  DInv'
  <1>1. UNCHANGED <<loopVars, closure, body, answered, served, getPc>>
    BY DEF ResourceChanges, Get!ResourceChanges, Get!callerVars, vars, getVars
  <1>2. GetP!IInv'
    <2>1. CASE ResourceChanges
      BY <2>1, GetStepKeeps DEF ResourceChanges, DInv
    <2>2. CASE UNCHANGED vars
      BY <2>2, GetUnchanged DEF vars, DInv
    <2> QED BY <2>1, <2>2
  <1> QED BY <1>1, <1>2, RequestKeepsData DEF DInv, Composed

LEMMA DataNext == ASSUME DInv, [Next]_vars PROVE DInv'
  <1>1. CASE FetchStarts      BY <1>1, FetchStartsKeepsData
  <1>2. CASE ServerAnswers    BY <1>2, ServerAnswersKeepsData
  <1>3. CASE RequestFails     BY <1>3, RequestFailsKeepsData
  <1>4. CASE RequestReturns   BY <1>4, RequestReturnsKeepsData
  <1>5. CASE FetchReturns     BY <1>5, FetchReturnsKeepsData
  <1>6. CASE PushAccepted \/ PushRejected \/ RetrySleep \/ PollSleep \/ BackoffSleep \/ SlidePolls
    BY <1>6, LoopKeepsData
  <1>7. CASE ResourceChanges \/ UNCHANGED vars
    BY <1>7, EnvironmentKeepsData
  <1> QED BY <1>1, <1>2, <1>3, <1>4, <1>5, <1>6, <1>7 DEF Next, Program

(***************************************************************************)
(* The loop and the conditional GET keep their invariants in a sidecar,    *)
(* and agree on the data they hand to each other (src/poll.rs:61,          *)
(* src/lib.rs:144-158).                                                    *)
(***************************************************************************)
THEOREM DataInductive == Spec => []DInv
  <1>1. Init => DInv
    BY DataInit
  <1>2. DInv /\ [Next]_vars => DInv'
    BY DataNext
  <1> QED BY <1>1, <1>2, PTL DEF Spec

(***************************************************************************)
(* What an iteration pushes is what the server had when it answered in     *)
(* that iteration (src/lib.rs:144-158, src/poll.rs:61-81).                 *)
(***************************************************************************)
THEOREM PushesWhatWasServedAlways == Spec => []PushesWhatWasServed
  <1>1. DInv => PushesWhatWasServed
    BY DEF DInv, Composed, PushesWhatWasServed, LoopP!IInv, LoopP!OutcomeAtPoint,
       LoopP!EveryPayloadSettled
  <1> QED BY <1>1, DataInductive, PTL

(***************************************************************************)
(* From the server to the slide a sidecar is a lossy feed: a push moves    *)
(* the channel to a version between the one it holds and the server's      *)
(* (FeedOrder), and nothing else moves it (src/poll.rs:61-84,              *)
(* src/lib.rs:144-158).                                                    *)
(***************************************************************************)
THEOREM FeedImplemented == Spec => ImplementsFeed
  <1>1. Init => Feed!FeedInit
    BY DEF Init, Get!Init, Loop!Init, Feed!FeedInit
  <1>2. DInv /\ [Next]_vars => [Feed!FeedNext]_(Feed!feedVars)
    <2> SUFFICES ASSUME DInv, [Next]_vars PROVE [Feed!FeedNext]_(Feed!feedVars)
      OBVIOUS
    <2> USE DEF Feed!feedVars
    <2>1. CASE PushAccepted
      <3>1. slot' = payload /\ current' = current /\ seen' = seen
        BY <2>1 DEF PushAccepted, Loop!PushAccepted, Loop!PayloadOffered, getVars
      <3>2. /\ slot \in 0 .. MaxVersion /\ payload \in 0 .. MaxVersion
            /\ current \in 0 .. MaxVersion /\ Returned \in 0 .. MaxVersion
            /\ slot <= payload /\ payload <= Returned /\ Returned <= current
        BY FeedOrder DEF DInv, LoopP!IInv, LoopP!TypeOK
      <3>3. slot' = slot \/ slot' \in (slot + 1) .. current
        BY <3>1, <3>2
      <3> QED BY <3>1, <3>3 DEF Feed!FeedNext, Feed!Publish
    <2>2. CASE ResourceChanges
      <3>1. Get!ResourceChanges /\ slot' = slot /\ seen' = seen
        BY <2>2 DEF ResourceChanges, loopVars
      <3> QED BY <3>1 DEF Get!ResourceChanges, Feed!FeedNext, Feed!Change
    <2>3. CASE SlidePolls
      <3>1. Loop!SlidePolls /\ current' = current
        BY <2>3 DEF SlidePolls, getVars
      <3> QED BY <3>1 DEF Loop!SlidePolls, Feed!FeedNext, Feed!Pickup
    <2>4. CASE FetchStarts \/ ServerAnswers \/ RequestFails \/ RequestReturns
      BY <2>4 DEF FetchStarts, ServerAnswers, RequestFails, RequestReturns, loopVars,
         Get!Call, Get!ServerAnswers, Get!ExchangeFails, Get!CallReturns
    <2>5. CASE FetchReturns
      BY <2>5 DEF FetchReturns, getVars, Loop!FetchOk, Loop!FetchErr, Loop!FetchBegins
    <2>6. CASE PushRejected \/ RetrySleep \/ PollSleep \/ BackoffSleep
      BY <2>6 DEF PushRejected, RetrySleep, PollSleep, BackoffSleep, getVars,
         Loop!PushRejected, Loop!RetrySleep, Loop!PollSleep, Loop!BackoffSleep
    <2>7. CASE UNCHANGED vars
      BY <2>7 DEF vars, getVars, loopVars
    <2> QED BY <2>1, <2>2, <2>3, <2>4, <2>5, <2>6, <2>7 DEF Next, Program
  <1> QED BY <1>1, <1>2, DataInductive, PTL DEF Spec, ImplementsFeed, Feed!FeedSpec
-----------------------------------------------------------------------------
(***************************************************************************)
(* Sequences of guards, and the spans of those that are alive.             *)
(***************************************************************************)
\* A sequence that is not empty is its front and its last element.
LEMMA FrontAndLast ==
  ASSUME NEW S, NEW s \in Seq(S), s # << >>
  PROVE  /\ Len(s) \in Nat \ {0}
         /\ Trace!Front(s) \in Seq(S) /\ Trace!Last(s) \in S
         /\ Len(Trace!Front(s)) = Len(s) - 1
         /\ \A i \in 1 .. Len(s) - 1 : Trace!Front(s)[i] = s[i]
         /\ Trace!Last(s) = s[Len(s)]
         /\ s = Append(Trace!Front(s), Trace!Last(s))
  <1>1. Len(s) \in Nat \ {0} /\ \A i \in 1 .. Len(s) : s[i] \in S
    BY EmptySeq
  <1>2. Trace!Front(s) = SubSeq(s, 1, Len(s) - 1) /\ Trace!Last(s) = s[Len(s)]
    BY DEF Trace!Front, Trace!Last
  <1> DEFINE f == SubSeq(s, 1, Len(s) - 1)
  <1>3. f \in Seq(S) /\ Len(f) = Len(s) - 1 /\ \A i \in 1 .. Len(s) - 1 : f[i] = s[i]
    <2> DEFINE n == Len(s) - 1
    <2>1. n \in Nat /\ \A i \in 1 .. n : s[i] \in S
      BY <1>1
    <2> HIDE DEF n
    <2>2. /\ SubSeq(s, 1, n) \in Seq(S)
          /\ Len(SubSeq(s, 1, n)) = IF 1 <= n THEN n - 1 + 1 ELSE 0
          /\ \A i \in 1 .. n - 1 + 1 : SubSeq(s, 1, n)[i] = s[1 + i - 1]
      BY <2>1, SubSeqProperties
    <2>3. /\ (IF 1 <= n THEN n - 1 + 1 ELSE 0) = n
          /\ \A i \in 1 .. n : i \in 1 .. n - 1 + 1 /\ 1 + i - 1 = i
      BY <2>1
    <2>4. \A i \in 1 .. n : SubSeq(s, 1, n)[i] = s[i]
      BY <2>2, <2>3
    <2> QED BY <2>2, <2>3, <2>4 DEF n
  <1> HIDE DEF f
  <1>4. s = Append(f, s[Len(s)])
    <2> DEFINE a == Append(f, s[Len(s)])
    <2>1. a \in Seq(S) /\ Len(a) = Len(s)
      BY <1>1, <1>3
    <2>2. \A i \in 1 .. Len(s) : a[i] = s[i]
      BY <1>1, <1>3
    <2> HIDE DEF a
    <2>3. a = s
      BY <2>1, <2>2, SeqEqual
    <2> QED BY <2>3 DEF a
  <1> QED BY <1>1, <1>2, <1>3, <1>4 DEF f

\* The front and the last element of what was appended to.
LEMMA FrontOfAppend ==
  ASSUME NEW S, NEW s \in Seq(S), NEW e \in S
  PROVE  /\ Trace!Front(Append(s, e)) = s
         /\ Trace!Last(Append(s, e)) = e
         /\ Append(s, e) # << >>
         /\ Len(Append(s, e)) = Len(s) + 1
  <1> DEFINE a == Append(s, e)
  <1>1. a \in Seq(S) /\ Len(a) = Len(s) + 1 /\ Len(s) \in Nat /\ a[Len(s) + 1] = e
    OBVIOUS
  <1>2. \A i \in 1 .. Len(s) : a[i] = s[i]
    OBVIOUS
  <1> HIDE DEF a
  <1>3. a # << >>
    BY <1>1
  <1>4. /\ Trace!Front(a) \in Seq(S) /\ Len(Trace!Front(a)) = Len(s)
        /\ \A i \in 1 .. Len(s) : Trace!Front(a)[i] = a[i]
        /\ Trace!Last(a) = a[Len(s) + 1]
    BY <1>1, <1>3, FrontAndLast
  <1>5. Trace!Front(a) = s
    BY <1>2, <1>4, SeqEqual
  <1> QED BY <1>1, <1>3, <1>4, <1>5 DEF a

\* spans holds the spans of the first guards that are alive.
Collecting(spans, scopes) ==
  /\ spans[0] = << >>
  /\ \A i \in 0 .. Len(scopes) : spans[i] \in Seq(Trace!Spans)
  /\ \A i \in 1 .. Len(scopes) :
       spans[i] = IF Trace!Alive(scopes[i])
                  THEN Append(spans[i - 1], Trace!SpanOf(scopes[i]))
                  ELSE spans[i - 1]
  /\ Trace!SpansOfScopes(scopes) = spans[Len(scopes)]

\* The recursive function under SpansOfScopes does that.
LEMMA CollectingSteps ==
  ASSUME NEW scopes \in Seq(Trace!Scopes)
  PROVE  \E spans : Collecting(spans, scopes)
  <1> DEFINE m == Len(scopes)
             S == Seq(Trace!Spans)
             next(i, spans) == IF Trace!Alive(scopes[i])
                               THEN Append(spans, Trace!SpanOf(scopes[i])) ELSE spans
             Is(spans) == spans = [i \in 0 .. m |->
                            IF i = 0 THEN << >>
                            ELSE IF Trace!Alive(scopes[i])
                                 THEN Append(spans[i - 1], Trace!SpanOf(scopes[i]))
                                 ELSE spans[i - 1]]
             step == [x \in (1 .. m) \X S |-> next(x[1], x[2])]
  <1>1. m \in Nat /\ << >> \in S
    OBVIOUS
  <1>2. \A i \in 1 .. m, s \in S : next(i, s) \in S
    <2> SUFFICES ASSUME NEW i \in 1 .. m, NEW s \in S, Trace!Alive(scopes[i])
                 PROVE  Trace!SpanOf(scopes[i]) \in Trace!Spans
      OBVIOUS
    <2>1. scopes[i] \in Trace!Scopes
      BY ElementOfSeq
    <2> QED BY <2>1 DEF Trace!SpanOf, Trace!Spans, Trace!Scopes, Trace!Alive
  <1>3. step \in [(1 .. m) \X S -> S]
    BY <1>2
  <1>4. \A i \in 1 .. m, s \in S : step[<<i, s>>] = next(i, s)
    OBVIOUS
  <1> HIDE DEF S, step, m
  <1>5. PICK f : Recursive(f, m, S, << >>, step)
    BY <1>1, <1>3, RecursionExists
  <1>6. /\ f \in [0 .. m -> S] /\ f[0] = << >>
        /\ \A i \in 1 .. m : f[i] = next(i, f[i - 1])
    <2>1. f \in [0 .. m -> S] /\ f[0] = << >> /\ \A i \in 1 .. m : f[i] = step[<<i, f[i - 1]>>]
      BY <1>5 DEF Recursive
    <2>2. \A i \in 1 .. m : f[i - 1] \in S
      BY <1>1, <2>1
    <2> HIDE DEF next
    <2> QED BY <2>1, <2>2, <1>4
  <1>7. Is(f)
    <2>1. \A i \in 0 .. m : f[i] = IF i = 0 THEN << >>
                            ELSE IF Trace!Alive(scopes[i])
                                 THEN Append(f[i - 1], Trace!SpanOf(scopes[i]))
                                 ELSE f[i - 1]
      <3> TAKE i \in 0 .. m
      <3>1. CASE i = 0
        BY <3>1, <1>6
      <3>2. CASE i # 0
        <4>1. i \in 1 .. m
          BY <1>1, <3>2
        <4> QED BY <4>1, <3>2, <1>6
      <3> QED BY <3>1, <3>2
    <2> QED BY <2>1, <1>6
  <1> DEFINE spans == CHOOSE g : Is(g)
  <1>8. Is(spans)
    <2> HIDE DEF Is
    <2> QED BY <1>7
  <1>9. Trace!SpansOfScopes(scopes) = spans[m]
    BY DEF Trace!SpansOfScopes, m
  <1> HIDE DEF spans
  <1>10. /\ spans[0] = << >>
         /\ \A i \in 1 .. m : spans[i] = next(i, spans[i - 1])
    <2>1. spans[0] = << >>
      BY <1>1, <1>8
    <2>2. ASSUME NEW i \in 1 .. m PROVE spans[i] = next(i, spans[i - 1])
      <3>1. i \in 0 .. m /\ i # 0
        BY <1>1
      <3> QED BY <3>1, <1>8
    <2> QED BY <2>1, <2>2
  <1>11. \A i \in 0 .. m : spans[i] \in S
    <2> DEFINE T == {i \in Nat : i <= m => spans[i] \in S}
    <2>1. 0 \in T
      BY <1>1, <1>10
    <2>2. ASSUME NEW i \in Nat, i \in T PROVE i + 1 \in T
      <3> SUFFICES ASSUME i + 1 <= m PROVE spans[i + 1] \in S
        OBVIOUS
      <3>1. spans[i] \in S /\ i + 1 \in 1 .. m /\ (i + 1) - 1 = i
        BY <1>1, <2>2
      <3> HIDE DEF next
      <3> QED BY <3>1, <1>2, <1>10
    <2>3. \A i \in Nat : i \in T
      <3> HIDE DEF T
      <3> QED BY <2>1, <2>2, SetInduction
    <2> QED BY <1>1, <2>3
  <1>12. Collecting(spans, scopes)
    BY <1>9, <1>10, <1>11 DEF Collecting, S, m
  <1> QED BY <1>12

\* One guard more is one span more, if it is alive.
LEMMA SpansOfAppend ==
  ASSUME NEW scopes \in Seq(Trace!Scopes), NEW scope \in Trace!Scopes
  PROVE  /\ Trace!SpansOfScopes(scopes) \in Seq(Trace!Spans)
         /\ Trace!SpansOfScopes(Append(scopes, scope)) =
              IF Trace!Alive(scope)
              THEN Append(Trace!SpansOfScopes(scopes), Trace!SpanOf(scope))
              ELSE Trace!SpansOfScopes(scopes)
  <1> DEFINE m == Len(scopes)
             more == Append(scopes, scope)
  <1>1. /\ m \in Nat /\ more \in Seq(Trace!Scopes) /\ Len(more) = m + 1 /\ more[m + 1] = scope
        /\ \A i \in 1 .. m : more[i] = scopes[i]
    OBVIOUS
  <1>2. PICK f : Collecting(f, scopes)
    BY CollectingSteps
  <1>3. PICK g : Collecting(g, more)
    <2> HIDE DEF more
    <2> QED BY <1>1, CollectingSteps
  <1> HIDE DEF more
  <1>4. /\ f[0] = << >> /\ \A i \in 0 .. m : f[i] \in Seq(Trace!Spans)
        /\ \A i \in 1 .. m : f[i] = IF Trace!Alive(scopes[i])
                                   THEN Append(f[i - 1], Trace!SpanOf(scopes[i])) ELSE f[i - 1]
        /\ Trace!SpansOfScopes(scopes) = f[m]
    BY <1>2 DEF Collecting
  <1> HIDE DEF m
  <1>5. /\ g[0] = << >>
        /\ \A i \in 1 .. m + 1 : g[i] = IF Trace!Alive(more[i])
                                       THEN Append(g[i - 1], Trace!SpanOf(more[i])) ELSE g[i - 1]
        /\ Trace!SpansOfScopes(more) = g[m + 1]
    BY <1>1, <1>3 DEF Collecting
  <1>6. f[m] = g[m]
    <2> DEFINE T == {i \in Nat : i <= m => f[i] = g[i]}
    <2>1. 0 \in T
      BY <1>4, <1>5
    <2>2. ASSUME NEW i \in Nat, i \in T PROVE i + 1 \in T
      <3> SUFFICES ASSUME i + 1 <= m PROVE f[i + 1] = g[i + 1]
        OBVIOUS
      <3>1. /\ f[i] = g[i] /\ i + 1 \in 1 .. m /\ i + 1 \in 1 .. m + 1 /\ (i + 1) - 1 = i
            /\ more[i + 1] = scopes[i + 1]
        BY <1>1, <2>2
      <3> QED BY <3>1, <1>4, <1>5
    <2>3. \A i \in Nat : i \in T
      <3> HIDE DEF T
      <3> QED BY <2>1, <2>2, SetInduction
    <2> QED BY <1>1, <2>3
  <1>7. m \in 0 .. m /\ m + 1 \in 1 .. m + 1 /\ (m + 1) - 1 = m
    BY <1>1
  <1>8. Trace!SpansOfScopes(more) = IF Trace!Alive(scope) THEN Append(g[m], Trace!SpanOf(scope)) ELSE g[m]
    BY <1>1, <1>5, <1>7
  <1> QED BY <1>4, <1>6, <1>7, <1>8 DEF more

\* No guards, no spans.
LEMMA SpansOfNone == Trace!SpansOfScopes(<< >>) = << >>
  <1>1. << >> \in Seq(Trace!Scopes) /\ Len(<< >>) = 0
    OBVIOUS
  <1>2. PICK f : Collecting(f, << >>)
    BY <1>1, CollectingSteps
  <1> QED BY <1>1, <1>2 DEF Collecting

\* Changing the last element of a sequence leaves its front alone.
LEMMA ExceptLast ==
  ASSUME NEW S, NEW s \in Seq(S), s # << >>, NEW e \in S
  PROVE  [s EXCEPT ![Len(s)] = e] = Append(Trace!Front(s), e)
  <1> DEFINE f == Trace!Front(s)
             n == Len(s)
             changed == [s EXCEPT ![n] = e]
             rebuilt == Append(f, e)
  <1>1. /\ n \in Nat \ {0} /\ f \in Seq(S) /\ Len(f) = n - 1
        /\ \A i \in 1 .. n - 1 : f[i] = s[i]
    BY FrontAndLast
  <1>2. changed \in Seq(S) /\ Len(changed) = n /\ changed[n] = e
        /\ \A i \in 1 .. n - 1 : changed[i] = s[i]
    BY <1>1, ExceptSeq
  <1> HIDE DEF f
  <1>3. rebuilt \in Seq(S) /\ Len(rebuilt) = n /\ rebuilt[n] = e
        /\ \A i \in 1 .. n - 1 : rebuilt[i] = f[i]
    BY <1>1
  <1> HIDE DEF changed, rebuilt, n
  <1>4. \A i \in 1 .. n : changed[i] = rebuilt[i]
    <2> TAKE i \in 1 .. n
    <2>1. i = n \/ i \in 1 .. n - 1
      BY <1>1
    <2> QED BY <2>1, <1>1, <1>2, <1>3
  <1>5. changed = rebuilt
    BY <1>2, <1>3, <1>4, SeqEqual
  <1> QED BY <1>5 DEF changed, rebuilt, n, f
-----------------------------------------------------------------------------
(***************************************************************************)
(* Guards that nest.                                                       *)
(***************************************************************************)
\* The live guards have these names, outermost first; the host's spans are
\* theirs, and a guard whose span the host refused has that in the report.
Stacked(t, names) ==
  /\ Trace!IsTrace(t)
  /\ Trace!WellNested(t)
  /\ Len(t.scopes) = Len(names)
  /\ \A i \in 1 .. Len(names) :
       /\ t.scopes[i].name = names[i]
       /\ ~t.scopes[i].finished
       /\ t.scopes[i].span_id <= 0 => t.reported[names[i]] = "refused"

\* No guard of these names has that name.
Fresh(name, names) == \A i \in 1 .. Len(names) : names[i] # name

\* Before the first guard.
LEMMA UntracedIsStacked == Stacked(Trace!Untraced, << >>)
  <1>1. Trace!IsTrace(Trace!Untraced)
    BY DEF Trace!Untraced, Trace!IsTrace
  <1>2. Trace!WellNested(Trace!Untraced)
    BY SpansOfNone DEF Trace!Untraced, Trace!WellNested
  <1> QED BY <1>1, <1>2 DEF Stacked, Trace!Untraced

\* The fields of a trace.
LEMMA TraceFields ==
  ASSUME NEW t, Trace!IsTrace(t)
  PROVE  /\ t.scopes \in Seq(Trace!Scopes) /\ t.spans \in Seq(Trace!Spans)
         /\ t.reported \in [SpanNames -> Trace!Statuses \cup {"open", "refused"}]
         /\ t.misused \in BOOLEAN
  BY DEF Trace!IsTrace

\* The guard that trace_scope makes.
NewScope(name, id) ==
  [name |-> name, span_id |-> id, finished |-> FALSE, status |-> Trace!NoStatus]

\* What trace_scope does to the fields of a trace.
LEMMA TraceOpened ==
  ASSUME NEW t, Trace!IsTrace(t), NEW name \in SpanNames, NEW id \in Nat
  PROVE  LET u == Trace!trace_scope(t, name, id)
             scope == NewScope(name, id)
         IN  /\ Trace!IsTrace(u)
             /\ u.scopes = Append(t.scopes, scope)
             /\ u.spans = IF id > 0 THEN Append(t.spans, [id |-> id, name |-> name])
                          ELSE t.spans
             /\ u.reported = [t.reported EXCEPT ![name] = IF id > 0 THEN "open" ELSE "refused"]
             /\ u.misused = t.misused
             /\ scope \in Trace!Scopes
  <1> DEFINE u == Trace!trace_scope(t, name, id)
             scope == NewScope(name, id)
             scopes == Append(t.scopes, scope)
             spans == IF id > 0 THEN Append(t.spans, [id |-> id, name |-> name]) ELSE t.spans
             report == IF id > 0 THEN "open" ELSE "refused"
  <1>1. scope \in Trace!Scopes
    BY DEF NewScope, Trace!Scopes, Trace!Statuses, Trace!NoStatus
  <1>2. scopes \in Seq(Trace!Scopes)
    BY <1>1, TraceFields
  <1>3. spans \in Seq(Trace!Spans)
    <2>1. id > 0 => [id |-> id, name |-> name] \in Trace!Spans
      BY DEF Trace!Spans
    <2> QED BY <2>1, TraceFields
  <1>4. report \in Trace!Statuses \cup {"open", "refused"}
    OBVIOUS
  <1>5. u = [t EXCEPT !.scopes = scopes, !.spans = spans, !.reported[name] = report]
    BY DEF Trace!trace_scope, NewScope
  <1> HIDE DEF u, scope, scopes, spans, report
  <1>6. /\ Trace!IsTrace(u)
        /\ u.scopes = scopes /\ u.spans = spans
        /\ u.reported = [t.reported EXCEPT ![name] = report]
        /\ u.misused = t.misused
    BY <1>2, <1>3, <1>4, <1>5 DEF Trace!IsTrace
  <1> QED BY <1>1, <1>6 DEF u, scope, scopes, spans, report

\* trace_scope puts a guard on the stack (src/trace.rs).
LEMMA Opening ==
  ASSUME NEW t, NEW names \in Seq(SpanNames), Stacked(t, names),
         NEW name \in SpanNames, Fresh(name, names), NEW id \in Trace!SpanIds(t)
  PROVE  LET u == Trace!trace_scope(t, name, id)
         IN  /\ Stacked(u, Append(names, name))
             /\ \A n \in SpanNames \ {name} : u.reported[n] = t.reported[n]
             /\ \A i \in 1 .. Len(names) : u.scopes[i] = t.scopes[i]
             /\ u.scopes[Len(names) + 1].status = Trace!NoStatus
  <1> DEFINE u == Trace!trace_scope(t, name, id)
             scope == NewScope(name, id)
             more == Append(names, name)
             m == Len(names)
  <1>0. Trace!IsTrace(t)
    BY DEF Stacked
  <1>1. /\ t.scopes \in Seq(Trace!Scopes) /\ t.spans \in Seq(Trace!Spans)
        /\ t.reported \in [SpanNames -> Trace!Statuses \cup {"open", "refused"}]
        /\ ~t.misused /\ t.spans = Trace!SpansOfScopes(t.scopes)
        /\ Len(t.scopes) = m /\ m \in Nat
    BY TraceFields DEF Stacked, Trace!WellNested
  <1>2. id \in Nat /\ id > 0 <=> id # 0
    BY <1>1 DEF Trace!SpanIds
  <1>3. scope \in Trace!Scopes
    BY <1>2, TraceOpened DEF Stacked
  <1>4. /\ u.scopes = Append(t.scopes, scope)
        /\ u.spans = IF id > 0 THEN Append(t.spans, [id |-> id, name |-> name]) ELSE t.spans
        /\ u.reported = [t.reported EXCEPT ![name] = IF id > 0 THEN "open" ELSE "refused"]
        /\ u.misused = t.misused
        /\ Trace!IsTrace(u)
    BY <1>0, <1>2, TraceOpened
  <1> HIDE DEF u
  <1>5. Trace!Alive(scope) <=> id > 0
    BY DEF Trace!Alive, NewScope
  <1>6. Trace!SpanOf(scope) = [id |-> id, name |-> name]
    BY DEF Trace!SpanOf, NewScope
  <1>7. scope.name = name /\ ~scope.finished /\ scope.span_id = id
    BY DEF NewScope
  <1> HIDE DEF scope
  <1>8. u.spans = Trace!SpansOfScopes(u.scopes) /\ u.spans \in Seq(Trace!Spans)
    <2>1. Trace!SpansOfScopes(u.scopes) =
            IF Trace!Alive(scope) THEN Append(t.spans, Trace!SpanOf(scope)) ELSE t.spans
      BY <1>1, <1>3, <1>4, SpansOfAppend
    <2>2. id > 0 => [id |-> id, name |-> name] \in Trace!Spans
      BY <1>2 DEF Trace!Spans
    <2> QED BY <1>1, <1>4, <1>5, <1>6, <2>1, <2>2
  <1>10. /\ Len(u.scopes) = m + 1 /\ Len(more) = m + 1
         /\ u.scopes[m + 1] = scope /\ more[m + 1] = name
         /\ \A i \in 1 .. m : u.scopes[i] = t.scopes[i] /\ more[i] = names[i]
    BY <1>1, <1>4
  <1>11. \A n \in SpanNames \ {name} : u.reported[n] = t.reported[n]
    BY <1>1, <1>4
  <1>12. u.reported[name] = IF id > 0 THEN "open" ELSE "refused"
    BY <1>1, <1>4
  <1>13. ASSUME NEW i \in 1 .. m + 1
         PROVE  /\ u.scopes[i].name = more[i]
                /\ ~u.scopes[i].finished
                /\ u.scopes[i].span_id <= 0 => u.reported[more[i]] = "refused"
    <2>1. CASE i = m + 1
      BY <2>1, <1>2, <1>7, <1>10, <1>12
    <2>2. CASE i \in 1 .. m
      <3>1. names[i] \in SpanNames \ {name}
        BY <2>2, ElementOfSeq DEF Fresh
      <3>2. /\ t.scopes[i].name = names[i]
            /\ ~t.scopes[i].finished
            /\ t.scopes[i].span_id <= 0 => t.reported[names[i]] = "refused"
        BY <2>2 DEF Stacked
      <3> QED BY <2>2, <3>1, <3>2, <1>10, <1>11
    <2> QED BY <1>1, <2>1, <2>2
  <1> HIDE DEF more
  <1>14. Stacked(u, more)
    BY <1>1, <1>4, <1>8, <1>10, <1>13 DEF Stacked, Trace!WellNested
  <1>15. u.scopes[m + 1].status = Trace!NoStatus
    BY <1>10 DEF scope, NewScope
  <1> QED BY <1>10, <1>11, <1>14, <1>15 DEF u, more

\* The innermost guard is changed.
Replaced(t, scope) == [t EXCEPT !.scopes = [@ EXCEPT ![Len(@)] = scope]]

\* The host does not notice.
LEMMA LastReplaced ==
  ASSUME NEW t, Trace!IsTrace(t), t.scopes # << >>, NEW scope \in Trace!Scopes
  PROVE  /\ Trace!IsTrace(Replaced(t, scope))
         /\ Replaced(t, scope).scopes = Append(Trace!Front(t.scopes), scope)
         /\ Replaced(t, scope).spans = t.spans
         /\ Replaced(t, scope).reported = t.reported
         /\ Replaced(t, scope).misused = t.misused
  <1> DEFINE changed == [t.scopes EXCEPT ![Len(t.scopes)] = scope]
  <1>1. t.scopes \in Seq(Trace!Scopes)
    BY TraceFields
  <1>2. changed = Append(Trace!Front(t.scopes), scope)
    BY <1>1, ExceptLast
  <1>3. changed \in Seq(Trace!Scopes)
    BY <1>1, <1>2, FrontAndLast
  <1>4. Replaced(t, scope) = [t EXCEPT !.scopes = changed]
    BY DEF Replaced
  <1> HIDE DEF changed
  <1> QED BY <1>2, <1>3, <1>4 DEF Trace!IsTrace

\* The innermost guard of a stack.
LEMMA InnermostGuard ==
  ASSUME NEW t, NEW names \in Seq(SpanNames), NEW name \in SpanNames,
         Stacked(t, Append(names, name))
  PROVE  /\ t.scopes # << >>
         /\ Trace!Front(t.scopes) \in Seq(Trace!Scopes)
         /\ Len(Trace!Front(t.scopes)) = Len(names)
         /\ \A i \in 1 .. Len(names) : Trace!Front(t.scopes)[i] = t.scopes[i]
         /\ Trace!Last(t.scopes) \in Trace!Scopes
         /\ Trace!Last(t.scopes) = t.scopes[Len(t.scopes)]
         /\ Trace!Last(t.scopes).name = name
         /\ ~Trace!Last(t.scopes).finished
         /\ Trace!Last(t.scopes).span_id <= 0 => t.reported[name] = "refused"
         /\ t.spans = IF Trace!Alive(Trace!Last(t.scopes))
                      THEN Append(Trace!SpansOfScopes(Trace!Front(t.scopes)),
                                  Trace!SpanOf(Trace!Last(t.scopes)))
                      ELSE Trace!SpansOfScopes(Trace!Front(t.scopes))
         /\ Trace!SpansOfScopes(Trace!Front(t.scopes)) \in Seq(Trace!Spans)
  <1> DEFINE m == Len(names)
             more == Append(names, name)
             f == Trace!Front(t.scopes)
             last == Trace!Last(t.scopes)
  <1>1. m \in Nat /\ Len(more) = m + 1 /\ more[m + 1] = name
    OBVIOUS
  <1>2. /\ t.scopes \in Seq(Trace!Scopes) /\ Len(t.scopes) = Len(more)
        /\ t.spans = Trace!SpansOfScopes(t.scopes)
        /\ \A i \in 1 .. Len(more) :
             /\ t.scopes[i].name = more[i]
             /\ ~t.scopes[i].finished
             /\ t.scopes[i].span_id <= 0 => t.reported[more[i]] = "refused"
    BY TraceFields DEF Stacked, Trace!WellNested
  <1> HIDE DEF more
  <1>3. t.scopes # << >>
    BY <1>1, <1>2
  <1>4. /\ f \in Seq(Trace!Scopes) /\ last \in Trace!Scopes /\ Len(f) = Len(t.scopes) - 1
        /\ \A i \in 1 .. Len(t.scopes) - 1 : f[i] = t.scopes[i]
        /\ last = t.scopes[Len(t.scopes)]
        /\ t.scopes = Append(f, last)
    BY <1>2, <1>3, FrontAndLast
  <1>5. /\ Len(t.scopes) = m + 1 /\ m + 1 \in 1 .. Len(more) /\ Len(t.scopes) - 1 = m
    BY <1>1, <1>2
  <1>6. last.name = name /\ ~last.finished /\ (last.span_id <= 0 => t.reported[name] = "refused")
    BY <1>1, <1>2, <1>4, <1>5
  <1> HIDE DEF f, last
  <1>7. /\ Trace!SpansOfScopes(f) \in Seq(Trace!Spans)
        /\ t.spans = IF Trace!Alive(last) THEN Append(Trace!SpansOfScopes(f), Trace!SpanOf(last))
                     ELSE Trace!SpansOfScopes(f)
    BY <1>2, <1>4, SpansOfAppend
  <1> QED BY <1>3, <1>4, <1>5, <1>6, <1>7 DEF f, last

\* set_status gives the innermost guard its status, and the host does not notice.
LEMMA Marking ==
  ASSUME NEW t, NEW names \in Seq(SpanNames), NEW name \in SpanNames,
         Stacked(t, Append(names, name)), NEW status \in Trace!Statuses
  PROVE  LET u == Trace!set_status(t, status)
         IN  /\ Stacked(u, Append(names, name))
             /\ u.reported = t.reported
             /\ Trace!Last(u.scopes).status = status
             /\ \A i \in 1 .. Len(names) : u.scopes[i] = t.scopes[i]
  <1> DEFINE u == Trace!set_status(t, status)
             last == Trace!Last(t.scopes)
             scope == [last EXCEPT !.status = status]
             f == Trace!Front(t.scopes)
             m == Len(names)
             more == Append(names, name)
  <1>1. /\ t.scopes # << >> /\ f \in Seq(Trace!Scopes) /\ Len(f) = m
        /\ \A i \in 1 .. m : f[i] = t.scopes[i]
        /\ last \in Trace!Scopes /\ last = t.scopes[Len(t.scopes)]
        /\ last.name = name /\ ~last.finished
        /\ last.span_id <= 0 => t.reported[name] = "refused"
        /\ t.spans = IF Trace!Alive(last) THEN Append(Trace!SpansOfScopes(f), Trace!SpanOf(last))
                     ELSE Trace!SpansOfScopes(f)
    BY InnermostGuard
  <1>2. /\ scope \in Trace!Scopes
        /\ scope.name = last.name /\ scope.span_id = last.span_id
        /\ scope.finished = last.finished /\ scope.status = status
    BY <1>1 DEF Trace!Scopes
  <1>3. u = Replaced(t, scope)
    BY <1>1 DEF Trace!set_status, Replaced
  <1>4. Trace!IsTrace(t) /\ ~t.misused
    BY DEF Stacked, Trace!WellNested
  <1> HIDE DEF u, scope, last, f
  <1>5. /\ Trace!IsTrace(u) /\ u.scopes = Append(f, scope) /\ u.spans = t.spans
        /\ u.reported = t.reported /\ u.misused = t.misused
    BY <1>1, <1>2, <1>3, <1>4, LastReplaced DEF f
  <1>6. Trace!WellNested(u)
    <2>1. Trace!SpansOfScopes(u.scopes) =
            IF Trace!Alive(scope) THEN Append(Trace!SpansOfScopes(f), Trace!SpanOf(scope))
            ELSE Trace!SpansOfScopes(f)
      BY <1>1, <1>2, <1>5, SpansOfAppend
    <2>2. (Trace!Alive(scope) <=> Trace!Alive(last)) /\ Trace!SpanOf(scope) = Trace!SpanOf(last)
      BY <1>2 DEF Trace!Alive, Trace!SpanOf
    <2> QED BY <1>1, <1>4, <1>5, <2>1, <2>2 DEF Trace!WellNested
  <1>7. Trace!Last(u.scopes) = scope
    BY <1>1, <1>2, <1>5, FrontOfAppend
  <1>8. /\ m \in Nat /\ Len(u.scopes) = m + 1 /\ Len(more) = m + 1
        /\ u.scopes[m + 1] = scope /\ more[m + 1] = name
        /\ \A i \in 1 .. m : u.scopes[i] = t.scopes[i] /\ more[i] = names[i]
    BY <1>1, <1>2, <1>5
  <1>9. \A i \in 1 .. Len(more) :
          /\ t.scopes[i].name = more[i]
          /\ ~t.scopes[i].finished
          /\ t.scopes[i].span_id <= 0 => t.reported[more[i]] = "refused"
    BY DEF Stacked
  <1> HIDE DEF more
  <1>10. \A i \in 1 .. Len(more) :
          /\ u.scopes[i].name = more[i]
          /\ ~u.scopes[i].finished
          /\ u.scopes[i].span_id <= 0 => u.reported[more[i]] = "refused"
    <2> TAKE i \in 1 .. Len(more)
    <2>1. CASE i = m + 1
      BY <2>1, <1>1, <1>2, <1>5, <1>8
    <2>2. CASE i \in 1 .. m
      BY <2>2, <1>5, <1>8, <1>9
    <2> QED BY <2>1, <2>2, <1>8
  <1> HIDE DEF m
  <1>11. Stacked(u, more)
    BY <1>5, <1>6, <1>8, <1>10 DEF Stacked
  <1> QED BY <1>2, <1>5, <1>7, <1>8, <1>11 DEF u, more, m

\* The innermost guard ends its span, which is the innermost one at the host.
LEMMA Finishing ==
  ASSUME NEW t, NEW names \in Seq(SpanNames), NEW name \in SpanNames,
         Stacked(t, Append(names, name))
  PROVE  LET v == Trace!finish(t)
             f == Trace!Front(t.scopes)
             last == Trace!Last(t.scopes)
         IN  /\ Trace!IsTrace(v) /\ ~v.misused
             /\ v.scopes = Append(f, [last EXCEPT !.finished = TRUE])
             /\ v.spans = Trace!SpansOfScopes(f)
             /\ v.reported[name] \in {last.status, "refused"}
             /\ \A n \in SpanNames \ {name} : v.reported[n] = t.reported[n]
  <1> DEFINE v == Trace!finish(t)
             last == Trace!Last(t.scopes)
             f == Trace!Front(t.scopes)
             done == [last EXCEPT !.finished = TRUE]
             marked == Replaced(t, done)
             before == Trace!SpansOfScopes(f)
             span == Trace!SpanOf(last)
  <1>1. /\ t.scopes # << >> /\ f \in Seq(Trace!Scopes)
        /\ last \in Trace!Scopes /\ last = t.scopes[Len(t.scopes)]
        /\ last.name = name /\ ~last.finished
        /\ last.span_id <= 0 => t.reported[name] = "refused"
        /\ t.spans = IF Trace!Alive(last) THEN Append(before, span) ELSE before
        /\ before \in Seq(Trace!Spans)
    BY InnermostGuard
  <1>2. done \in Trace!Scopes
    BY <1>1 DEF Trace!Scopes
  <1>3. /\ Trace!IsTrace(t) /\ ~t.misused
        /\ t.reported \in [SpanNames -> Trace!Statuses \cup {"open", "refused"}]
    BY TraceFields DEF Stacked, Trace!WellNested
  <1>4. v = IF last.span_id <= 0 THEN marked
            ELSE Trace!host_trace_span_end(marked, last.span_id, last.status)
    BY <1>1 DEF Trace!finish, Trace!AlreadyFinished, Trace!EndPayload, Replaced
  <1>5. last.span_id \in Int /\ last.status \in Trace!Statuses
    BY <1>1 DEF Trace!Scopes
  <1>6. span.id = last.span_id /\ span.name = name
    BY <1>1 DEF Trace!SpanOf
  <1>7. Trace!Alive(last) => span \in Trace!Spans
    BY <1>1, <1>5 DEF Trace!Alive, Trace!SpanOf, Trace!Spans
  <1>8. Trace!Alive(last) <=> ~(last.span_id <= 0)
    BY <1>1, <1>5 DEF Trace!Alive
  <1> HIDE DEF v, last, done, marked, f, before, span
  <1>9. /\ Trace!IsTrace(marked) /\ marked.scopes = Append(f, done)
        /\ marked.spans = t.spans /\ marked.reported = t.reported /\ marked.misused = t.misused
    BY <1>1, <1>2, <1>3, LastReplaced DEF marked, f
  <1>10. CASE last.span_id <= 0
    BY <1>1, <1>3, <1>4, <1>8, <1>9, <1>10 DEF v, last, done, f, before
  <1>11. CASE ~(last.span_id <= 0)
    <2>1. marked.spans = Append(before, span) /\ span \in Trace!Spans
      BY <1>1, <1>7, <1>8, <1>9, <1>11
    <2>2. /\ marked.spans # << >> /\ Trace!Last(marked.spans) = span
          /\ Trace!Front(marked.spans) = before
      BY <1>1, <2>1, FrontOfAppend
    <2>3. Trace!HasInnermost(marked, last.span_id)
      BY <1>6, <2>2 DEF Trace!HasInnermost
    <2>4. v = [marked EXCEPT !.spans = before, !.reported[name] = last.status]
      BY <1>4, <1>6, <1>11, <2>2, <2>3 DEF Trace!host_trace_span_end
    <2>5. /\ Trace!IsTrace(v)
          /\ v.scopes = marked.scopes /\ v.spans = before /\ v.misused = marked.misused
          /\ v.reported = [marked.reported EXCEPT ![name] = last.status]
      BY <1>1, <1>5, <1>9, <2>4 DEF Trace!IsTrace
    <2>6. /\ v.reported[name] = last.status
          /\ \A n \in SpanNames \ {name} : v.reported[n] = t.reported[n]
      BY <1>3, <1>9, <2>5
    <2> QED BY <1>3, <1>9, <2>5, <2>6 DEF v, last, done, f, before
  <1> QED BY <1>10, <1>11

\* A trace without its innermost guard, which has ended.
Unstacked(v) == [v EXCEPT !.scopes = Trace!Front(@)]

\* Drop takes a guard off the stack; the host sees its span end with its status.
LEMMA Dropping ==
  ASSUME NEW t, NEW names \in Seq(SpanNames), NEW name \in SpanNames, Fresh(name, names),
         Stacked(t, Append(names, name))
  PROVE  LET u == Trace!DropLast(t)
         IN  /\ Stacked(u, names)
             /\ u.reported[name] \in {Trace!Last(t.scopes).status, "refused"}
             /\ \A n \in SpanNames \ {name} : u.reported[n] = t.reported[n]
             /\ \A i \in 1 .. Len(names) : u.scopes[i] = t.scopes[i]
  <1> DEFINE v == Trace!finish(t)
             u == Trace!DropLast(t)
             f == Trace!Front(t.scopes)
             last == Trace!Last(t.scopes)
             done == [last EXCEPT !.finished = TRUE]
             m == Len(names)
             more == Append(names, name)
  <1>1. /\ Trace!IsTrace(v) /\ ~v.misused /\ v.scopes = Append(f, done)
        /\ v.spans = Trace!SpansOfScopes(f)
        /\ v.reported[name] \in {last.status, "refused"}
        /\ \A n \in SpanNames \ {name} : v.reported[n] = t.reported[n]
    BY Finishing
  <1>2. /\ f \in Seq(Trace!Scopes) /\ Len(f) = m /\ last \in Trace!Scopes
        /\ \A i \in 1 .. m : f[i] = t.scopes[i]
    BY InnermostGuard
  <1>3. done \in Trace!Scopes
    BY <1>2 DEF Trace!Scopes
  <1>4. u = Unstacked(v)
    BY DEF Trace!DropLast, Unstacked
  <1>5. /\ m \in Nat /\ Len(more) = m + 1 /\ \A i \in 1 .. m : more[i] = names[i]
    OBVIOUS
  <1>6. \A i \in 1 .. Len(more) :
          /\ t.scopes[i].name = more[i]
          /\ ~t.scopes[i].finished
          /\ t.scopes[i].span_id <= 0 => t.reported[more[i]] = "refused"
    BY DEF Stacked
  <1> HIDE DEF v, u, f, done, more
  <1>7. Trace!Front(v.scopes) = f
    BY <1>1, <1>2, <1>3, FrontOfAppend
  <1>8. /\ Trace!IsTrace(u) /\ u.scopes = f /\ u.spans = v.spans
        /\ u.reported = v.reported /\ u.misused = v.misused
    <2>1. u = [v EXCEPT !.scopes = f]
      BY <1>4, <1>7 DEF Unstacked
    <2> QED BY <1>1, <1>2, <2>1 DEF Trace!IsTrace
  <1>9. ASSUME NEW i \in 1 .. m
        PROVE  /\ u.scopes[i].name = names[i]
               /\ ~u.scopes[i].finished
               /\ u.scopes[i].span_id <= 0 => u.reported[names[i]] = "refused"
    <2>1. names[i] \in SpanNames \ {name}
      BY ElementOfSeq DEF Fresh
    <2>2. i \in 1 .. Len(more) /\ more[i] = names[i] /\ u.scopes[i] = t.scopes[i]
      BY <1>2, <1>5, <1>8
    <2>3. u.reported[names[i]] = t.reported[names[i]]
      BY <1>1, <1>8, <2>1
    <2> QED BY <1>6, <2>2, <2>3
  <1>10. Stacked(u, names)
    BY <1>1, <1>2, <1>8, <1>9 DEF Stacked, Trace!WellNested
  <1> QED BY <1>1, <1>2, <1>8, <1>10 DEF u

\* A guard that end has finished has nothing left to do when it is dropped.
LEMMA Ending ==
  ASSUME NEW t, NEW names \in Seq(SpanNames), NEW name \in SpanNames,
         Stacked(t, Append(names, name))
  PROVE  Trace!end(t) = Trace!DropLast(t)
  <1> DEFINE v == Trace!finish(t)
             last == Trace!Last(t.scopes)
             done == [last EXCEPT !.finished = TRUE]
             f == Trace!Front(t.scopes)
  <1>1. v.scopes = Append(f, done)
    BY Finishing
  <1>2. f \in Seq(Trace!Scopes) /\ last \in Trace!Scopes
    BY InnermostGuard
  <1>3. done \in Trace!Scopes /\ done.finished
    BY <1>2 DEF Trace!Scopes
  <1>4. Trace!Last(v.scopes) = done
    <2> HIDE DEF v, done, f
    <2> QED BY <1>1, <1>2, <1>3, FrontOfAppend
  <1> HIDE DEF v, done
  <1>5. Trace!finish(v) = v
    BY <1>3, <1>4 DEF Trace!finish, Trace!AlreadyFinished
  <1> QED BY <1>5 DEF Trace!end, Trace!DropLast, v

\* The host's spans have names of guards.
LEMMA SpansAreOfGuards ==
  ASSUME NEW t, NEW names \in Seq(SpanNames), Stacked(t, names),
         NEW k \in DOMAIN t.spans
  PROVE  \E i \in 1 .. Len(names) : t.spans[k].name = names[i]
  <1> DEFINE m == Len(names)
             scopes == t.scopes
  <1>1. /\ scopes \in Seq(Trace!Scopes) /\ Len(scopes) = m /\ m \in Nat
        /\ t.spans = Trace!SpansOfScopes(scopes)
        /\ \A i \in 1 .. m : scopes[i].name = names[i]
    BY TraceFields DEF Stacked, Trace!WellNested
  <1> HIDE DEF m, scopes
  <1>2. PICK f : Collecting(f, scopes)
    BY <1>1, CollectingSteps
  <1>3. /\ f[0] = << >> /\ \A i \in 0 .. m : f[i] \in Seq(Trace!Spans)
        /\ \A i \in 1 .. m : f[i] = IF Trace!Alive(scopes[i])
                                   THEN Append(f[i - 1], Trace!SpanOf(scopes[i])) ELSE f[i - 1]
        /\ t.spans = f[m]
    BY <1>1, <1>2 DEF Collecting
  <1> DEFINE Named(i) == \A j \in 1 .. Len(f[i]) : \E g \in 1 .. m : f[i][j].name = names[g]
             T == {i \in Nat : i <= m => Named(i)}
  <1>4. 0 \in T
    BY <1>3
  <1>5. ASSUME NEW i \in Nat, i \in T PROVE i + 1 \in T
    <2> SUFFICES ASSUME i + 1 <= m PROVE Named(i + 1)
      OBVIOUS
    <2>1. i + 1 \in 1 .. m /\ (i + 1) - 1 = i /\ i \in 0 .. m /\ Named(i)
      BY <1>1, <1>5
    <2>2. Trace!SpanOf(scopes[i + 1]).name = names[i + 1]
      BY <1>1, <2>1 DEF Trace!SpanOf
    <2> DEFINE span == Trace!SpanOf(scopes[i + 1])
    <2>3. f[i + 1] = f[i] \/ f[i + 1] = Append(f[i], span)
      BY <1>3, <2>1
    <2>4. f[i] \in Seq(Trace!Spans)
      BY <1>3, <2>1
    <2> HIDE DEF span
    <2>5. CASE f[i + 1] = f[i]
      BY <2>1, <2>5
    <2>6. CASE f[i + 1] = Append(f[i], span)
      <3> SUFFICES ASSUME NEW j \in 1 .. Len(f[i + 1])
                   PROVE  \E g \in 1 .. m : f[i + 1][j].name = names[g]
        OBVIOUS
      <3>1. CASE j \in 1 .. Len(f[i])
        <4>1. f[i + 1][j] = f[i][j]
          BY <2>4, <2>6, <3>1
        <4> QED BY <2>1, <3>1, <4>1
      <3>2. CASE j = Len(f[i]) + 1
        <4>1. f[i + 1][j] = span
          BY <2>4, <2>6, <3>2
        <4> QED BY <2>1, <2>2, <4>1 DEF span
      <3>3. j \in 1 .. Len(f[i]) \/ j = Len(f[i]) + 1
        BY <2>4, <2>6
      <3> QED BY <3>1, <3>2, <3>3
    <2> QED BY <2>3, <2>5, <2>6
  <1>6. \A i \in Nat : i \in T
    <2> HIDE DEF T
    <2> QED BY <1>4, <1>5, SetInduction
  <1>7. Named(m)
    BY <1>1, <1>6
  <1>8. t.spans \in Seq(Trace!Spans) /\ k \in 1 .. Len(t.spans)
    BY TraceFields DEF Stacked
  <1> QED BY <1>3, <1>7, <1>8 DEF m
-----------------------------------------------------------------------------
(***************************************************************************)
(* The guards of a sidecar.                                                *)
(***************************************************************************)
Main == Append(<< >>, "sidecar_main")
Iteration == Append(Main, "poll_iteration")
Fetching == Append(Iteration, "fetch")
Requesting == Append(Fetching, "host_request")
Pushing == Append(Iteration, "channel_push")

\* The guards that are alive at a point of the program.
GuardsHere ==
  CASE closure = "running" -> Requesting
    [] closure = "idle" /\ loopPc = "fetch" -> Main
    [] loopPc = "retrySleep" -> Pushing
    [] OTHER -> Iteration

\* As many guards as these names, from the outermost on, have no status yet.
Unset(t, names) == \A i \in 1 .. Len(names) : t.scopes[i].status = Trace!NoStatus

\* They nest, and get a status when they are dropped; only between two attempts
\* to push the last one is known to have failed.
Traced ==
  /\ Stacked(trace, GuardsHere)
  /\ loopPc # "retrySleep" => Unset(trace, GuardsHere)
  /\ loopPc = "retrySleep" =>
       Unset(trace, Iteration) /\ Trace!Last(trace.scopes).status = "retry"

\* The inductive invariant.
IInv == DInv /\ Traced /\ StatusesTellTheTruth

\* A name that is fresh stays so when another one is added.
LEMMA FreshAppend ==
  ASSUME NEW names \in Seq(SpanNames), NEW name \in SpanNames, NEW other,
         Fresh(other, names), other # name
  PROVE  Fresh(other, Append(names, name))
  <1> DEFINE more == Append(names, name)
  <1>1. /\ Len(more) = Len(names) + 1 /\ Len(names) \in Nat
        /\ more[Len(names) + 1] = name
        /\ \A i \in 1 .. Len(names) : more[i] = names[i]
    OBVIOUS
  <1> HIDE DEF more
  <1>2. ASSUME NEW i \in 1 .. Len(more) PROVE more[i] # other
    <2>1. i \in 1 .. Len(names) \/ i = Len(names) + 1
      BY <1>1
    <2> QED BY <1>1, <2>1 DEF Fresh
  <1> QED BY <1>2 DEF Fresh, more

\* The names of guards that are alive together are different.
LEMMA GuardNames ==
  /\ << >> \in Seq(SpanNames) /\ Main \in Seq(SpanNames) /\ Iteration \in Seq(SpanNames)
  /\ Fetching \in Seq(SpanNames) /\ Requesting \in Seq(SpanNames) /\ Pushing \in Seq(SpanNames)
  /\ Fresh("sidecar_main", << >>)
  /\ Fresh("poll_iteration", Main)
  /\ Fresh("fetch", Iteration)
  /\ Fresh("host_request", Fetching)
  /\ Fresh("channel_push", Iteration)
  /\ \A name : name # "sidecar_main" => Fresh(name, Main)
  /\ \A name : name \notin {"sidecar_main", "poll_iteration"} => Fresh(name, Iteration)
  /\ \A name : name \notin {"sidecar_main", "poll_iteration", "fetch", "host_request"} =>
       Fresh(name, Requesting)
  /\ \A name : name \notin {"sidecar_main", "poll_iteration", "channel_push"} =>
       Fresh(name, Pushing)
  <1>1. /\ "sidecar_main" \in SpanNames /\ "poll_iteration" \in SpanNames
        /\ "fetch" \in SpanNames /\ "host_request" \in SpanNames
        /\ "channel_push" \in SpanNames
    BY DEF SpanNames
  <1>2. /\ << >> \in Seq(SpanNames)
        /\ \A name : Fresh(name, << >>)
    BY DEF Fresh
  <1>3. /\ Main \in Seq(SpanNames)
        /\ \A name : name # "sidecar_main" => Fresh(name, Main)
    <2>1. Main \in Seq(SpanNames) /\ Len(Main) = 1 /\ Main[1] = "sidecar_main"
      BY <1>1 DEF Main
    <2> QED BY <2>1 DEF Fresh
  <1>4. /\ Iteration \in Seq(SpanNames)
        /\ \A name : name \notin {"sidecar_main", "poll_iteration"} => Fresh(name, Iteration)
    BY <1>1, <1>3, FreshAppend DEF Iteration
  <1>5. /\ Fetching \in Seq(SpanNames)
        /\ \A name : name \notin {"sidecar_main", "poll_iteration", "fetch"} =>
             Fresh(name, Fetching)
    BY <1>1, <1>4, FreshAppend DEF Fetching
  <1>6. /\ Requesting \in Seq(SpanNames)
        /\ \A name : name \notin {"sidecar_main", "poll_iteration", "fetch", "host_request"} =>
             Fresh(name, Requesting)
    BY <1>1, <1>5, FreshAppend DEF Requesting
  <1>7. /\ Pushing \in Seq(SpanNames)
        /\ \A name : name \notin {"sidecar_main", "poll_iteration", "channel_push"} =>
             Fresh(name, Pushing)
    BY <1>1, <1>4, FreshAppend DEF Pushing
  <1> QED BY <1>2, <1>3, <1>4, <1>5, <1>6, <1>7

\* Sets of traces: how they are stacked, which guards have no status, the status
\* of the innermost guard, and the status in which the host saw a span of a name
\* end, if it took it.
AllStacked(ts, names) == \A t \in ts : Stacked(t, names)
AllUnset(ts, names) == \A t \in ts : Unset(t, names)
AllMarked(ts, status) == \A t \in ts : Trace!Last(t.scopes).status = status
AllReport(ts, name, status) == \A t \in ts : t.reported[name] \in {status, "refused"}

\* The innermost of guards that have no status has none.
LEMMA UnsetInnermost ==
  ASSUME NEW ts, NEW names \in Seq(SpanNames), NEW name \in SpanNames,
         AllStacked(ts, Append(names, name)), AllUnset(ts, Append(names, name))
  PROVE  AllMarked(ts, Trace!NoStatus) /\ AllUnset(ts, names)
  <1> SUFFICES ASSUME NEW t \in ts
               PROVE  Trace!Last(t.scopes).status = Trace!NoStatus /\ Unset(t, names)
    BY DEF AllMarked, AllUnset
  <1> DEFINE more == Append(names, name)
             m == Len(names)
  <1>1. Stacked(t, more) /\ Unset(t, more)
    BY DEF AllStacked, AllUnset
  <1>2. m \in Nat /\ Len(more) = m + 1
    OBVIOUS
  <1>3. Trace!Last(t.scopes) = t.scopes[Len(t.scopes)]
    BY <1>1, InnermostGuard
  <1> HIDE DEF more, m
  <1>4. Len(t.scopes) = m + 1
    BY <1>1, <1>2 DEF Stacked
  <1>5. \A i \in 1 .. m + 1 : t.scopes[i].status = Trace!NoStatus
    BY <1>1, <1>2 DEF Unset
  <1>6. Trace!Last(t.scopes).status = Trace!NoStatus
    BY <1>2, <1>3, <1>4, <1>5
  <1>7. Unset(t, names)
    BY <1>2, <1>5 DEF Unset, m
  <1> QED BY <1>6, <1>7

\* Opening, Marking, Dropping and Ending, of every trace of a set.
LEMMA OpenedStack ==
  ASSUME NEW ts, NEW names \in Seq(SpanNames), NEW name \in SpanNames, Fresh(name, names),
         AllStacked(ts, names), AllUnset(ts, names)
  PROVE  /\ AllStacked(Opened(ts, name), Append(names, name))
         /\ AllUnset(Opened(ts, name), Append(names, name))
  <1> DEFINE more == Append(names, name)
             m == Len(names)
  <1> SUFFICES ASSUME NEW u \in Opened(ts, name) PROVE Stacked(u, more) /\ Unset(u, more)
    BY DEF AllStacked, AllUnset
  <1>1. PICK t \in ts : \E id \in Trace!SpanIds(t) : u = Trace!trace_scope(t, name, id)
    BY DEF Opened
  <1>2. PICK id \in Trace!SpanIds(t) : u = Trace!trace_scope(t, name, id)
    BY <1>1
  <1>3. Stacked(t, names) /\ Unset(t, names)
    BY DEF AllStacked, AllUnset
  <1>4. /\ Stacked(u, more)
        /\ \A i \in 1 .. m : u.scopes[i] = t.scopes[i]
        /\ u.scopes[m + 1].status = Trace!NoStatus
    BY <1>2, <1>3, Opening
  <1>5. m \in Nat /\ Len(more) = m + 1
    OBVIOUS
  <1>6. \A i \in 1 .. m : t.scopes[i].status = Trace!NoStatus
    BY <1>3 DEF Unset
  <1> HIDE DEF more, m
  <1>7. Unset(u, more)
    <2> SUFFICES ASSUME NEW i \in 1 .. m + 1 PROVE u.scopes[i].status = Trace!NoStatus
      BY <1>5 DEF Unset
    <2>1. i \in 1 .. m \/ i = m + 1
      BY <1>5
    <2> QED BY <1>4, <1>6, <2>1
  <1> QED BY <1>4, <1>7

LEMMA MarkedStack ==
  ASSUME NEW ts, NEW names \in Seq(SpanNames), NEW name \in SpanNames,
         AllStacked(ts, Append(names, name)), NEW status \in Trace!Statuses
  PROVE  /\ AllStacked(Marked(ts, status), Append(names, name))
         /\ AllMarked(Marked(ts, status), status)
         /\ \A n, s : AllReport(ts, n, s) => AllReport(Marked(ts, status), n, s)
         /\ AllUnset(ts, names) => AllUnset(Marked(ts, status), names)
  <1> DEFINE more == Append(names, name)
  <1>1. ASSUME NEW t \in ts
        PROVE  LET u == Trace!set_status(t, status)
               IN  /\ Stacked(u, more)
                   /\ u.reported = t.reported
                   /\ Trace!Last(u.scopes).status = status
                   /\ Unset(t, names) => Unset(u, names)
    <2>1. Stacked(t, Append(names, name))
      BY DEF AllStacked
    <2> QED BY <2>1, Marking DEF Unset
  <1> HIDE DEF more
  <1>2. \A u \in Marked(ts, status) : \E t \in ts : u = Trace!set_status(t, status)
    BY DEF Marked
  <1>3. AllStacked(Marked(ts, status), more)
    BY <1>1, <1>2 DEF AllStacked
  <1>4. AllMarked(Marked(ts, status), status)
    BY <1>1, <1>2 DEF AllMarked
  <1>5. \A n, s : AllReport(ts, n, s) => AllReport(Marked(ts, status), n, s)
    BY <1>1, <1>2 DEF AllReport
  <1>6. AllUnset(ts, names) => AllUnset(Marked(ts, status), names)
    BY <1>1, <1>2 DEF AllUnset
  <1> QED BY <1>3, <1>4, <1>5, <1>6 DEF more

LEMMA DroppedStack ==
  ASSUME NEW ts, NEW names \in Seq(SpanNames), NEW name \in SpanNames, Fresh(name, names),
         AllStacked(ts, Append(names, name))
  PROVE  /\ AllStacked(Dropped(ts), names)
         /\ \A s : AllMarked(ts, s) => AllReport(Dropped(ts), name, s)
         /\ \A s : \A n \in SpanNames \ {name} : AllReport(ts, n, s) => AllReport(Dropped(ts), n, s)
         /\ AllUnset(ts, names) => AllUnset(Dropped(ts), names)
         /\ Ended(ts) = Dropped(ts)
  <1>1. ASSUME NEW t \in ts
        PROVE  LET u == Trace!DropLast(t)
               IN  /\ Stacked(u, names)
                   /\ u.reported[name] \in {Trace!Last(t.scopes).status, "refused"}
                   /\ \A n \in SpanNames \ {name} : u.reported[n] = t.reported[n]
                   /\ Unset(t, names) => Unset(u, names)
                   /\ Trace!end(t) = u
    <2>1. Stacked(t, Append(names, name))
      BY DEF AllStacked
    <2> QED BY <2>1, Dropping, Ending DEF Unset
  <1>2. \A u \in Dropped(ts) : \E t \in ts : u = Trace!DropLast(t)
    BY DEF Dropped
  <1>3. AllStacked(Dropped(ts), names)
    BY <1>1, <1>2 DEF AllStacked
  <1>4. \A s : AllMarked(ts, s) => AllReport(Dropped(ts), name, s)
    BY <1>1, <1>2 DEF AllMarked, AllReport
  <1>5. \A s : \A n \in SpanNames \ {name} : AllReport(ts, n, s) => AllReport(Dropped(ts), n, s)
    BY <1>1, <1>2 DEF AllReport
  <1>6. Ended(ts) = Dropped(ts)
    BY <1>1 DEF Ended, Dropped
  <1>7. AllUnset(ts, names) => AllUnset(Dropped(ts), names)
    BY <1>1, <1>2 DEF AllUnset
  <1> QED BY <1>3, <1>4, <1>5, <1>6, <1>7
-----------------------------------------------------------------------------
\* The guard of main, whose span is never reported.
LEMMA TracedInit == ASSUME Init PROVE Traced /\ StatusesTellTheTruth
  <1>1. Stacked(trace, Main) /\ Unset(trace, Main)
    <2>1. trace \in Opened({Trace!Untraced}, "sidecar_main")
      BY DEF Init
    <2>2. AllStacked({Trace!Untraced}, << >>) /\ AllUnset({Trace!Untraced}, << >>)
      BY UntracedIsStacked DEF AllStacked, AllUnset, Unset
    <2>3. "sidecar_main" \in SpanNames /\ Append(<< >>, "sidecar_main") = Main
      BY DEF SpanNames, Main
    <2>4. /\ AllStacked(Opened({Trace!Untraced}, "sidecar_main"), Main)
          /\ AllUnset(Opened({Trace!Untraced}, "sidecar_main"), Main)
      BY <2>2, <2>3, GuardNames, OpenedStack
    <2> QED BY <2>1, <2>4 DEF AllStacked, AllUnset
  <1>2. loopPc = "fetch" /\ closure = "idle" /\ fetched = "none"
    BY DEF Init, Loop!Init
  <1> QED BY <1>1, <1>2 DEF Traced, GuardsHere, StatusesTellTheTruth

\* A step that leaves alone what the trace depends on.
LEMMA TracedUnchanged ==
  ASSUME Traced, StatusesTellTheTruth,
         UNCHANGED <<trace, loopPc, closure, decoded, fetched, pushed, answered>>
  PROVE  Traced' /\ StatusesTellTheTruth'
  <1>1. GuardsHere' = GuardsHere
    BY DEF GuardsHere
  <1>2. Traced'
    BY <1>1 DEF Traced
  <1>3. StatusesTellTheTruth'
    BY DEF StatusesTellTheTruth, Tells
  <1> QED BY <1>2, <1>3

\* Three guards are opened, one in another.
LEMMA FetchStartsTraced ==
  ASSUME IInv, FetchStarts PROVE Traced' /\ StatusesTellTheTruth'
  <1>1. /\ loopPc = "fetch" /\ closure = "idle" /\ closure' = "running" /\ loopPc' = "fetch"
        /\ trace' \in Opened(Opened(Opened({trace}, "poll_iteration"), "fetch"), "host_request")
    BY DEF FetchStarts, loopVars
  <1>2. Stacked(trace, Main) /\ Unset(trace, Main)
    BY <1>1 DEF IInv, Traced, GuardsHere
  <1>3. "poll_iteration" \in SpanNames /\ "fetch" \in SpanNames /\ "host_request" \in SpanNames
    BY DEF SpanNames
  <1> DEFINE ts == Opened({trace}, "poll_iteration")
             us == Opened(ts, "fetch")
             vs == Opened(us, "host_request")
  <1>4. AllStacked(ts, Iteration) /\ AllUnset(ts, Iteration)
    <2>1. AllStacked({trace}, Main) /\ AllUnset({trace}, Main)
      BY <1>2 DEF AllStacked, AllUnset
    <2> QED BY <1>3, <2>1, GuardNames, OpenedStack DEF Iteration
  <1> HIDE DEF ts
  <1>5. AllStacked(us, Fetching) /\ AllUnset(us, Fetching)
    BY <1>3, <1>4, GuardNames, OpenedStack DEF Fetching
  <1> HIDE DEF us
  <1>6. AllStacked(vs, Requesting) /\ AllUnset(vs, Requesting)
    BY <1>3, <1>5, GuardNames, OpenedStack DEF Requesting
  <1> HIDE DEF vs
  <1>7. Stacked(trace', Requesting) /\ Unset(trace', Requesting)
    BY <1>1, <1>6 DEF AllStacked, AllUnset, ts, us, vs
  <1>8. Traced'
    BY <1>1, <1>7 DEF Traced, GuardsHere
  <1>9. StatusesTellTheTruth'
    BY <1>1 DEF StatusesTellTheTruth
  <1> QED BY <1>8, <1>9

\* While a request is made, the guards of it and of the fetch are opened, and
\* none of them has a status.
LEMMA RequestGuards ==
  ASSUME IInv, getPc \in {"sent", "answered"}
  PROVE  /\ closure = "running" /\ loopPc = "fetch"
         /\ AllStacked({trace}, Requesting)
         /\ AllUnset({trace}, Requesting) /\ AllUnset({trace}, Fetching)
         /\ AllMarked({trace}, Trace!NoStatus)
  <1>1. closure = "running" /\ loopPc = "fetch"
    BY DEF IInv, DInv, Composed
  <1>2. AllStacked({trace}, Requesting) /\ AllUnset({trace}, Requesting)
    BY <1>1 DEF IInv, Traced, GuardsHere, AllStacked, AllUnset
  <1>3. AllMarked({trace}, Trace!NoStatus) /\ AllUnset({trace}, Fetching)
    BY <1>2, GuardNames, UnsetInnermost DEF Requesting, SpanNames
  <1> QED BY <1>1, <1>2, <1>3

(***************************************************************************)
(* The guard of the request is dropped with a status, that of the fetch    *)
(* with another.                                                           *)
(***************************************************************************)
LEMMA RequestDropped ==
  ASSUME NEW ts, NEW status, AllStacked(ts, Requesting), AllUnset(ts, Fetching),
         AllMarked(ts, status)
  PROVE  /\ AllStacked(Dropped(ts), Fetching) /\ AllUnset(Dropped(ts), Fetching)
         /\ AllReport(Dropped(ts), "host_request", status)
  BY GuardNames, DroppedStack DEF Requesting, SpanNames

LEMMA FetchDropped ==
  ASSUME NEW ts, NEW status, NEW before,
         AllStacked(ts, Fetching), AllUnset(ts, Iteration),
         AllMarked(ts, status), AllReport(ts, "host_request", before)
  PROVE  /\ AllStacked(Dropped(ts), Iteration) /\ AllUnset(Dropped(ts), Iteration)
         /\ AllReport(Dropped(ts), "fetch", status)
         /\ AllReport(Dropped(ts), "host_request", before)
         /\ Ended(ts) = Dropped(ts)
  <1>1. "fetch" \in SpanNames /\ "host_request" \in SpanNames \ {"fetch"}
    BY DEF SpanNames
  <1> QED BY <1>1, GuardNames, DroppedStack DEF Fetching

\* A fetch that fails leaves its guard without a status.
LEMMA FetchDroppedUnset ==
  ASSUME NEW ts, NEW before, AllStacked(ts, Fetching), AllUnset(ts, Fetching),
         AllReport(ts, "host_request", before)
  PROVE  /\ AllStacked(Dropped(ts), Iteration) /\ AllUnset(Dropped(ts), Iteration)
         /\ AllReport(Dropped(ts), "fetch", Trace!NoStatus)
         /\ AllReport(Dropped(ts), "host_request", before)
  <1>1. AllMarked(ts, Trace!NoStatus) /\ AllUnset(ts, Iteration)
    BY GuardNames, UnsetInnermost DEF Fetching, SpanNames
  <1> QED BY <1>1, FetchDropped

\* What the host has seen when the closure has returned.
LEMMA ReturnedTraced ==
  ASSUME NEW ts, NEW fetch, NEW request,
         AllStacked(ts, Iteration), AllUnset(ts, Iteration),
         AllReport(ts, "fetch", fetch), AllReport(ts, "host_request", request),
         trace' \in ts, closure' = "returned", loopPc' = "fetch",
         fetch = IF answered' = "ok" THEN "ok" ELSE Trace!NoStatus,
         request = IF decoded' THEN "ok" ELSE Trace!NoStatus
  PROVE  Traced' /\ StatusesTellTheTruth'
  <1>1. /\ Stacked(trace', Iteration) /\ Unset(trace', Iteration)
        /\ trace'.reported["fetch"] \in {fetch, "refused"}
        /\ trace'.reported["host_request"] \in {request, "refused"}
    BY DEF AllStacked, AllUnset, AllReport
  <1>2. Traced'
    BY <1>1 DEF Traced, GuardsHere
  <1>3. StatusesTellTheTruth'
    BY <1>1 DEF StatusesTellTheTruth, Tells
  <1> QED BY <1>2, <1>3

\* A request that fails ends with the status ok or none, the fetch with none.
LEMMA RequestFailsTraced ==
  ASSUME IInv, RequestFails PROVE Traced' /\ StatusesTellTheTruth'
  <1>1. /\ getPc \in {"sent", "answered"} /\ closure' = "returned" /\ answered' = "err"
        /\ loopPc' = loopPc
        /\ \/ decoded' = FALSE /\ trace' \in Dropped(Dropped({trace}))
           \/ decoded' = TRUE /\ trace' \in Dropped(Dropped(Marked({trace}, "ok")))
    BY DEF RequestFails, Get!ExchangeFails, loopVars
  <1>2. /\ loopPc = "fetch"
        /\ AllStacked({trace}, Requesting)
        /\ AllUnset({trace}, Requesting) /\ AllUnset({trace}, Fetching)
        /\ AllMarked({trace}, Trace!NoStatus)
    BY <1>1, RequestGuards
  <1>3. CASE decoded' = FALSE /\ trace' \in Dropped(Dropped({trace}))
    <2> DEFINE us == Dropped({trace})
    <2>1. /\ AllStacked(us, Fetching) /\ AllUnset(us, Fetching)
          /\ AllReport(us, "host_request", Trace!NoStatus)
      BY <1>2, RequestDropped
    <2> HIDE DEF us
    <2>2. /\ AllStacked(Dropped(us), Iteration) /\ AllUnset(Dropped(us), Iteration)
          /\ AllReport(Dropped(us), "fetch", Trace!NoStatus)
          /\ AllReport(Dropped(us), "host_request", Trace!NoStatus)
      BY <2>1, FetchDroppedUnset
    <2>3. trace' \in Dropped(us)
      BY <1>3 DEF us
    <2> QED BY <1>1, <1>2, <1>3, <2>2, <2>3, ReturnedTraced
  <1>4. CASE decoded' = TRUE /\ trace' \in Dropped(Dropped(Marked({trace}, "ok")))
    <2> DEFINE ts == Marked({trace}, "ok")
               us == Dropped(ts)
    <2>1. AllStacked(ts, Requesting) /\ AllUnset(ts, Fetching) /\ AllMarked(ts, "ok")
      BY <1>2, GuardNames, MarkedStack DEF Requesting, SpanNames, Trace!Statuses
    <2> HIDE DEF ts
    <2>2. /\ AllStacked(us, Fetching) /\ AllUnset(us, Fetching)
          /\ AllReport(us, "host_request", "ok")
      BY <2>1, RequestDropped
    <2> HIDE DEF us
    <2>3. /\ AllStacked(Dropped(us), Iteration) /\ AllUnset(Dropped(us), Iteration)
          /\ AllReport(Dropped(us), "fetch", Trace!NoStatus)
          /\ AllReport(Dropped(us), "host_request", "ok")
      BY <2>2, FetchDroppedUnset
    <2>4. trace' \in Dropped(us)
      BY <1>4 DEF us, ts
    <2> QED BY <1>1, <1>2, <1>4, <2>3, <2>4, ReturnedTraced
  <1> QED BY <1>1, <1>3, <1>4

\* A request that returns ends with the status ok, and so does the fetch when
\* it succeeds.
LEMMA RequestReturnsTraced ==
  ASSUME IInv, RequestReturns PROVE Traced' /\ StatusesTellTheTruth'
  <1>1. /\ getPc = "answered" /\ closure' = "returned" /\ decoded' = TRUE /\ loopPc' = loopPc
    BY DEF RequestReturns, Get!CallReturns, loopVars
  <1>2. PICK t \in Dropped(Marked({trace}, "ok")) :
          \/ answered' = "ok" /\ trace' \in Dropped(Marked({t}, "ok")) \cup Ended(Marked({t}, "ok"))
          \/ answered' = "err" /\ trace' \in Dropped({t})
    BY DEF RequestReturns
  <1>3. /\ loopPc = "fetch"
        /\ AllStacked({trace}, Requesting)
        /\ AllUnset({trace}, Requesting) /\ AllUnset({trace}, Fetching)
    BY <1>1, RequestGuards
  <1> DEFINE ts == Marked({trace}, "ok")
  <1>4. AllStacked(ts, Requesting) /\ AllUnset(ts, Fetching) /\ AllMarked(ts, "ok")
    BY <1>3, GuardNames, MarkedStack DEF Requesting, SpanNames, Trace!Statuses
  <1> HIDE DEF ts
  <1>5. /\ AllStacked({t}, Fetching) /\ AllUnset({t}, Fetching)
        /\ AllReport({t}, "host_request", "ok")
    <2>1. /\ AllStacked(Dropped(ts), Fetching) /\ AllUnset(Dropped(ts), Fetching)
          /\ AllReport(Dropped(ts), "host_request", "ok")
      BY <1>4, RequestDropped
    <2>2. t \in Dropped(ts)
      BY <1>2 DEF ts
    <2> QED BY <2>1, <2>2 DEF AllStacked, AllUnset, AllReport
  <1>6. CASE answered' = "err" /\ trace' \in Dropped({t})
    <2>1. /\ AllStacked(Dropped({t}), Iteration) /\ AllUnset(Dropped({t}), Iteration)
          /\ AllReport(Dropped({t}), "fetch", Trace!NoStatus)
          /\ AllReport(Dropped({t}), "host_request", "ok")
      BY <1>5, FetchDroppedUnset
    <2> QED BY <1>1, <1>3, <1>6, <2>1, ReturnedTraced
  <1>7. CASE /\ answered' = "ok"
             /\ trace' \in Dropped(Marked({t}, "ok")) \cup Ended(Marked({t}, "ok"))
    <2> DEFINE ns == Marked({t}, "ok")
    <2>1. /\ AllStacked(ns, Fetching) /\ AllUnset(ns, Iteration) /\ AllMarked(ns, "ok")
          /\ AllReport(ns, "host_request", "ok")
      <3>1. AllUnset({t}, Iteration)
        BY <1>5, GuardNames, UnsetInnermost DEF Fetching, SpanNames
      <3> QED BY <1>5, <3>1, GuardNames, MarkedStack DEF Fetching, SpanNames, Trace!Statuses
    <2> HIDE DEF ns
    <2>2. /\ AllStacked(Dropped(ns), Iteration) /\ AllUnset(Dropped(ns), Iteration)
          /\ AllReport(Dropped(ns), "fetch", "ok")
          /\ AllReport(Dropped(ns), "host_request", "ok")
          /\ Ended(ns) = Dropped(ns)
      BY <2>1, FetchDropped
    <2>3. trace' \in Dropped(ns)
      BY <1>7, <2>2 DEF ns
    <2> QED BY <1>1, <1>3, <1>7, <2>2, <2>3, ReturnedTraced
  <1> QED BY <1>2, <1>6, <1>7

\* The guards of the closure are gone when the loop goes on.
LEMMA FetchReturnsTraced ==
  ASSUME IInv, FetchReturns PROVE Traced' /\ StatusesTellTheTruth'
  <1>1. /\ closure = "returned" /\ closure' = "idle" /\ trace' = trace
        /\ loopPc = "fetch" /\ loopPc' \in {"push", "backoffSleep"}
    BY DEF FetchReturns, Loop!FetchOk, Loop!FetchErr, Loop!FetchBegins
  <1>2. Stacked(trace, Iteration) /\ Unset(trace, Iteration)
    BY <1>1 DEF IInv, Traced, GuardsHere
  <1>3. Traced'
    BY <1>1, <1>2 DEF Traced, GuardsHere
  <1>4. StatusesTellTheTruth'
    BY <1>1 DEF StatusesTellTheTruth
  <1> QED BY <1>3, <1>4

\* An attempt to push has a guard of its own, dropped with the status ok ...
LEMMA PushAcceptedTraced ==
  ASSUME IInv, PushAccepted PROVE Traced' /\ StatusesTellTheTruth'
  <1>1. /\ loopPc = "push" /\ loopPc' = "pollSleep" /\ pushed' = TRUE /\ closure' = closure
        /\ trace' \in Dropped(Marked(Opened({trace}, "channel_push"), "ok"))
    BY DEF PushAccepted, Loop!PushAccepted, Loop!RetryLoopEnds
  <1>2. closure = "idle"
    BY <1>1 DEF IInv, DInv, Composed
  <1>3. Stacked(trace, Iteration) /\ Unset(trace, Iteration)
    BY <1>1, <1>2 DEF IInv, Traced, GuardsHere
  <1>4. "channel_push" \in SpanNames /\ "ok" \in Trace!Statuses
    BY DEF SpanNames, Trace!Statuses
  <1> DEFINE ts == Opened({trace}, "channel_push")
             us == Marked(ts, "ok")
  <1>5. AllStacked(ts, Pushing) /\ AllUnset(ts, Pushing) /\ AllUnset(ts, Iteration)
    <2>1. AllStacked({trace}, Iteration) /\ AllUnset({trace}, Iteration)
      BY <1>3 DEF AllStacked, AllUnset
    <2>2. AllStacked(ts, Pushing) /\ AllUnset(ts, Pushing)
      BY <1>4, <2>1, GuardNames, OpenedStack DEF Pushing
    <2> QED BY <1>4, <2>2, GuardNames, UnsetInnermost DEF Pushing
  <1> HIDE DEF ts
  <1>6. AllStacked(us, Pushing) /\ AllMarked(us, "ok") /\ AllUnset(us, Iteration)
    BY <1>4, <1>5, GuardNames, MarkedStack DEF Pushing
  <1> HIDE DEF us
  <1>7. /\ AllStacked(Dropped(us), Iteration) /\ AllUnset(Dropped(us), Iteration)
        /\ AllReport(Dropped(us), "channel_push", "ok")
    BY <1>4, <1>6, GuardNames, DroppedStack DEF Pushing
  <1>8. /\ Stacked(trace', Iteration) /\ Unset(trace', Iteration)
        /\ trace'.reported["channel_push"] \in {"ok", "refused"}
    BY <1>1, <1>7 DEF ts, us, AllStacked, AllUnset, AllReport
  <1>9. Traced'
    BY <1>1, <1>2, <1>8 DEF Traced, GuardsHere
  <1>10. StatusesTellTheTruth'
    BY <1>1, <1>2, <1>8 DEF StatusesTellTheTruth, Tells
  <1> QED BY <1>9, <1>10

\* ... or marked as failed ...
LEMMA PushRejectedTraced ==
  ASSUME IInv, PushRejected PROVE Traced' /\ StatusesTellTheTruth'
  <1>1. /\ loopPc = "push" /\ loopPc' = "retrySleep" /\ closure' = closure
        /\ trace' \in Marked(Opened({trace}, "channel_push"), "retry")
    BY DEF PushRejected, Loop!PushRejected
  <1>2. closure = "idle"
    BY <1>1 DEF IInv, DInv, Composed
  <1>3. Stacked(trace, Iteration) /\ Unset(trace, Iteration)
    BY <1>1, <1>2 DEF IInv, Traced, GuardsHere
  <1>4. "channel_push" \in SpanNames /\ "retry" \in Trace!Statuses
    BY DEF SpanNames, Trace!Statuses
  <1> DEFINE ts == Opened({trace}, "channel_push")
  <1>5. AllStacked(ts, Pushing) /\ AllUnset(ts, Pushing) /\ AllUnset(ts, Iteration)
    <2>1. AllStacked({trace}, Iteration) /\ AllUnset({trace}, Iteration)
      BY <1>3 DEF AllStacked, AllUnset
    <2>2. AllStacked(ts, Pushing) /\ AllUnset(ts, Pushing)
      BY <1>4, <2>1, GuardNames, OpenedStack DEF Pushing
    <2> QED BY <1>4, <2>2, GuardNames, UnsetInnermost DEF Pushing
  <1> HIDE DEF ts
  <1>6. /\ AllStacked(Marked(ts, "retry"), Pushing) /\ AllMarked(Marked(ts, "retry"), "retry")
        /\ AllUnset(Marked(ts, "retry"), Iteration)
    BY <1>4, <1>5, GuardNames, MarkedStack DEF Pushing
  <1>7. /\ Stacked(trace', Pushing) /\ Trace!Last(trace'.scopes).status = "retry"
        /\ Unset(trace', Iteration)
    BY <1>1, <1>6 DEF ts, AllStacked, AllMarked, AllUnset
  <1>8. Traced'
    BY <1>1, <1>2, <1>7 DEF Traced, GuardsHere
  <1>9. StatusesTellTheTruth'
    BY <1>1, <1>2 DEF StatusesTellTheTruth
  <1> QED BY <1>8, <1>9

\* ... and dropped after the pause.
LEMMA RetrySleepTraced ==
  ASSUME IInv, RetrySleep PROVE Traced' /\ StatusesTellTheTruth'
  <1>1. /\ loopPc = "retrySleep" /\ loopPc' \in {"push", "pollSleep"} /\ closure' = closure
        /\ pushed' = pushed /\ trace' \in Dropped({trace})
    BY DEF RetrySleep, Loop!RetrySleep, Loop!RetryLoopEnds
  <1>2. closure = "idle" /\ pushed = FALSE
    BY <1>1 DEF IInv, DInv, Composed, LoopP!IInv, LoopP!RetryProgress, LoopP!TypeOK
  <1>3. AllStacked({trace}, Pushing) /\ AllMarked({trace}, "retry") /\ AllUnset({trace}, Iteration)
    BY <1>1, <1>2 DEF IInv, Traced, GuardsHere, AllStacked, AllMarked, AllUnset
  <1>4. "channel_push" \in SpanNames
    BY DEF SpanNames
  <1>5. /\ Stacked(trace', Iteration) /\ Unset(trace', Iteration)
        /\ trace'.reported["channel_push"] \in {"retry", "refused"}
    <2>1. /\ AllStacked(Dropped({trace}), Iteration) /\ AllUnset(Dropped({trace}), Iteration)
          /\ AllReport(Dropped({trace}), "channel_push", "retry")
      BY <1>3, <1>4, GuardNames, DroppedStack DEF Pushing
    <2> QED BY <1>1, <2>1 DEF AllStacked, AllUnset, AllReport
  <1>6. Traced'
    BY <1>1, <1>2, <1>5 DEF Traced, GuardsHere
  <1>7. StatusesTellTheTruth'
    BY <1>1, <1>2, <1>5 DEF StatusesTellTheTruth, Tells
  <1> QED BY <1>6, <1>7

\* The end of an iteration, with its status.
LEMMA IterationEndsTraced ==
  ASSUME IInv, PollSleep \/ BackoffSleep PROVE Traced' /\ StatusesTellTheTruth'
  <1> DEFINE status == IF fetched = "ok" THEN "ok" ELSE "error"
  <1>1. /\ loopPc \in {"pollSleep", "backoffSleep"} /\ loopPc' = "fetch" /\ closure' = closure
        /\ fetched' = fetched
        /\ trace' \in Dropped(Marked({trace}, status))
    <2>1. CASE PollSleep
      <3>1. fetched = "ok"
        BY <2>1 DEF PollSleep, Loop!PollSleep, IInv, DInv, LoopP!IInv, LoopP!OutcomeAtPoint
      <3> QED BY <2>1, <3>1 DEF PollSleep, Loop!PollSleep, Loop!SleepToFetch
    <2>2. CASE BackoffSleep
      <3>1. fetched = "err"
        BY <2>2 DEF BackoffSleep, Loop!BackoffSleep, IInv, DInv, LoopP!IInv, LoopP!OutcomeAtPoint
      <3> QED BY <2>2, <3>1 DEF BackoffSleep, Loop!BackoffSleep, Loop!SleepToFetch
    <2> QED BY <2>1, <2>2
  <1>2. closure = "idle"
    BY <1>1 DEF IInv, DInv, Composed
  <1>3. Stacked(trace, Iteration) /\ Unset(trace, Iteration)
    BY <1>1, <1>2 DEF IInv, Traced, GuardsHere
  <1>4. "poll_iteration" \in SpanNames /\ status \in Trace!Statuses
    BY DEF SpanNames, Trace!Statuses
  <1> HIDE DEF status
  <1> DEFINE ts == Marked({trace}, status)
  <1>5. AllStacked(ts, Iteration) /\ AllMarked(ts, status) /\ AllUnset(ts, Main)
    <2>1. AllStacked({trace}, Iteration) /\ AllUnset({trace}, Iteration)
      BY <1>3 DEF AllStacked, AllUnset
    <2>2. AllUnset({trace}, Main)
      BY <1>4, <2>1, GuardNames, UnsetInnermost DEF Iteration
    <2> QED BY <1>4, <2>1, <2>2, GuardNames, MarkedStack DEF Iteration
  <1> HIDE DEF ts
  <1>6. /\ AllStacked(Dropped(ts), Main) /\ AllUnset(Dropped(ts), Main)
        /\ AllReport(Dropped(ts), "poll_iteration", status)
    BY <1>4, <1>5, GuardNames, DroppedStack DEF Iteration
  <1>7. /\ Stacked(trace', Main) /\ Unset(trace', Main)
        /\ trace'.reported["poll_iteration"] \in {status, "refused"}
    BY <1>1, <1>6 DEF ts, AllStacked, AllUnset, AllReport
  <1>8. Traced'
    BY <1>1, <1>2, <1>7 DEF Traced, GuardsHere
  <1>9. StatusesTellTheTruth'
    BY <1>1, <1>2, <1>7 DEF StatusesTellTheTruth, Tells, status
  <1> QED BY <1>8, <1>9

\* The server, the resource and the slide open no spans.
LEMMA OthersTraced ==
  ASSUME IInv, ServerAnswers \/ ResourceChanges \/ SlidePolls \/ UNCHANGED vars
  PROVE  Traced' /\ StatusesTellTheTruth'
  <1>1. UNCHANGED <<trace, loopPc, closure, decoded, fetched, pushed, answered>>
    <2>1. CASE ServerAnswers
      BY <2>1 DEF ServerAnswers, Get!ServerAnswers, loopVars
    <2>2. CASE ResourceChanges
      BY <2>2 DEF ResourceChanges, Get!ResourceChanges, loopVars
    <2>3. CASE SlidePolls
      BY <2>3 DEF SlidePolls, Loop!SlidePolls, Loop!loopVars, Loop!histVars, getVars
    <2>4. CASE UNCHANGED vars
      BY <2>4 DEF vars, loopVars, getVars
    <2> QED BY <2>1, <2>2, <2>3, <2>4
  <1> QED BY <1>1, TracedUnchanged DEF IInv

(***************************************************************************)
(* The inductive invariant of a sidecar: data, guards and statuses.        *)
(***************************************************************************)
THEOREM Inductive == Spec => []IInv
  <1>1. Init => IInv
    BY DataInit, TracedInit DEF IInv
  <1>2. IInv /\ [Next]_vars => IInv'
    <2> SUFFICES ASSUME IInv, [Next]_vars PROVE IInv'
      OBVIOUS
    <2>1. DInv'
      BY DataNext DEF IInv
    <2>2. Traced' /\ StatusesTellTheTruth'
      <3>1. CASE FetchStarts      BY <3>1, FetchStartsTraced
      <3>2. CASE RequestFails     BY <3>2, RequestFailsTraced
      <3>3. CASE RequestReturns   BY <3>3, RequestReturnsTraced
      <3>4. CASE FetchReturns     BY <3>4, FetchReturnsTraced
      <3>5. CASE PushAccepted     BY <3>5, PushAcceptedTraced
      <3>6. CASE PushRejected     BY <3>6, PushRejectedTraced
      <3>7. CASE RetrySleep       BY <3>7, RetrySleepTraced
      <3>8. CASE PollSleep \/ BackoffSleep  BY <3>8, IterationEndsTraced
      <3>9. CASE ServerAnswers \/ ResourceChanges \/ SlidePolls \/ UNCHANGED vars
        BY <3>9, OthersTraced
      <3> QED BY <3>1, <3>2, <3>3, <3>4, <3>5, <3>6, <3>7, <3>8, <3>9 DEF Next, Program
    <2> QED BY <2>1, <2>2 DEF IInv
  <1> QED BY <1>1, <1>2, PTL DEF Spec

\* Whether the request's response was decoded is a truth value.
Decided == decoded \in BOOLEAN

(***************************************************************************)
(* Type correctness of the whole: the closure runs exactly while its       *)
(* request does, and the loop waits for it (src/poll.rs:54-61).            *)
(***************************************************************************)
THEOREM TypeCorrect == Spec => []TypeOK
  <1>1. IInv /\ Decided => TypeOK
    BY SameLoop, SameRequest DEF IInv, DInv, Composed, Traced, Stacked, TypeOK,
       Decided, LoopP!IInv, GetP!IInv
  <1>2. Init => Decided
    BY DEF Init, Decided
  <1>3. Decided /\ [Next]_vars => Decided'
    <2> SUFFICES ASSUME decoded \in BOOLEAN, [Next]_vars PROVE decoded' \in BOOLEAN
      BY DEF Decided
    <2>1. CASE FetchStarts \/ ServerAnswers \/ ResourceChanges \/ SlidePolls
      BY <2>1 DEF FetchStarts, ServerAnswers, ResourceChanges, SlidePolls
    <2>2. CASE RequestFails \/ RequestReturns \/ FetchReturns
      BY <2>2 DEF RequestFails, RequestReturns, FetchReturns
    <2>3. CASE PushAccepted \/ PushRejected \/ RetrySleep \/ PollSleep \/ BackoffSleep
      BY <2>3 DEF PushAccepted, PushRejected, RetrySleep, PollSleep, BackoffSleep
    <2>4. CASE UNCHANGED vars
      BY <2>4 DEF vars
    <2> QED BY <2>1, <2>2, <2>3, <2>4 DEF Next, Program
  <1> QED BY <1>1, <1>2, <1>3, Inductive, PTL DEF Spec

(***************************************************************************)
(* The host's open spans are those of the live guards, and none is ended   *)
(* twice, out of order or never (src/trace.rs:78-108).                     *)
(***************************************************************************)
THEOREM SpansNest == Spec => []SpansWellNested
  <1>1. IInv => SpansWellNested
    BY DEF IInv, Traced, Stacked, SpansWellNested
  <1> QED BY <1>1, Inductive, PTL

(***************************************************************************)
(* At every point of the program only the spans that are about it are      *)
(* open, so their number does not grow (src/poll.rs:54-111).               *)
(***************************************************************************)
THEOREM SpansEnd == Spec => []SpansEndInTime
  <1>1. ASSUME IInv, NEW k \in DOMAIN trace.spans
        PROVE  trace.spans[k].name \in ScopesHere
    <2>1. Stacked(trace, GuardsHere) /\ GuardsHere \in Seq(SpanNames)
      BY <1>1, GuardNames DEF IInv, Traced, GuardsHere
    <2>2. PICK i \in 1 .. Len(GuardsHere) : trace.spans[k].name = GuardsHere[i]
      BY <1>1, <2>1, SpansAreOfGuards
    <2>3. GuardsHere[i] \in ScopesHere
      <3>1. \A name \in SpanNames : name \notin ScopesHere => Fresh(name, GuardsHere)
        BY <1>1, GuardNames DEF GuardsHere, ScopesHere, SpanNames, IInv, DInv, Composed
      <3> QED BY <2>1, <2>2, <3>1, ElementOfSeq DEF Fresh
    <2> QED BY <2>2, <2>3
  <1>2. IInv => SpansEndInTime
    BY <1>1 DEF SpansEndInTime
  <1> QED BY <1>2, Inductive, PTL

(***************************************************************************)
(* What the statuses say that the host sees: of an iteration, whether its  *)
(* fetch succeeded; of a push, whether the host took the payload; of the   *)
(* closure, whether it succeeded; of a request, whether its response was   *)
(* decoded, which is not whether the request succeeded (src/poll.rs:75,    *)
(* :80, :95, :107, src/lib.rs:299-306).                                    *)
(***************************************************************************)
THEOREM StatusesTrue == Spec => []StatusesTellTheTruth
  <1>1. IInv => StatusesTellTheTruth
    BY DEF IInv
  <1> QED BY <1>1, Inductive, PTL
=============================================================================
