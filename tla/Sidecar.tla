------------------------------- MODULE Sidecar -------------------------------
(***************************************************************************)
(* A whole sidecar: poll_loop (PollLoop) whose fetch closure makes a       *)
(* conditional GET (ConditionalGet) and returns the body it keeps, traced  *)
(* from main to the host call (TraceScopes).  What one component leaves    *)
(* open is here what another one does: the data the loop fetches is the    *)
(* body the caller keeps, a fetch fails when the request does, and spans   *)
(* are opened and ended on the paths both of them take.                    *)
(*                                                                         *)
(* The closure is external, written as the crate's documentation shows it  *)
(* (src/lib.rs:13, README "Tracing"): a scope named fetch around the       *)
(* request, which it ends itself or leaves to be dropped.                  *)
(***************************************************************************)
EXTENDS Integers

CONSTANTS
  Requested, AnnounceStatuses, U32Max, FailsCap,    \* of PollLoop
  TagOf, StampOf, Absent,                           \* of ConditionalGet
  MaxVersion,                                       \* of both
  Refusable                                         \* spans the host may refuse

VARIABLES
  interval, backoff, loopPc, payload, attempt, pushed, slot, seen,
  fetched, elapsed, skip, fails, offers, taken,     \* of PollLoop
  current, body, kept, getPc, headers, response, served, answered,
                                                    \* of ConditionalGet
  closure,    \* the fetch closure: "idle", "running" or "returned"
  decoded,    \* history: the closure's request has got a response from the
              \* host that decodes, be it the host's report of an error
  trace       \* guards and spans

loopVars == <<interval, backoff, loopPc, payload, attempt, pushed, slot, seen,
              fetched, elapsed, skip, fails, offers, taken>>
getVars == <<current, body, kept, getPc, headers, response, served, answered>>
vars == <<loopVars, getVars, closure, decoded, trace>>

SpanNames == {"sidecar_main", "poll_iteration", "fetch", "host_request", "channel_push"}

Get == INSTANCE ConditionalGet WITH pc <- getPc, outcome <- answered

\* What the closure returns; before the first body, the loop's version 0.
Returned == IF body = Get!NoBody THEN 0 ELSE body

Loop == INSTANCE PollLoop WITH pc <- loopPc, source <- Returned, outcome <- fetched

Trace == INSTANCE TraceScopes WITH Names <- SpanNames

ASSUME LoopAssumption ==
  /\ Loop!RequestedAssumption
  /\ Loop!StatusAssumption
  /\ Loop!WidthAssumption
  /\ Loop!VersionAssumption
  /\ Loop!CapAssumption
ASSUME GetAssumption ==
  /\ Get!VersionAssumption
  /\ Get!TagAssumption
  /\ Get!StampAssumption
-----------------------------------------------------------------------------
(***************************************************************************)
(* What a trace may become, on sets of traces: a guard more, whose span    *)
(* the host takes or refuses; a status for the innermost guard, and its    *)
(* end, by its scope or by a call.                                         *)
(***************************************************************************)
Opened(ts, name) ==
  UNION {{Trace!trace_scope(t, name, id) :
            id \in {i \in Trace!SpanIds(t) : i > 0 \/ name \in Refusable}} : t \in ts}
Marked(ts, status) == {Trace!set_status(t, status) : t \in ts}
Dropped(ts) == {Trace!DropLast(t) : t \in ts}
Ended(ts) == {Trace!end(t) : t \in ts}

\* traced_main_entrypoint, and poll_loop up to its first iteration: main_fn
\* never returns, so the status of the outermost span is never set.
Init ==
  /\ Get!Init
  /\ Loop!Init
  /\ closure = "idle"
  /\ decoded = FALSE
  /\ trace \in Opened({Trace!Untraced}, "sidecar_main")

\* drive_once calls the closure, the closure https_get_conditional, and that
\* execute_host_request: each opens its scope.
FetchStarts ==
  /\ loopPc = "fetch"
  /\ closure = "idle"
  /\ Get!Call
  /\ closure' = "running"
  /\ trace' \in Opened(Opened(Opened({trace}, "poll_iteration"), "fetch"), "host_request")
  /\ UNCHANGED <<loopVars, decoded>>

ServerAnswers ==
  /\ Get!ServerAnswers
  /\ UNCHANGED <<loopVars, closure, decoded, trace>>

\* The request ends in an error: before its response is decoded, when ? drops
\* the guard as it is, or in it, when the guard is marked all the same.  The
\* closure's ? drops the scope above as it is.
RequestFails ==
  /\ Get!ExchangeFails
  /\ closure' = "returned"
  /\ \/ decoded' = FALSE /\ trace' \in Dropped(Dropped({trace}))
     \/ decoded' = TRUE /\ trace' \in Dropped(Dropped(Marked({trace}, "ok")))
  /\ UNCHANGED loopVars

\* The response is decoded, which is all that the span of the request is
\* about; a status that is no success is an error for the closure.
RequestReturns ==
  /\ Get!CallReturns
  /\ closure' = "returned"
  /\ decoded' = TRUE
  /\ \E t \in Dropped(Marked({trace}, "ok")) :
       \/ answered' = "ok" /\ trace' \in Dropped(Marked({t}, "ok")) \cup Ended(Marked({t}, "ok"))
       \/ answered' = "err" /\ trace' \in Dropped({t})
  /\ UNCHANGED loopVars

\* match fetch()
FetchReturns ==
  /\ closure = "returned"
  /\ closure' = "idle"
  /\ decoded' = FALSE
  /\ UNCHANGED <<getVars, trace>>
  /\ \/ answered = "ok" /\ Loop!FetchOk
     \/ answered = "err" /\ Loop!FetchErr

\* An attempt to push under a scope of its own: it ends at the break ...
PushAccepted ==
  /\ UNCHANGED <<getVars, closure, decoded>>
  /\ Loop!PushAccepted
  /\ trace' \in Dropped(Marked(Opened({trace}, "channel_push"), "ok"))

\* ... or at the end of the loop's body, after the pause.
PushRejected ==
  /\ UNCHANGED <<getVars, closure, decoded>>
  /\ Loop!PushRejected
  /\ trace' \in Marked(Opened({trace}, "channel_push"), "retry")

RetrySleep ==
  /\ UNCHANGED <<getVars, closure, decoded>>
  /\ Loop!RetrySleep
  /\ trace' \in Dropped({trace})

\* The sleep is the last thing in an iteration, and in its span.
PollSleep ==
  /\ UNCHANGED <<getVars, closure, decoded>>
  /\ Loop!PollSleep
  /\ trace' \in Dropped(Marked({trace}, "ok"))

BackoffSleep ==
  /\ UNCHANGED <<getVars, closure, decoded>>
  /\ Loop!BackoffSleep
  /\ trace' \in Dropped(Marked({trace}, "error"))

ResourceChanges ==
  /\ Get!ResourceChanges
  /\ UNCHANGED <<loopVars, closure, decoded, trace>>

SlidePolls ==
  /\ UNCHANGED <<getVars, closure, decoded, trace>>
  /\ Loop!SlidePolls

Program ==
  \/ FetchStarts
  \/ ServerAnswers
  \/ RequestFails
  \/ RequestReturns
  \/ FetchReturns
  \/ PushAccepted
  \/ PushRejected
  \/ RetrySleep
  \/ PollSleep
  \/ BackoffSleep

Next == Program \/ ResourceChanges \/ SlidePolls

Spec == Init /\ [][Next]_vars

Useful(r) == r.status \in {200, 304}

(***************************************************************************)
(* The program never stops and every call it makes returns: requests have  *)
(* timeouts.  Strong fairness is an assumption on the world: the server    *)
(* does not refuse for ever, not every answer is lost, and the host takes  *)
(* a payload again and again.                                              *)
(***************************************************************************)
Fairness ==
  /\ WF_vars(Program)
  /\ WF_vars(SlidePolls)
  /\ SF_vars(ServerAnswers /\ Useful(response'))
  /\ SF_vars(Useful(response) /\ RequestReturns)
  /\ SF_vars(PushAccepted)

FairSpec == Spec /\ Fairness
-----------------------------------------------------------------------------
TypeOK ==
  /\ Loop!TypeOK
  /\ Get!TypeOK
  /\ closure \in {"idle", "running", "returned"}
  /\ decoded \in BOOLEAN
  /\ closure # "idle" => loopPc = "fetch"
  /\ (closure = "running") <=> (getPc # "idle")
  /\ Trace!IsTrace(trace)

(***************************************************************************)
(* From the server's data to the slide's screen: a lossy feed that never   *)
(* goes back, although bodies are kept across 304s, requests and pushes    *)
(* fail at any point, and a payload is retried while the data changes      *)
(* (src/poll.rs:61-84, src/lib.rs:144-158).                                *)
(***************************************************************************)
Feed == INSTANCE LatestValueFeed WITH source <- current

ImplementsFeed == Feed!FeedSpec

(***************************************************************************)
(* What is pushed in an iteration is what the server had when it answered  *)
(* in that iteration: neither an older body that a 304 does not speak of,  *)
(* nor an error page, nor what an earlier push left over                   *)
(* (src/lib.rs:144-158, src/poll.rs:61-81).                                *)
(***************************************************************************)
PushesWhatWasServed ==
  /\ loopPc \in {"push", "retrySleep", "pollSleep"} => payload = served
  /\ loopPc = "pollSleep" /\ pushed => slot = served

(***************************************************************************)
(* Once the server's data stops changing, the slide ends up showing it, if *)
(* servers and host do not fail for ever (src/poll.rs:20-22).              *)
(***************************************************************************)
Converges == <>[](seen = current)

(***************************************************************************)
(* The host's open spans are those of the live guards, nested like them,   *)
(* whichever path a fetch takes and whichever spans the host refused: none *)
(* is ended twice, out of order or never (src/trace.rs:78-108).            *)
(***************************************************************************)
SpansWellNested == Trace!WellNested(trace)

(***************************************************************************)
(* No span outlives what it is about: between iterations only that of main *)
(* is open, in the long sleeps only that of the iteration besides, and     *)
(* that of a push only in the pause after it.  So the host's list of open  *)
(* spans does not grow with the days (src/poll.rs:54-111,                  *)
(* src/lib.rs:299-306).                                                    *)
(***************************************************************************)
ScopesHere ==
  CASE closure = "running" -> SpanNames \ {"channel_push"}
    [] closure = "idle" /\ loopPc = "fetch" -> {"sidecar_main"}
    [] loopPc = "retrySleep" -> {"sidecar_main", "poll_iteration", "channel_push"}
    [] OTHER -> {"sidecar_main", "poll_iteration"}

SpansEndInTime ==
  \A i \in DOMAIN trace.spans : trace.spans[i].name \in ScopesHere

(***************************************************************************)
(* What the statuses the host sees say.  An iteration ends ok exactly when *)
(* its fetch succeeded, and error otherwise; the last push ok exactly when *)
(* the host took the payload, and retry otherwise.  The closure's span     *)
(* ends ok exactly when the closure succeeded, that of the request exactly *)
(* when its response was decoded, and otherwise they end without a status: *)
(* so an ok of the request alone does not say that it succeeded, since a   *)
(* HostResponse::Error is decoded too (src/poll.rs:75, :80, :95, :107,     *)
(* src/lib.rs:299-306).                                                    *)
(***************************************************************************)
Tells(name, status) == trace.reported[name] \in {status, "refused"}

StatusesTellTheTruth ==
  /\ loopPc = "fetch" /\ closure = "idle" /\ fetched # "none" =>
       Tells("poll_iteration", IF fetched = "ok" THEN "ok" ELSE "error")
  /\ loopPc = "pollSleep" =>
       Tells("channel_push", IF pushed THEN "ok" ELSE "retry")
  /\ closure = "returned" =>
       /\ Tells("fetch", IF answered = "ok" THEN "ok" ELSE Trace!NoStatus)
       /\ Tells("host_request", IF decoded THEN "ok" ELSE Trace!NoStatus)
=============================================================================
