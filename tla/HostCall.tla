------------------------------ MODULE HostCall ------------------------------
(***************************************************************************)
(* What a request that the host makes for a sidecar promises, whatever     *)
(* carries it: the request is executed at most once, and the call returns  *)
(* what that execution gave or an I/O error.  The class of a failure       *)
(* survives, except that an HTTP status on the way to a result is an I/O   *)
(* error to the caller.                                                    *)
(***************************************************************************)
CONSTANTS
  Requests,    \* records with a field op, and what tells them apart
  Idle         \* no request, outcome or answer

VARIABLES
  request,     \* the request of the call under way, or Idle
  outcome,     \* what its execution gave, or Idle
  answer       \* what the latest call returned, or Idle

callVars == <<request, outcome, answer>>

Classes == {"dns", "tls", "http", "io", "timeout"}
Done(r) == [kind |-> "ok", of |-> r]
Failed(class) == [kind |-> "err", class |-> class]
OutcomesOf(r) == {Done(r)} \cup {Failed(class) : class \in Classes}

\* What the caller sees of an outcome.
Seen(o) == IF o = Failed("http") THEN Failed("io") ELSE o

CallInit ==
  /\ request = Idle
  /\ outcome = Idle
  /\ answer = Idle

Begin ==
  /\ request = Idle
  /\ request' \in Requests
  /\ outcome' = Idle
  /\ answer' = Idle

Execute ==
  /\ request # Idle
  /\ outcome = Idle
  /\ outcome' \in OutcomesOf(request)
  /\ UNCHANGED <<request, answer>>

Return ==
  /\ request # Idle
  /\ request' = Idle
  /\ \/ answer' = Failed("io")
     \/ outcome # Idle /\ answer' = Seen(outcome)
  /\ UNCHANGED outcome

\* Both in one step.
ExecuteAndReturn ==
  /\ request # Idle
  /\ outcome = Idle
  /\ outcome' \in OutcomesOf(request)
  /\ request' = Idle
  /\ answer' \in {Failed("io"), Seen(outcome')}

CallNext == Begin \/ Execute \/ Return \/ ExecuteAndReturn

CallSpec == CallInit /\ [][CallNext]_callVars
=============================================================================
