--------------------------- MODULE ConditionalGet ---------------------------
(***************************************************************************)
(* https_get_conditional (src/lib.rs) between a caller that keeps a body   *)
(* with its validators and a server whose resource changes: the condition  *)
(* headers of the request, the validators of the response on their way     *)
(* through the host (src/host_request.rs), and what a 200, a 304 and any   *)
(* other status become.                                                    *)
(*                                                                         *)
(* The caller is external and does what the function is for (the test at   *)
(* src/lib.rs:342 does it once): it passes the validators it kept, and     *)
(* keeps what it gets, an empty body meaning that the one it has is good.  *)
(* A body is the version of the resource it shows; no version is empty.    *)
(***************************************************************************)
EXTENDS Integers

CONSTANTS
  MaxVersion,    \* bound: versions the resource goes through
  TagOf,         \* TagOf[v]: the ETag of a version
  StampOf,       \* StampOf[v]: its Last-Modified
  Absent         \* a validator that is not there

Versions == 0 .. MaxVersion
NoBody == -1        \* the empty body, and no body yet
ErrorPage == -2     \* the body of a response that is no success

(***************************************************************************)
(* Both validators tell versions apart.  Two versions within the second    *)
(* that Last-Modified resolves would be a 304 that HTTP itself gets wrong. *)
(***************************************************************************)
ASSUME VersionAssumption == MaxVersion \in Nat
ASSUME TagAssumption ==
  /\ Absent \notin Int
  /\ TagOf \in [Versions -> Int]
  /\ \A v, w \in Versions : TagOf[v] = TagOf[w] => v = w
ASSUME StampAssumption ==
  /\ StampOf \in [Versions -> Int]
  /\ \A v, w \in Versions : v < w => StampOf[v] < StampOf[w]

VARIABLES
  current,     \* environment: the version the server has
  body,        \* the version in the body the caller keeps, or NoBody
  kept,        \* the validators the caller keeps
  pc,          \* "idle", "sent", "answered"
  headers,     \* the conditions in the request, if one is under way
  response,    \* what the server answered
  served,      \* history: the version it had then, or NoBody
  outcome      \* history: how the latest call ended

callerVars == <<body, kept>>
vars == <<current, callerVars, pc, headers, response, served, outcome>>

Names == {"etag", "last_modified"}
Validators == [Names -> Int \cup {Absent}]
NoValidators == [name \in Names |-> Absent]

ValidatorsOf(v) ==
  [name \in Names |-> IF name = "etag" THEN TagOf[v] ELSE StampOf[v]]

Refusals == {404, 500}
Responses ==
  [status : {200, 304} \cup Refusals, body : Versions \cup {NoBody, ErrorPage},
   validators : Validators]

ConditionOf ==
  [name \in Names |->
     IF name = "etag" THEN "If-None-Match" ELSE "If-Modified-Since"]
-----------------------------------------------------------------------------
(***************************************************************************)
(* Faulty variants, each a slip the code could contain.                    *)
(***************************************************************************)
OrElse_Received(received, given) == received
ValidatorsOf200_OrGiven(received, given) ==
  [name \in Names |-> IF received[name] # Absent THEN received[name] ELSE given[name]]
Successful_Any(status) == TRUE
-----------------------------------------------------------------------------
(***************************************************************************)
(* The host's half: a response crosses the bridge with the headers that    *)
(* headers_from_response makes of its validators, and header_value picks   *)
(* them out again.                                                         *)
(***************************************************************************)
headers_from_response(validators) ==
  {[name |-> name, value |-> validators[name]] :
     name \in {n \in Names : validators[n] # Absent}}

header_value(list, name) ==
  IF \E header \in list : header.name = name
  THEN (CHOOSE header \in list : header.name = name).value
  ELSE Absent

Bridged(validators) ==
  [name \in Names |-> header_value(headers_from_response(validators), name)]

\* If-None-Match and If-Modified-Since, for the arguments that are given.
Conditions(given) ==
  {[name |-> ConditionOf[name], value |-> given[name]] :
     name \in {n \in Names : given[n] # Absent}}

\* response.etag.or_else(etag), and the same for last_modified.
OrElse(received, given) == IF received # Absent THEN received ELSE given

ValidatorsOf304(received, given) ==
  [name \in Names |-> OrElse(received[name], given[name])]

\* Those of the response alone: a new body has no use for the old ones.
ValidatorsOf200(received, given) == received

\* successful_body
Successful(status) == status \in 200 .. 299

Ok(b, validators) == [kind |-> "ok", body |-> b, validators |-> validators]
Err == [kind |-> "err", body |-> NoBody, validators |-> NoValidators]

https_get_conditional(given, r) ==
  IF r.status = 304
  THEN Ok(NoBody, ValidatorsOf304(Bridged(r.validators), given))
  ELSE IF Successful(r.status)
  THEN Ok(r.body, ValidatorsOf200(Bridged(r.validators), given))
  ELSE Err
-----------------------------------------------------------------------------
(***************************************************************************)
(* The server: If-None-Match decides if it is there, else                  *)
(* If-Modified-Since.  It may ignore both, leave out any validator, and    *)
(* refuse.                                                                 *)
(***************************************************************************)
NotModified(conditions) ==
  LET inm == header_value(conditions, "If-None-Match")
      ims == header_value(conditions, "If-Modified-Since")
  IN  IF inm # Absent
      THEN inm = TagOf[current]
      ELSE ims # Absent /\ ims >= StampOf[current]

SomeOf(validators) ==
  {some \in [Names -> {validators[name] : name \in Names} \cup {Absent}] :
     \A name \in Names : some[name] \in {validators[name], Absent}}

Answers(conditions) ==
  LET With(status, b) ==
        {[status |-> status, body |-> b, validators |-> some] :
           some \in SomeOf(ValidatorsOf(current))}
  IN  With(200, current)
      \cup (UNION {With(status, ErrorPage) : status \in Refusals})
      \cup (IF NotModified(conditions) THEN With(304, NoBody) ELSE {})

NoResponse == [status |-> 500, body |-> NoBody, validators |-> NoValidators]

Init ==
  /\ current = 0
  /\ body = NoBody
  /\ kept = NoValidators
  /\ pc = "idle"
  /\ headers = {}
  /\ response = NoResponse
  /\ served = NoBody
  /\ outcome = "none"
-----------------------------------------------------------------------------
\* The caller calls https_get_conditional with what it kept.
Call ==
  /\ pc = "idle"
  /\ pc' = "sent"
  /\ headers' = Conditions(kept)
  /\ UNCHANGED <<current, callerVars, response, served, outcome>>

ServerAnswers ==
  /\ pc = "sent"
  /\ response' \in Answers(headers)
  /\ served' = current
  /\ pc' = "answered"
  /\ UNCHANGED <<current, callerVars, headers, outcome>>

\* execute_https_get returns an error: nothing was answered, or it was lost.
ExchangeFails ==
  /\ pc \in {"sent", "answered"}
  /\ pc' = "idle"
  /\ headers' = {}
  /\ response' = NoResponse
  /\ outcome' = "err"
  /\ UNCHANGED <<current, callerVars, served>>

\* The call returns, and the caller keeps what it got.
CallReturns ==
  /\ pc = "answered"
  /\ LET result == https_get_conditional(kept, response)
     IN  /\ outcome' = result.kind
         /\ \/ /\ result.kind = "ok"
               /\ body' = IF result.body = NoBody THEN body ELSE result.body
               /\ kept' = result.validators
            \/ /\ result.kind = "err"
               /\ UNCHANGED callerVars
  /\ pc' = "idle"
  /\ headers' = {}
  /\ response' = NoResponse
  /\ UNCHANGED <<current, served>>

\* The resource changes, also while a request is under way.
ResourceChanges ==
  /\ current < MaxVersion
  /\ current' = current + 1
  /\ UNCHANGED <<callerVars, pc, headers, response, served, outcome>>

Next ==
  \/ Call
  \/ ServerAnswers
  \/ ExchangeFails
  \/ CallReturns
  \/ ResourceChanges

Spec == Init /\ [][Next]_vars
-----------------------------------------------------------------------------
TypeOK ==
  /\ current \in Versions
  /\ body \in Versions \cup {NoBody}
  /\ kept \in Validators
  /\ pc \in {"idle", "sent", "answered"}
  /\ headers \subseteq [name : {"If-None-Match", "If-Modified-Since"}, value : Int]
  /\ response \in Responses
  /\ served \in Versions \cup {NoBody}
  /\ outcome \in {"none", "ok", "err"}

(***************************************************************************)
(* The validators the caller keeps are those of the body it keeps, however *)
(* 200s, 304s and errors followed each other and whichever validators the  *)
(* server left out: else a later 304 would confirm a body that is not the  *)
(* current one, for ever (src/lib.rs:144-158).                             *)
(***************************************************************************)
Coherent ==
  \A name \in Names :
    kept[name] # Absent => body \in Versions /\ kept[name] = ValidatorsOf(body)[name]

(***************************************************************************)
(* After a call that succeeded the caller has the version the server had   *)
(* when it answered, whether the body came with a 200 or was confirmed by  *)
(* a 304 (src/lib.rs:130-159).                                             *)
(***************************************************************************)
UpToDate == pc = "idle" /\ outcome = "ok" => body = served

(***************************************************************************)
(* A 304 loses no validator: what the server leaves out of it is still in  *)
(* the next request, which can be answered with a 304 again                *)
(* (src/lib.rs:124-125, :145-152).                                         *)
(***************************************************************************)
NotModifiedKeepsValidators ==
  [][CallReturns /\ response.status = 304 =>
       \A name \in Names : kept[name] # Absent => kept'[name] = kept[name]]_vars
=============================================================================
