----------------------------- MODULE HostBridge -----------------------------
(***************************************************************************)
(* execute_host_request and what is on both sides of it: the sidecar's     *)
(* helpers (src/lib.rs), the three host calls of network_roundtrip         *)
(* (src/channel.rs), and the wire and its execution (src/host_request.rs). *)
(*                                                                         *)
(* In wasm the request goes to the host in one call and its response is    *)
(* fetched with two more; nothing on the wire says which request a         *)
(* response belongs to.  A native build executes the request itself.       *)
(*                                                                         *)
(* The host runtime is external: it may be of another version, fail any    *)
(* call, hand over less than it announced, and it keeps its response slot  *)
(* until the next response.                                                *)
(***************************************************************************)
EXTENDS Integers

CONSTANTS
  Ops,            \* the operations: "https_get", "tcp_connect"
  Tags,           \* what tells requests of one operation apart
  Statuses,       \* what a host call may return: 0 and some failures
  WireVersions,   \* the wire versions of hosts
  Idle            \* no request, outcome, answer or response

WIRE_VERSION == 1

Requests == [op : Ops, tag : Tags]

ASSUME OpsAssumption     == Ops \subseteq {"https_get", "tcp_connect"}
ASSUME StatusAssumption  == Statuses \subseteq Int /\ 0 \in Statuses
ASSUME VersionAssumption == WireVersions \subseteq Nat /\ WIRE_VERSION \in WireVersions
ASSUME IdleAssumption    ==
  /\ Idle \notin Requests
  /\ \A r \in Requests : Idle # [kind |-> "ok", of |-> r]
  /\ \A c \in {"dns", "tls", "http", "io", "timeout"} :
       Idle # [kind |-> "err", class |-> c]

VARIABLES
  pc,         \* the point execute_host_request has reached
  request,    \* its argument, or Idle
  outcome,    \* history: what the execution of the request gave, or Idle
  slot,       \* external: the host's encoded response, or Idle
  bytes,      \* what network_roundtrip read of it, or Idle
  answer      \* what the public helper returned last, or Idle

vars == <<pc, request, outcome, slot, bytes, answer>>

Points == {"idle", "submit", "len", "read", "decode"}

\* The promise; Call!Done and Call!Failed are its outcomes and answers.
Call == INSTANCE HostCall
-----------------------------------------------------------------------------
(***************************************************************************)
(* Faulty variants, each a slip the code could contain.                    *)
(***************************************************************************)
SubmitFailed_NegativeOnly(status) == status < 0
VersionSupported_Any(version) == TRUE
ErrorKindOf_Kept(class) == class
ErrorKindOf_HttpAsTimeout(class) ==
  CASE class = "dns" -> "Dns"
    [] class = "tls" -> "Tls"
    [] class = "io" -> "Io"
    [] OTHER -> "Timeout"
decode_error_NoTls(kind) ==
  CASE kind = "Dns" -> "dns"
    [] kind = "Timeout" -> "timeout"
    [] OTHER -> "io"
-----------------------------------------------------------------------------
(***************************************************************************)
(* The wire: a version and a response.  error_response has no class of its *)
(* own for an HTTP status.                                                 *)
(***************************************************************************)
ErrorKinds == {"Dns", "Tls", "Io", "Timeout"}
ErrorKindOf(class) ==
  CASE class = "dns" -> "Dns"
    [] class = "tls" -> "Tls"
    [] class = "timeout" -> "Timeout"
    [] OTHER -> "Io"

\* The class that a kind on the wire is for the caller.
decode_error(kind) ==
  CASE kind = "Dns" -> "dns"
    [] kind = "Tls" -> "tls"
    [] kind = "Timeout" -> "timeout"
    [] OTHER -> "io"

\* execute_request: the response of the kind that belongs to the request.
ResponseTo(o) ==
  IF o.kind = "ok"
  THEN [kind |-> o.of.op, of |-> o.of]
  ELSE [kind |-> "error", error_kind |-> ErrorKindOf(o.class)]

Responses ==
  [kind : Ops, of : Requests] \cup [kind : {"error"}, error_kind : ErrorKinds]

Encoded(version, response) ==
  [version |-> version, response |-> response, whole |-> TRUE]
Encodings == [version : WireVersions, response : Responses, whole : BOOLEAN]

ASSUME EncodingAssumption == Idle \notin Encodings

\* A JSON object that was cut off does not parse.
Decodable(encoding) == encoding.whole
VersionSupported(version) == version = WIRE_VERSION

\* The helper's match on the response: a response of another kind is an error.
Answer(r, response) ==
  IF response.kind = r.op THEN Call!Done(response.of)
  ELSE IF response.kind = "error" THEN Call!Failed(decode_error(response.error_kind))
  ELSE Call!Failed("io")

\* decode_response, then the helper's match.
Decoded(r, encoding) ==
  IF Decodable(encoding) /\ VersionSupported(encoding.version)
  THEN Answer(r, encoding.response)
  ELSE Call!Failed("io")

\* A host of another version means anything by its response, one of this
\* version what execute_request returns; a host may also mix up the kinds.
HostEncodings(o) ==
  {Encoded(WIRE_VERSION, ResponseTo(o))}
  \cup {Encoded(version, response) :
          version \in WireVersions \ {WIRE_VERSION}, response \in Responses}
  \cup {Encoded(WIRE_VERSION, [kind |-> op, of |-> request]) :
          op \in Ops \ {request.op}}
-----------------------------------------------------------------------------
Init ==
  /\ pc = "idle"
  /\ request = Idle
  /\ outcome = Idle
  /\ slot = Idle
  /\ bytes = Idle
  /\ answer = Idle

\* https_get, https_get_conditional or tcp_connect is called.
Begin ==
  /\ pc = "idle"
  /\ request' \in Requests
  /\ outcome' = Idle
  /\ answer' = Idle
  /\ pc' = "submit"
  /\ UNCHANGED <<slot, bytes>>

Return(a) ==
  /\ pc' = "idle"
  /\ request' = Idle
  /\ bytes' = Idle
  /\ answer' = a

\* submit_status != 0
SubmitFailed(status) == status # 0

\* A native build: the response of execute_request goes to the match.
ExecuteNatively ==
  /\ pc = "submit"
  /\ outcome' \in Call!OutcomesOf(request)
  /\ Return(Answer(request, ResponseTo(outcome')))
  /\ UNCHANGED slot

\* What the host does with the request: nothing, or execute it and replace
\* its response, which it may fail to do if it says so.
HostHandles(status) ==
  \/ status # 0 /\ UNCHANGED <<outcome, slot>>
  \/ /\ outcome' \in Call!OutcomesOf(request)
     /\ \/ slot' \in HostEncodings(outcome')
        \/ status # 0 /\ UNCHANGED slot

NetworkRequest ==
  /\ pc = "submit"
  /\ \E status \in Statuses :
       /\ HostHandles(status)
       /\ \/ SubmitFailed(status) /\ Return(Call!Failed("io"))
          \/ ~SubmitFailed(status) /\ pc' = "len" /\ UNCHANGED <<request, bytes, answer>>

\* network_response_len returns a length, for which the sidecar allocates; a
\* host without a response has none to return.
ResponseLen ==
  /\ pc = "len"
  /\ slot # Idle
  /\ pc' = "read"
  /\ UNCHANGED <<request, outcome, slot, bytes, answer>>

\* network_response_read copies the response, or a part of it: truncate.
ResponseRead ==
  /\ pc = "read"
  /\ pc' = "decode"
  /\ \E whole \in BOOLEAN : bytes' = [slot EXCEPT !.whole = whole]
  /\ UNCHANGED <<request, outcome, slot, answer>>

\* Either of them returns a negative status.
ResponseFails ==
  /\ pc \in {"len", "read"}
  /\ Return(Call!Failed("io"))
  /\ UNCHANGED <<outcome, slot>>

Decode ==
  /\ pc = "decode"
  /\ Return(Decoded(request, bytes))
  /\ UNCHANGED <<outcome, slot>>

Next ==
  \/ Begin
  \/ ExecuteNatively
  \/ NetworkRequest
  \/ ResponseLen
  \/ ResponseRead
  \/ ResponseFails
  \/ Decode

Spec == Init /\ [][Next]_vars
-----------------------------------------------------------------------------
TypeOK ==
  /\ pc \in Points
  /\ request \in Requests \cup {Idle}
  /\ (request = Idle) <=> (pc = "idle")
  /\ outcome \in {Idle} \cup UNION {Call!OutcomesOf(r) : r \in Requests}
  /\ slot \in Encodings \cup {Idle}
  /\ bytes \in Encodings \cup {Idle}
  /\ (bytes # Idle) <=> (pc = "decode")
  /\ answer \in {Idle} \cup {Call!Done(r) : r \in Requests}
                        \cup {Call!Failed(class) : class \in Call!Classes \ {"http"}}

(***************************************************************************)
(* Three host calls and a shared response slot make one call: it returns   *)
(* the outcome of its own request, with the class of a failure, or an I/O  *)
(* error; never the response to an earlier request that the host still     *)
(* holds, never a piece of a response, never one of another wire version   *)
(* (src/channel.rs:100-127, src/host_request.rs:133-187, src/lib.rs:250).  *)
(***************************************************************************)
ImplementsHostCall == Call!CallSpec

(***************************************************************************)
(* A success that reaches the caller is not hidden by the bridge, and a    *)
(* failure not made up: when the host kept its side (this wire version,    *)
(* the right kind, all of the response), the caller gets what execution    *)
(* gave (src/lib.rs:255-283).                                              *)
(***************************************************************************)
HonestBridgeDelivers ==
  pc = "decode" /\ bytes = Encoded(WIRE_VERSION, ResponseTo(outcome))
  => Decoded(request, bytes) = Call!Seen(outcome)
=============================================================================
