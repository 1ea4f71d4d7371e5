-------------------------- MODULE HostBridgeProofs --------------------------
(***************************************************************************)
(* HostBridge implements HostCall, for every set of request tags, statuses *)
(* and wire versions.  The invariant says what the refinement needs: while *)
(* the sidecar fetches a response, the slot holds one that the host made   *)
(* of the outcome of this very request.                                    *)
(***************************************************************************)
EXTENDS HostBridge, TLAPS

OutcomeIsOfRequest ==
  /\ pc = "submit" => outcome = Idle
  /\ pc \in {"len", "read", "decode"} => outcome \in Call!OutcomesOf(request)

ResponseIsOfOutcome ==
  /\ pc \in {"len", "read"} => slot \in HostEncodings(outcome)
  /\ pc = "decode" /\ bytes.whole => bytes \in HostEncodings(outcome)

IInv == TypeOK /\ OutcomeIsOfRequest /\ ResponseIsOfOutcome

(***************************************************************************)
(* Idle is none of the values it stands in for.                            *)
(***************************************************************************)
LEMMA IdleApart ==
  /\ Idle \notin Requests
  /\ \A r \in Requests : Idle \notin Call!OutcomesOf(r)
  /\ \A r \in Requests : Call!OutcomesOf(r) \subseteq UNION {Call!OutcomesOf(q) : q \in Requests}
BY IdleAssumption DEF Call!OutcomesOf, Call!Done, Call!Failed, Call!Classes

(***************************************************************************)
(* Everything a host may put in the slot is an encoding.                   *)
(***************************************************************************)
LEMMA HostEncodingsTyped ==
  ASSUME request \in Requests, NEW o \in Call!OutcomesOf(request)
  PROVE  HostEncodings(o) \subseteq Encodings
<1>1. ResponseTo(o) \in Responses
  BY DEF ResponseTo, Responses, Call!OutcomesOf, Call!Done, Call!Failed, Call!Classes,
         Requests, ErrorKindOf, ErrorKinds
<1>2. \A op \in Ops : [kind |-> op, of |-> request] \in Responses
  BY DEF Responses
<1>3. \A version \in WireVersions, response \in Responses :
        Encoded(version, response) \in Encodings
  BY DEF Encoded, Encodings
<1>4. ASSUME NEW e \in HostEncodings(o)
      PROVE  \E version \in WireVersions, response \in Responses :
               e = Encoded(version, response)
  <2>1. CASE e = Encoded(WIRE_VERSION, ResponseTo(o))
    BY <2>1, <1>1, VersionAssumption
  <2>2. CASE e \in {Encoded(version, response) :
                      version \in WireVersions \ {WIRE_VERSION}, response \in Responses}
    BY <2>2
  <2>3. CASE e \in {Encoded(WIRE_VERSION, [kind |-> op, of |-> request]) :
                      op \in Ops \ {request.op}}
    BY <2>3, <1>2, VersionAssumption
  <2>4. QED
    BY <1>4, <2>1, <2>2, <2>3 DEF HostEncodings
<1>5. QED
  BY <1>3, <1>4

(***************************************************************************)
(* The heart of the bridge: a whole response of this wire version that the *)
(* host made of an outcome is read back as that outcome, one of the wrong  *)
(* kind or of another version as an I/O error (src/lib.rs:255-283).        *)
(***************************************************************************)
LEMMA DecodedIsSeen ==
  ASSUME request \in Requests, NEW o \in Call!OutcomesOf(request),
         NEW e \in Encodings, e.whole => e \in HostEncodings(o)
  PROVE  Decoded(request, e) \in {Call!Failed("io"), Call!Seen(o)}
<1>1. CASE ~(Decodable(e) /\ VersionSupported(e.version))
  BY <1>1 DEF Decoded
<1>2. CASE Decodable(e) /\ VersionSupported(e.version)
  <2>1. Decoded(request, e) = Answer(request, e.response)
    BY <1>2 DEF Decoded
  <2>2. e \in HostEncodings(o) /\ e.version = WIRE_VERSION
    BY <1>2 DEF Decodable, VersionSupported
  <2>3. \/ e.response = ResponseTo(o)
        \/ \E op \in Ops \ {request.op} : e.response = [kind |-> op, of |-> request]
    BY <2>2 DEF HostEncodings, Encoded
  <2>4. request.op \in Ops /\ request.op # "error"
    BY OpsAssumption DEF Requests
  <2>5. CASE \E op \in Ops \ {request.op} : e.response = [kind |-> op, of |-> request]
    BY <2>1, <2>5, OpsAssumption DEF Answer
  <2>6. CASE e.response = ResponseTo(o) /\ o = Call!Done(request)
    <3>1. e.response = [kind |-> request.op, of |-> request]
      BY <2>6 DEF ResponseTo, Call!Done
    <3>2. Call!Seen(o) = o
      BY <2>6 DEF Call!Seen, Call!Done, Call!Failed
    <3>3. QED
      BY <2>1, <2>6, <3>1, <3>2 DEF Answer
  <2>7. CASE e.response = ResponseTo(o) /\ \E c \in Call!Classes : o = Call!Failed(c)
    <3>1. PICK c \in Call!Classes : o = Call!Failed(c)
      BY <2>7
    <3>2. e.response = [kind |-> "error", error_kind |-> ErrorKindOf(c)]
      BY <2>7, <3>1 DEF ResponseTo, Call!Failed
    <3>3. Answer(request, e.response) = Call!Failed(decode_error(ErrorKindOf(c)))
      BY <3>2, <2>4 DEF Answer
    <3>4. Call!Seen(o) = Call!Failed(decode_error(ErrorKindOf(c)))
      BY <3>1 DEF Call!Seen, Call!Failed, Call!Classes, ErrorKindOf, decode_error
    <3>5. QED
      BY <2>1, <3>3, <3>4
  <2>8. QED
    BY <2>3, <2>5, <2>6, <2>7 DEF Call!OutcomesOf
<1>3. QED
  BY <1>1, <1>2

(***************************************************************************)
(* A native build answers what execution gave.                             *)
(***************************************************************************)
LEMMA NativeIsSeen ==
  ASSUME request \in Requests, NEW o \in Call!OutcomesOf(request)
  PROVE  Answer(request, ResponseTo(o)) = Call!Seen(o)
<1>1. request.op # "error"
  BY OpsAssumption DEF Requests
<1>2. CASE o = Call!Done(request)
  <2>1. ResponseTo(o) = [kind |-> request.op, of |-> request]
    BY <1>2 DEF ResponseTo, Call!Done
  <2>2. Call!Seen(o) = o
    BY <1>2 DEF Call!Seen, Call!Done, Call!Failed
  <2>3. QED
    BY <1>2, <2>1, <2>2 DEF Answer
<1>3. CASE \E c \in Call!Classes : o = Call!Failed(c)
  <2>1. PICK c \in Call!Classes : o = Call!Failed(c)
    BY <1>3
  <2>2. ResponseTo(o) = [kind |-> "error", error_kind |-> ErrorKindOf(c)]
    BY <2>1 DEF ResponseTo, Call!Failed
  <2>3. Answer(request, ResponseTo(o)) = Call!Failed(decode_error(ErrorKindOf(c)))
    BY <1>1, <2>2 DEF Answer
  <2>4. QED
    BY <2>1, <2>3 DEF Call!Seen, Call!Failed, Call!Classes, ErrorKindOf, decode_error
<1>4. QED
  BY <1>2, <1>3 DEF Call!OutcomesOf

(***************************************************************************)
(* What a caller may see is an answer.                                     *)
(***************************************************************************)
Answers == {Call!Done(r) : r \in Requests}
           \cup {Call!Failed(class) : class \in Call!Classes \ {"http"}}

LEMMA SeenTyped ==
  ASSUME request \in Requests, NEW o \in Call!OutcomesOf(request)
  PROVE  Call!Failed("io") \in Answers /\ Call!Seen(o) \in Answers
BY DEF Answers, Call!Seen, Call!OutcomesOf, Call!Done, Call!Failed, Call!Classes

LEMMA InitEstablishesIInv == Init => IInv
BY DEF Init, IInv, TypeOK, Points, OutcomeIsOfRequest, ResponseIsOfOutcome

LEMMA BeginPreserves == IInv /\ Begin => IInv'
BY IdleApart DEF IInv, TypeOK, Points, OutcomeIsOfRequest, ResponseIsOfOutcome, Begin

LEMMA ExecuteNativelyPreserves == IInv /\ ExecuteNatively => IInv'
<1> SUFFICES ASSUME IInv, ExecuteNatively PROVE IInv'
  OBVIOUS
<1>1. request \in Requests
  BY DEF IInv, TypeOK, ExecuteNatively
<1>2. outcome' \in UNION {Call!OutcomesOf(r) : r \in Requests} /\ answer' \in Answers
  BY <1>1, NativeIsSeen, SeenTyped, IdleApart DEF ExecuteNatively, Return
<1>3. pc' = "idle" /\ request' = Idle /\ bytes' = Idle /\ UNCHANGED slot
  BY DEF ExecuteNatively, Return
<1>4. QED
  BY <1>2, <1>3 DEF IInv, TypeOK, Points, OutcomeIsOfRequest, ResponseIsOfOutcome, Answers

(***************************************************************************)
(* Whatever the host does, the outcome and its response stay in step, and  *)
(* a status of 0 means that both are of this request.                      *)
(***************************************************************************)
LEMMA HostHandlesEffect ==
  ASSUME IInv, pc = "submit", NEW status \in Statuses, HostHandles(status)
  PROVE  /\ outcome' \in {Idle} \cup Call!OutcomesOf(request)
         /\ slot' \in Encodings \cup {Idle}
         /\ status = 0 => outcome' \in Call!OutcomesOf(request) /\ slot' \in HostEncodings(outcome')
<1>1. request \in Requests /\ outcome = Idle /\ slot \in Encodings \cup {Idle}
  BY DEF IInv, TypeOK, OutcomeIsOfRequest
<1>2. CASE status # 0 /\ UNCHANGED <<outcome, slot>>
  BY <1>1, <1>2
<1>3. CASE outcome' \in Call!OutcomesOf(request) /\ slot' \in HostEncodings(outcome')
  BY <1>1, <1>3, HostEncodingsTyped
<1>4. CASE outcome' \in Call!OutcomesOf(request) /\ status # 0 /\ UNCHANGED slot
  BY <1>1, <1>4
<1>5. QED
  BY <1>2, <1>3, <1>4 DEF HostHandles

LEMMA NetworkRequestPreserves == IInv /\ NetworkRequest => IInv'
<1> SUFFICES ASSUME IInv, pc = "submit", NEW status \in Statuses, HostHandles(status),
                    \/ SubmitFailed(status) /\ Return(Call!Failed("io"))
                    \/ ~SubmitFailed(status) /\ pc' = "len" /\ UNCHANGED <<request, bytes, answer>>
             PROVE  IInv'
  BY DEF NetworkRequest
<1>1. request \in Requests /\ bytes = Idle
  BY DEF IInv, TypeOK
<1>2. /\ outcome' \in {Idle} \cup UNION {Call!OutcomesOf(r) : r \in Requests}
      /\ slot' \in Encodings \cup {Idle}
  BY <1>1, HostHandlesEffect, IdleApart
<1>3. CASE SubmitFailed(status) /\ Return(Call!Failed("io"))
  <2>1. Call!Failed("io") \in {Call!Failed(class) : class \in Call!Classes \ {"http"}}
    BY DEF Call!Classes
  <2>2. QED
    BY <1>2, <1>3, <2>1
    DEF IInv, TypeOK, Points, OutcomeIsOfRequest, ResponseIsOfOutcome, Return
<1>4. CASE ~SubmitFailed(status) /\ pc' = "len" /\ UNCHANGED <<request, bytes, answer>>
  <2>1. outcome' \in Call!OutcomesOf(request) /\ slot' \in HostEncodings(outcome')
    BY <1>4, HostHandlesEffect DEF SubmitFailed
  <2>2. Call!OutcomesOf(request)' = Call!OutcomesOf(request)
    BY <1>4 DEF Call!OutcomesOf, Call!Done
  <2>3. HostEncodings(outcome)' = HostEncodings(outcome')
    BY <1>4 DEF HostEncodings
  <2>4. QED
    BY <1>1, <1>2, <1>4, <2>1, <2>2, <2>3, IdleApart
    DEF IInv, TypeOK, Points, OutcomeIsOfRequest, ResponseIsOfOutcome
<1>5. QED
  BY <1>3, <1>4

LEMMA ResponseLenPreserves == IInv /\ ResponseLen => IInv'
<1> SUFFICES ASSUME IInv, ResponseLen PROVE IInv'
  OBVIOUS
<1>1. /\ Call!OutcomesOf(request)' = Call!OutcomesOf(request)
      /\ HostEncodings(outcome)' = HostEncodings(outcome)
  BY DEF ResponseLen, Call!OutcomesOf, Call!Done, HostEncodings
<1>2. QED
  BY <1>1 DEF IInv, TypeOK, Points, OutcomeIsOfRequest, ResponseIsOfOutcome, ResponseLen

LEMMA ResponseReadPreserves == IInv /\ ResponseRead => IInv'
<1> SUFFICES ASSUME IInv, pc = "read", pc' = "decode", NEW whole \in BOOLEAN,
                    bytes' = [slot EXCEPT !.whole = whole],
                    UNCHANGED <<request, outcome, slot, answer>>
             PROVE  IInv'
  BY DEF ResponseRead
<1>1. /\ Call!OutcomesOf(request)' = Call!OutcomesOf(request)
      /\ HostEncodings(outcome)' = HostEncodings(outcome)
  BY DEF Call!OutcomesOf, Call!Done, HostEncodings
<1>2. /\ request \in Requests
      /\ outcome \in Call!OutcomesOf(request)
      /\ slot \in HostEncodings(outcome)
  BY DEF IInv, TypeOK, OutcomeIsOfRequest, ResponseIsOfOutcome
<1>3. slot \in Encodings /\ slot.whole = TRUE
  BY <1>2, HostEncodingsTyped DEF HostEncodings, Encoded
<1>4. bytes' \in Encodings /\ bytes'.whole = whole
  BY <1>3 DEF Encodings
<1>5. whole => bytes' = slot
  BY <1>3 DEF Encodings
<1>6. bytes' # Idle
  BY <1>4, EncodingAssumption
<1>7. QED
  BY <1>1, <1>2, <1>3, <1>4, <1>5, <1>6
  DEF IInv, TypeOK, Points, OutcomeIsOfRequest, ResponseIsOfOutcome

LEMMA ResponseFailsPreserves == IInv /\ ResponseFails => IInv'
<1> SUFFICES ASSUME IInv, ResponseFails PROVE IInv'
  OBVIOUS
<1>1. Call!Failed("io") \in {Call!Failed(class) : class \in Call!Classes \ {"http"}}
  BY DEF Call!Classes
<1>2. QED
  BY <1>1 DEF IInv, TypeOK, Points, OutcomeIsOfRequest, ResponseIsOfOutcome, ResponseFails, Return

LEMMA DecodeAnswer ==
  ASSUME IInv, pc = "decode"
  PROVE  Decoded(request, bytes) \in {Call!Failed("io"), Call!Seen(outcome)}
<1>1. /\ request \in Requests
      /\ outcome \in Call!OutcomesOf(request)
      /\ bytes \in Encodings
      /\ bytes.whole => bytes \in HostEncodings(outcome)
  BY DEF IInv, TypeOK, OutcomeIsOfRequest, ResponseIsOfOutcome
<1>2. QED
  BY <1>1, DecodedIsSeen

LEMMA DecodePreserves == IInv /\ Decode => IInv'
<1> SUFFICES ASSUME IInv, Decode PROVE IInv'
  OBVIOUS
<1>1. request \in Requests /\ outcome \in Call!OutcomesOf(request)
  BY DEF IInv, TypeOK, OutcomeIsOfRequest, Decode
<1>2. answer' \in Answers
  BY <1>1, DecodeAnswer, SeenTyped DEF Decode, Return
<1>3. QED
  BY <1>2 DEF IInv, TypeOK, Points, OutcomeIsOfRequest, ResponseIsOfOutcome, Decode, Return, Answers

LEMMA StutterPreserves == IInv /\ UNCHANGED vars => IInv'
BY DEF IInv, TypeOK, Points, OutcomeIsOfRequest, ResponseIsOfOutcome, vars,
       Call!OutcomesOf, Call!Done, Call!Failed, Call!Classes, HostEncodings

(***************************************************************************)
(* The invariant holds in every state: whenever the sidecar reads the      *)
(* response slot, its content was made of this request's outcome           *)
(* (src/channel.rs:100-127).                                               *)
(***************************************************************************)
THEOREM Inductive == Spec => []IInv
<1>1. Init => IInv
  BY InitEstablishesIInv
<1>2. IInv /\ [Next]_vars => IInv'
  BY BeginPreserves, ExecuteNativelyPreserves, NetworkRequestPreserves,
     ResponseLenPreserves, ResponseReadPreserves, ResponseFailsPreserves,
     DecodePreserves, StutterPreserves DEF Next
<1>3. QED
  BY <1>1, <1>2, PTL DEF Spec

(***************************************************************************)
(* Every variable of the bridge keeps its type; no answer has a class that *)
(* the wire does not carry (src/host_request.rs:179-187, :218-228).        *)
(***************************************************************************)
THEOREM TypeCorrect == Spec => []TypeOK
<1>1. IInv => TypeOK
  BY DEF IInv
<1>2. QED
  BY <1>1, Inductive, PTL

(***************************************************************************)
(* A response that an honest host made reaches the caller as what          *)
(* execution gave (src/lib.rs:255-283).                                    *)
(***************************************************************************)
THEOREM HonestBridge == Spec => []HonestBridgeDelivers
<1>1. IInv => HonestBridgeDelivers
  <2> SUFFICES ASSUME IInv, pc = "decode", bytes = Encoded(WIRE_VERSION, ResponseTo(outcome))
               PROVE  Decoded(request, bytes) = Call!Seen(outcome)
    BY DEF HonestBridgeDelivers
  <2>1. request \in Requests /\ outcome \in Call!OutcomesOf(request)
    BY DEF IInv, TypeOK, OutcomeIsOfRequest
  <2>2. Decoded(request, bytes) = Answer(request, ResponseTo(outcome))
    BY DEF Decoded, Decodable, VersionSupported, Encoded
  <2>3. QED
    BY <2>1, <2>2, NativeIsSeen
<1>2. QED
  BY <1>1, Inductive, PTL

(***************************************************************************)
(* Where HostCall stands while the bridge works on a request.              *)
(***************************************************************************)
LEMMA CallUnderWay ==
  ASSUME IInv, pc # "idle"
  PROVE  /\ request # Idle
         /\ pc = "submit" => outcome = Idle
         /\ pc \in {"len", "read", "decode"} => outcome # Idle
BY IdleApart DEF IInv, TypeOK, Points, OutcomeIsOfRequest

LEMMA NetworkRequestRefines == IInv /\ NetworkRequest => Call!CallNext
<1> SUFFICES ASSUME IInv, pc = "submit", NEW status \in Statuses, HostHandles(status),
                    \/ SubmitFailed(status) /\ Return(Call!Failed("io"))
                    \/ ~SubmitFailed(status) /\ pc' = "len" /\ UNCHANGED <<request, bytes, answer>>
             PROVE  Call!CallNext
  BY DEF NetworkRequest
<1>1. request # Idle /\ outcome = Idle
  BY CallUnderWay
<1>2. UNCHANGED outcome \/ outcome' \in Call!OutcomesOf(request)
  BY DEF HostHandles
<1>3. CASE SubmitFailed(status) /\ Return(Call!Failed("io")) /\ UNCHANGED outcome
  BY <1>1, <1>3 DEF Return, Call!Return, Call!CallNext
<1>4. CASE SubmitFailed(status) /\ Return(Call!Failed("io"))
           /\ outcome' \in Call!OutcomesOf(request)
  BY <1>1, <1>4 DEF Return, Call!ExecuteAndReturn, Call!CallNext
<1>5. CASE ~SubmitFailed(status) /\ UNCHANGED <<request, answer>>
  <2>1. outcome' \in Call!OutcomesOf(request)
    BY <1>5, HostHandlesEffect DEF SubmitFailed
  <2>2. QED
    BY <1>1, <1>5, <2>1 DEF Call!Execute, Call!CallNext
<1>6. QED
  BY <1>2, <1>3, <1>4, <1>5

LEMMA StepRefines == IInv /\ [Next]_vars => [Call!CallNext]_(Call!callVars)
<1> SUFFICES ASSUME IInv, [Next]_vars PROVE [Call!CallNext]_(Call!callVars)
  OBVIOUS
<1>1. CASE Begin
  BY <1>1 DEF IInv, TypeOK, Begin, Call!Begin, Call!CallNext
<1>2. CASE ExecuteNatively
  <2>1. /\ request \in Requests
        /\ request # Idle
        /\ outcome = Idle
    BY <1>2, CallUnderWay DEF ExecuteNatively, IInv, TypeOK
  <2>2. /\ outcome' \in Call!OutcomesOf(request)
        /\ request' = Idle
        /\ answer' = Answer(request, ResponseTo(outcome'))
    BY <1>2 DEF ExecuteNatively, Return
  <2>3. answer' = Call!Seen(outcome')
    BY <2>1, <2>2, NativeIsSeen
  <2>4. QED
    BY <2>1, <2>2, <2>3 DEF Call!ExecuteAndReturn, Call!CallNext
<1>3. CASE NetworkRequest
  BY <1>3, NetworkRequestRefines
<1>4. CASE ResponseLen \/ ResponseRead
  BY <1>4 DEF ResponseLen, ResponseRead, Call!callVars
<1>5. CASE ResponseFails
  BY <1>5, CallUnderWay DEF ResponseFails, Return, Call!Return, Call!CallNext
<1>6. CASE Decode
  BY <1>6, CallUnderWay, DecodeAnswer DEF Decode, Return, Call!Return, Call!CallNext
<1>7. CASE UNCHANGED vars
  BY <1>7 DEF vars, Call!callVars
<1>8. QED
  BY <1>1, <1>2, <1>3, <1>4, <1>5, <1>6, <1>7 DEF Next

(***************************************************************************)
(* The bridge implements the call it promises: a call returns the outcome  *)
(* of its own request or an I/O error, and never executes it twice         *)
(* (src/channel.rs:100-127, src/host_request.rs:133-187, src/lib.rs:250).  *)
(***************************************************************************)
THEOREM BridgeImplementsCall == Spec => ImplementsHostCall
<1>1. Init => Call!CallInit
  BY DEF Init, Call!CallInit
<1>2. IInv /\ [Next]_vars => [Call!CallNext]_(Call!callVars)
  BY StepRefines
<1>3. QED
  BY <1>1, <1>2, Inductive, PTL DEF Spec, ImplementsHostCall, Call!CallSpec
=============================================================================
