------------------------ MODULE ConditionalGetProofs ------------------------
(***************************************************************************)
(* Proofs about ConditionalGet, for any resource whose validators tell its *)
(* versions apart.                                                         *)
(*                                                                         *)
(* The argument: the validators kept are those of the body kept, so a      *)
(* server that finds them to match has the version of that body; and the   *)
(* version it has cannot be older.  Hence a 304 confirms the body, and     *)
(* what it carries of validators is the body's too.                        *)
(***************************************************************************)
EXTENDS ConditionalGet, TLAPS

(***************************************************************************)
(* What the caller keeps is not from the future, and a request under way   *)
(* carries the conditions of what is kept.                                 *)
(***************************************************************************)
Order ==
  /\ body <= current
  /\ pc \in {"sent", "answered"} => headers = Conditions(kept)

(***************************************************************************)
(* An answer under way was made from the version served; it is a 304 only  *)
(* if that version is the one the caller keeps.                            *)
(***************************************************************************)
AnswerHonest ==
  pc = "answered" =>
    /\ served \in Versions
    /\ served <= current
    /\ response.status = 200 => response.body = served
    /\ response.status = 304 => body = served
    /\ \A name \in Names :
         response.validators[name] \in {ValidatorsOf(served)[name], Absent}

IInv == TypeOK /\ Coherent /\ UpToDate /\ Order /\ AnswerHonest

-----------------------------------------------------------------------------
\* The range of validators, and that Absent is none of a version.
LEMMA ValidatorTypes ==
  ASSUME NEW v \in Versions
  PROVE  /\ ValidatorsOf(v) \in Validators
         /\ \A name \in Names : ValidatorsOf(v)[name] \in Int
  BY TagAssumption, StampAssumption DEF ValidatorsOf, Validators, Names

\* header_value finds the one header of a name.
LEMMA HeaderFound ==
  ASSUME NEW list, NEW name, NEW mine \in list,
         mine.name = name,
         \A header \in list : header.name = name => header = mine
  PROVE  header_value(list, name) = mine.value
<1> DEFINE found == CHOOSE header \in list : header.name = name
<1>1. \E header \in list : header.name = name
  OBVIOUS
<1>2. found \in list /\ found.name = name
  BY <1>1
<1>3. found = mine
  BY <1>2
<1>4. header_value(list, name) = found.value
  BY <1>1 DEF header_value
<1> QED BY <1>3, <1>4

LEMMA HeaderMissing ==
  ASSUME NEW list, NEW name, \A header \in list : header.name # name
  PROVE  header_value(list, name) = Absent
BY DEF header_value

\* Validators survive the headers they travel in (src/host_request.rs:196).
LEMMA BridgedIsFaithful ==
  ASSUME NEW validators \in Validators
  PROVE  Bridged(validators) = validators
<1> DEFINE list == headers_from_response(validators)
<1>1. ASSUME NEW name \in Names
      PROVE  header_value(list, name) = validators[name]
  <2>1. CASE validators[name] = Absent
    <3>1. \A header \in list : header.name # name
      BY <2>1 DEF headers_from_response
    <3> QED BY <2>1, <3>1, HeaderMissing
  <2>2. CASE validators[name] # Absent
    <3> DEFINE mine == [name |-> name, value |-> validators[name]]
    <3>1. mine \in list /\ mine.name = name /\ mine.value = validators[name]
      BY <2>2 DEF headers_from_response
    <3>2. \A header \in list : header.name = name => header = mine
      BY DEF headers_from_response
    <3> HIDE DEF list, mine
    <3> QED BY <3>1, <3>2, HeaderFound
  <2> QED BY <2>1, <2>2
<1> QED BY <1>1 DEF Bridged, Validators

\* The header fields of the two conditions are different.
LEMMA ConditionNames ==
  /\ ConditionOf["etag"] = "If-None-Match"
  /\ ConditionOf["last_modified"] = "If-Modified-Since"
  /\ \A n, m \in Names : ConditionOf[n] = ConditionOf[m] => n = m
<1>1. ConditionOf["etag"] = "If-None-Match"
  BY DEF ConditionOf, Names
<1>2. ConditionOf["last_modified"] = "If-Modified-Since"
  BY DEF ConditionOf, Names
<1> QED BY <1>1, <1>2 DEF Names

\* What a server reads from the conditions is what the caller kept.
LEMMA ConditionsAreRead ==
  ASSUME NEW given \in Validators
  PROVE  /\ header_value(Conditions(given), "If-None-Match") = given["etag"]
         /\ header_value(Conditions(given), "If-Modified-Since") = given["last_modified"]
<1> DEFINE list == Conditions(given)
<1>1. ASSUME NEW name \in Names
      PROVE  header_value(list, ConditionOf[name]) = given[name]
  <2>1. \A header \in list : \E n \in Names :
          /\ given[n] # Absent
          /\ header = [name |-> ConditionOf[n], value |-> given[n]]
    BY DEF Conditions
  <2>2. CASE given[name] = Absent
    <3>1. \A header \in list : header.name # ConditionOf[name]
      BY <2>1, <2>2, ConditionNames
    <3> QED BY <2>2, <3>1, HeaderMissing
  <2>3. CASE given[name] # Absent
    <3> DEFINE mine == [name |-> ConditionOf[name], value |-> given[name]]
    <3>1. mine \in list /\ mine.name = ConditionOf[name] /\ mine.value = given[name]
      BY <2>3 DEF Conditions
    <3>2. \A header \in list : header.name = ConditionOf[name] => header = mine
      BY <2>1, ConditionNames
    <3> HIDE DEF list, mine
    <3> QED BY <3>1, <3>2, HeaderFound
  <2> QED BY <2>2, <2>3
<1> QED BY <1>1, ConditionNames DEF Names

-----------------------------------------------------------------------------
LEMMA InitHolds == Init => IInv
<1> SUFFICES ASSUME Init PROVE IInv
  OBVIOUS
<1>1. TypeOK
  BY VersionAssumption DEF Init, TypeOK, Versions, Validators, NoValidators, Responses,
     NoResponse, Refusals, NoBody
<1>2. Coherent  BY DEF Init, Coherent, NoValidators
<1>3. UpToDate  BY DEF Init, UpToDate
<1>4. Order     BY DEF Init, Order, NoBody
<1>5. AnswerHonest  BY DEF Init, AnswerHonest
<1> QED BY <1>1, <1>2, <1>3, <1>4, <1>5 DEF IInv

\* The request carries the conditions of what is kept.
LEMMA CallPreserves == ASSUME IInv, Call PROVE IInv'
<1> USE DEF IInv, Call, callerVars
<1>1. headers' \subseteq [name : {"If-None-Match", "If-Modified-Since"}, value : Int]
  <2>1. kept \in Validators  BY DEF TypeOK
  <2>2. ASSUME NEW name \in Names, kept[name] # Absent
        PROVE  /\ kept[name] \in Int
               /\ ConditionOf[name] \in {"If-None-Match", "If-Modified-Since"}
    BY <2>1, <2>2, ConditionNames DEF Validators, Names
  <2> QED BY <2>2 DEF Conditions
<1>2. TypeOK'        BY <1>1 DEF TypeOK
<1>3. Coherent'      BY DEF Coherent
<1>4. UpToDate'      BY DEF UpToDate
<1>5. Order'         BY DEF Order, Conditions
<1>6. AnswerHonest'  BY DEF AnswerHonest
<1> QED BY <1>2, <1>3, <1>4, <1>5, <1>6

(***************************************************************************)
(* The heart: a server that finds the conditions to match has the version  *)
(* of the body kept.                                                       *)
(***************************************************************************)
LEMMA NotModifiedMeansSame ==
  ASSUME IInv, pc = "sent", NotModified(headers)
  PROVE  body = current
<1> DEFINE etag == kept["etag"]
           stamp == kept["last_modified"]
<1>1. kept \in Validators /\ headers = Conditions(kept)
  BY DEF IInv, TypeOK, Order
<1>2. IF etag # Absent THEN etag = TagOf[current]
      ELSE stamp # Absent /\ stamp >= StampOf[current]
  BY <1>1, ConditionsAreRead DEF NotModified
<1>3. CASE etag # Absent
  <2>1. body \in Versions /\ etag = TagOf[body]
    BY <1>3 DEF IInv, Coherent, ValidatorsOf, Names
  <2> QED BY <1>2, <1>3, <2>1, TagAssumption DEF IInv, TypeOK
<1>4. CASE etag = Absent
  <2>1. body \in Versions /\ stamp = StampOf[body]
    BY <1>2, <1>4 DEF IInv, Coherent, ValidatorsOf, Names
  <2>2. StampOf[body] >= StampOf[current] /\ body <= current /\ current \in Versions
    BY <1>2, <1>4, <2>1 DEF IInv, TypeOK, Order
  <2>3. ~(body < current)
    BY <2>1, <2>2, StampAssumption
  <2> QED BY <2>1, <2>2, <2>3, VersionAssumption DEF Versions
<1> QED BY <1>3, <1>4

LEMMA ServerAnswersPreserves == ASSUME IInv, ServerAnswers PROVE IInv'
<1> USE DEF IInv, callerVars
<1>1. current \in Versions  BY DEF TypeOK
<1>2. PICK status \in {200, 304} \cup Refusals, b \in {current, NoBody, ErrorPage},
           some \in SomeOf(ValidatorsOf(current)) :
        /\ response' = [status |-> status, body |-> b, validators |-> some]
        /\ status = 200 => b = current
        /\ status = 304 => NotModified(headers)
  <2> DEFINE With(status, b) ==
        {[status |-> status, body |-> b, validators |-> some] :
           some \in SomeOf(ValidatorsOf(current))}
  <2>1. \/ response' \in With(200, current)
        \/ \E status \in Refusals : response' \in With(status, ErrorPage)
        \/ NotModified(headers) /\ response' \in With(304, NoBody)
    BY DEF ServerAnswers, Answers
  <2> QED BY <2>1 DEF Refusals
<1>3. /\ some \in Validators
      /\ \A name \in Names : some[name] \in {ValidatorsOf(current)[name], Absent}
  BY <1>1, ValidatorTypes DEF SomeOf, Validators
<1>4. TypeOK'
  BY <1>1, <1>2, <1>3 DEF ServerAnswers, TypeOK, Responses
<1>5. Coherent'  BY DEF ServerAnswers, Coherent
<1>6. UpToDate'  BY DEF ServerAnswers, UpToDate
<1>7. Order'     BY DEF ServerAnswers, Order, Conditions
<1>8. AnswerHonest'
  <2>1. served' = current /\ current' = current /\ body' = body /\ pc = "sent"
    BY DEF ServerAnswers
  <2>2. current <= current  BY <1>1 DEF Versions
  <2>3. response'.status = 304 => body = current
    BY <1>2, <2>1, NotModifiedMeansSame
  <2>4. \A name \in Names : response'.validators[name] \in {ValidatorsOf(current)[name], Absent}
    BY <1>2, <1>3
  <2>5. ValidatorsOf(served)' = ValidatorsOf(current)
    BY <2>1 DEF ValidatorsOf
  <2> QED BY <1>1, <1>2, <2>1, <2>2, <2>3, <2>4, <2>5 DEF AnswerHonest
<1> QED BY <1>4, <1>5, <1>6, <1>7, <1>8

LEMMA ExchangeFailsPreserves == ASSUME IInv, ExchangeFails PROVE IInv'
<1> USE DEF IInv, ExchangeFails, callerVars
<1>1. TypeOK'
  BY DEF TypeOK, NoResponse, Responses, Refusals, NoValidators, Validators
<1>2. Coherent'      BY DEF Coherent
<1>3. UpToDate'      BY DEF UpToDate
<1>4. Order'         BY DEF Order
<1>5. AnswerHonest'  BY DEF AnswerHonest
<1> QED BY <1>1, <1>2, <1>3, <1>4, <1>5

(***************************************************************************)
(* What the caller keeps after the call: nothing new, the version served   *)
(* with its validators, or the validators a 304 brought for the body it    *)
(* confirmed.                                                              *)
(***************************************************************************)
LEMMA CallReturnsPreserves == ASSUME IInv, CallReturns PROVE IInv'
<1> DEFINE result == https_get_conditional(kept, response)
           received == response.validators
<1>1. /\ pc = "answered" /\ pc' = "idle" /\ headers' = {} /\ response' = NoResponse
      /\ current' = current /\ served' = served
  BY DEF CallReturns
<1>2. /\ served \in Versions /\ served <= current /\ response \in Responses
      /\ received \in Validators /\ kept \in Validators /\ current \in Versions
      /\ body \in Versions \cup {NoBody} /\ body <= current
  BY <1>1 DEF IInv, AnswerHonest, TypeOK, Responses, Order
<1>3. \A name \in Names : received[name] \in {ValidatorsOf(served)[name], Absent}
  BY <1>1 DEF IInv, AnswerHonest
<1>4. Bridged(received) = received
  BY <1>2, BridgedIsFaithful
<1>5. NoResponse \in Responses
  BY DEF NoResponse, Responses, Refusals, NoValidators, Validators
<1>6. CASE response.status = 304
  <2>1. result = Ok(NoBody, ValidatorsOf304(received, kept))
    BY <1>4, <1>6 DEF https_get_conditional
  <2>2. body' = body /\ kept' = ValidatorsOf304(received, kept) /\ outcome' = "ok"
    BY <2>1 DEF CallReturns, Ok
  <2>3. body = served
    BY <1>1, <1>6 DEF IInv, AnswerHonest
  <2>4. kept' \in Validators
    BY <1>2, <2>2 DEF ValidatorsOf304, OrElse, Validators
  <2>5. \A name \in Names : kept'[name] # Absent => kept'[name] = ValidatorsOf(body)[name]
    BY <1>3, <2>2, <2>3 DEF ValidatorsOf304, OrElse, IInv, Coherent
  <2>6. TypeOK'    BY <1>1, <1>2, <1>5, <2>2, <2>4 DEF IInv, TypeOK
  <2>7. Coherent'  BY <1>2, <2>2, <2>3, <2>5 DEF Coherent, ValidatorsOf
  <2>8. UpToDate' /\ Order' /\ AnswerHonest'
    BY <1>1, <1>2, <2>2, <2>3 DEF UpToDate, Order, AnswerHonest
  <2> QED BY <2>6, <2>7, <2>8 DEF IInv
<1>7. CASE response.status = 200
  <2>1. response.body = served
    BY <1>1, <1>7 DEF IInv, AnswerHonest
  <2>2. result = Ok(served, received)
    BY <1>4, <1>7, <2>1 DEF https_get_conditional, Successful, ValidatorsOf200
  <2>3. served # NoBody
    BY <1>2, VersionAssumption DEF Versions, NoBody
  <2>4. body' = served /\ kept' = received /\ outcome' = "ok"
    BY <2>2, <2>3 DEF CallReturns, Ok
  <2>5. TypeOK'    BY <1>1, <1>2, <1>5, <2>4 DEF IInv, TypeOK
  <2>6. Coherent'  BY <1>2, <1>3, <2>4 DEF Coherent, ValidatorsOf
  <2>7. UpToDate' /\ Order' /\ AnswerHonest'
    BY <1>1, <1>2, <2>4 DEF UpToDate, Order, AnswerHonest
  <2> QED BY <2>5, <2>6, <2>7 DEF IInv
<1>8. CASE response.status \in Refusals
  <2>1. result = Err
    BY <1>8 DEF https_get_conditional, Successful, Refusals
  <2>2. body' = body /\ kept' = kept /\ outcome' = "err"
    BY <2>1 DEF CallReturns, Err, callerVars
  <2>3. TypeOK'    BY <1>1, <1>2, <1>5, <2>2 DEF IInv, TypeOK
  <2>4. Coherent'  BY <2>2 DEF IInv, Coherent, ValidatorsOf
  <2>5. UpToDate' /\ Order' /\ AnswerHonest'
    BY <1>1, <1>2, <2>2 DEF UpToDate, Order, AnswerHonest
  <2> QED BY <2>3, <2>4, <2>5 DEF IInv
<1> QED BY <1>2, <1>6, <1>7, <1>8 DEF Responses

LEMMA ResourceChangesPreserves == ASSUME IInv, ResourceChanges PROVE IInv'
<1> USE DEF IInv, ResourceChanges, callerVars
<1>1. current' \in Versions /\ current' = current + 1
  BY VersionAssumption DEF TypeOK, Versions
<1>2. TypeOK'    BY <1>1 DEF TypeOK
<1>3. Coherent'  BY DEF Coherent, ValidatorsOf
<1>4. UpToDate'  BY DEF UpToDate
<1>5. Order'
  BY <1>1, VersionAssumption DEF Order, TypeOK, Versions, NoBody, Conditions
<1>6. AnswerHonest'
  BY <1>1, VersionAssumption DEF AnswerHonest, ValidatorsOf, TypeOK, Versions
<1> QED BY <1>2, <1>3, <1>4, <1>5, <1>6

LEMMA NextPreserves == IInv /\ [Next]_vars => IInv'
<1> SUFFICES ASSUME IInv, [Next]_vars PROVE IInv'
  OBVIOUS
<1>1. CASE Call             BY <1>1, CallPreserves
<1>2. CASE ServerAnswers    BY <1>2, ServerAnswersPreserves
<1>3. CASE ExchangeFails    BY <1>3, ExchangeFailsPreserves
<1>4. CASE CallReturns      BY <1>4, CallReturnsPreserves
<1>5. CASE ResourceChanges  BY <1>5, ResourceChangesPreserves
<1>6. CASE UNCHANGED vars
  BY <1>6 DEF vars, callerVars, IInv, TypeOK, Coherent, ValidatorsOf, UpToDate, Order,
     Conditions, AnswerHonest
<1> QED BY <1>1, <1>2, <1>3, <1>4, <1>5, <1>6 DEF Next

(***************************************************************************)
(* The inductive invariant: what is kept is coherent and not from the      *)
(* future, and an answer under way is honest about it                      *)
(* (src/lib.rs:130-159).                                                   *)
(***************************************************************************)
THEOREM Inductive == Spec => []IInv
<1> QED BY InitHolds, NextPreserves, PTL DEF Spec

(***************************************************************************)
(* Type correctness: no error page and no other value becomes the body     *)
(* that is kept (src/lib.rs:155-158).                                      *)
(***************************************************************************)
THEOREM TypeCorrect == Spec => []TypeOK
<1>1. IInv => TypeOK  BY DEF IInv
<1> QED BY <1>1, Inductive, PTL

(***************************************************************************)
(* The kept validators always belong to the kept body                      *)
(* (src/lib.rs:144-158).                                                   *)
(***************************************************************************)
THEOREM CoherentAlways == Spec => []Coherent
<1>1. IInv => Coherent  BY DEF IInv
<1> QED BY <1>1, Inductive, PTL

(***************************************************************************)
(* A successful call leaves the caller with the version that was served,   *)
(* by a 200 or by a 304 (src/lib.rs:130-159).                              *)
(***************************************************************************)
THEOREM UpToDateAlways == Spec => []UpToDate
<1>1. IInv => UpToDate  BY DEF IInv
<1> QED BY <1>1, Inductive, PTL

(***************************************************************************)
(* A 304 loses no validator (src/lib.rs:145-152).                          *)
(***************************************************************************)
THEOREM ValidatorsSurvive == Spec => NotModifiedKeepsValidators
<1>1. ASSUME IInv, CallReturns, response.status = 304,
             NEW name \in Names, kept[name] # Absent
      PROVE  kept'[name] = kept[name]
  <2> DEFINE received == response.validators
  <2>1. pc = "answered" /\ received \in Validators /\ kept \in Validators
    BY <1>1 DEF CallReturns, IInv, TypeOK, Responses
  <2>2. kept' = ValidatorsOf304(received, kept)
    BY <1>1, <2>1, BridgedIsFaithful DEF CallReturns, https_get_conditional, Ok
  <2>3. body = served /\ received[name] \in {ValidatorsOf(served)[name], Absent}
    BY <1>1, <2>1 DEF IInv, AnswerHonest
  <2>4. kept[name] = ValidatorsOf(body)[name]
    BY <1>1 DEF IInv, Coherent
  <2> QED BY <2>2, <2>3, <2>4 DEF ValidatorsOf304, OrElse
<1>2. IInv /\ [Next]_vars =>
        [CallReturns /\ response.status = 304 =>
           \A name \in Names : kept[name] # Absent => kept'[name] = kept[name]]_vars
  BY <1>1
<1> QED BY <1>2, Inductive, PTL DEF Spec, NotModifiedKeepsValidators
=============================================================================
