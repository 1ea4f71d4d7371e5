--------------------------- MODULE FailoverProofs ---------------------------
(***************************************************************************)
(* Proofs about Failover, for every list of addresses, every platform and  *)
(* responses of any length.                                                *)
(*                                                                         *)
(* The properties speak of the return; what makes them inductive is the    *)
(* account kept on the way: how many addresses were taken against how many *)
(* attempts failed, whose response is being read, and where the socket of  *)
(* each attempt stands.                                                    *)
(***************************************************************************)
EXTENDS Failover, TLAPS

Trying == pc \in {"connect", "connected", "session", "write", "read"}

(***************************************************************************)
(* Between attempts every address taken has failed and one is left, unless *)
(* there never was one; during an attempt all but the one being tried have *)
(* failed.  Every address taken has its socket accounted for.              *)
(***************************************************************************)
Account ==
  /\ pc = "attempt" => tried = Len(failures) /\ (tried < Len(addrs) \/ tried = 0)
  /\ Trying => tried = Len(failures) + 1 /\ tried <= Len(addrs)
  /\ pc # "done" => result = Nothing
  /\ Len(sockets) = tried

\* What was read in this attempt came from the address that is being tried.
OwnResponse == pc = "read" => response \in Seq({addrs[tried]})

\* What is returned was read from the last address tried.
OwnResult ==
  pc = "done" =>
    \/ result.kind = "ok" /\ result.from \in Seq({addrs[tried]})
    \/ result.kind = "err" /\ result.class \in Classes

IInv ==
  /\ TypeOK
  /\ Account
  /\ OwnResponse
  /\ OwnResult
  /\ AllTriedBeforeError
  /\ ConnectionsEnded
-----------------------------------------------------------------------------
\* The class of an I/O error is one of two.
LEMMA ClassOfRange == \A kind : ClassOf(kind) \in Classes
  BY DEF ClassOf, Classes

LEMMA InitEstablishesIInv == Init => IInv
  <1> SUFFICES ASSUME Init PROVE IInv
    OBVIOUS
  <1>1. addrs \in AddrLists /\ Len(addrs) \in Nat
    BY AddrAssumption DEF Init
  <1>2. budget \in {0, 1}
    BY DEF Init
  <1>3. TypeOK
    BY <1>1, <1>2, PiecesAssumption DEF Init, TypeOK, Points
  <1>4. Account /\ OwnResponse /\ OwnResult
    BY <1>1 DEF Init, Account, OwnResponse, OwnResult, Trying
  <1>5. AllTriedBeforeError /\ ConnectionsEnded
    BY DEF Init, AllTriedBeforeError, ConnectionsEnded
  <1> QED BY <1>3, <1>4, <1>5 DEF IInv

(***************************************************************************)
(* An attempt that ends in an error, with its connection ended: the next   *)
(* address is tried, or all have failed and the last failure is returned.  *)
(***************************************************************************)
LEMMA AttemptFailsPreserves ==
  ASSUME IInv, NEW class \in Classes, NEW cause \in Causes,
         pc # "done",
         tried' = Len(failures) + 1, tried' <= Len(addrs),
         AttemptFails(tried', class, cause),
         sockets' \in Seq(SocketStates), Len(sockets') = tried',
         \A n \in DOMAIN sockets' : sockets'[n] \in {"none", Released},
         UNCHANGED <<inputs, response>>
  PROVE  IInv'
  <1> DEFINE failure == [class |-> class, cause |-> cause]
  <1>1. /\ failures \in Seq([class : Classes, cause : Causes])
        /\ failure \in [class : Classes, cause : Causes]
        /\ addrs' = addrs /\ addrs \in AddrLists
    BY DEF IInv, TypeOK, inputs
  <1>2. /\ failures' = Append(failures, failure)
        /\ failures' \in Seq([class : Classes, cause : Causes])
        /\ Len(failures') = Len(failures) + 1
        /\ failures'[Len(failures) + 1] = failure
        /\ Len(failures) \in Nat
    BY <1>1 DEF AttemptFails
  <1>3. Len(addrs) \in Nat /\ tried' \in 0 .. Len(addrs) /\ tried' # 0
    BY <1>1, <1>2, AddrAssumption
  <1>4. pc' \in {"attempt", "done"} => ConnectionsEnded'
    BY DEF ConnectionsEnded, InHand, Released, inputs
  <1>5. CASE MoreAddrs(tried')
    <2>1. pc' = "attempt" /\ result' = result /\ tried' < Len(addrs)
      BY <1>5 DEF AttemptFails, MoreAddrs
    <2>2. TypeOK'
      BY <1>1, <1>2, <1>3, <2>1 DEF IInv, TypeOK, inputs, Points
    <2>3. Account' /\ OwnResponse' /\ OwnResult'
      BY <1>1, <1>2, <2>1 DEF IInv, Account, OwnResponse, OwnResult, Trying
    <2>4. AllTriedBeforeError'
      BY <2>1 DEF AllTriedBeforeError
    <2> QED BY <1>4, <2>1, <2>2, <2>3, <2>4 DEF IInv
  <1>6. CASE ~MoreAddrs(tried')
    <2>1. pc' = "done" /\ result' = Err(class) /\ tried' = Len(addrs)
      BY <1>2, <1>3, <1>6 DEF AttemptFails, MoreAddrs
    <2>2. /\ result' \in [kind : {"err"}, class : Classes]
          /\ result'.kind = "err" /\ result'.class = class
      BY <2>1 DEF Err
    <2>3. TypeOK'
      BY <1>1, <1>2, <1>3, <2>1, <2>2 DEF IInv, TypeOK, inputs, Points
    <2>4. Account' /\ OwnResponse' /\ OwnResult'
      BY <2>1, <2>2 DEF Account, OwnResponse, OwnResult, Trying
    <2>5. AllTriedBeforeError'
      BY <1>1, <1>2, <1>3, <2>1, <2>2 DEF AllTriedBeforeError
    <2> QED BY <1>4, <2>1, <2>3, <2>4, <2>5 DEF IInv
  <1> QED BY <1>5, <1>6

\* An empty list is an error of its own.
LEMMA NoAddressPreserves == ASSUME IInv, NoAddress PROVE IInv'
  <1> USE DEF IInv, NoAddress, inputs
  <1>1. /\ tried = 0 /\ Len(failures) = 0 /\ Len(addrs) = 0
        /\ result' = Err("dns") /\ result'.kind = "err" /\ result'.class = "dns"
        /\ result' \in [kind : {"err"}, class : Classes]
    BY AddrAssumption DEF Account, TypeOK, MoreAddrs, Err, Classes
  <1>2. TypeOK'
    BY <1>1 DEF TypeOK, Points
  <1>3. Account' /\ OwnResponse' /\ OwnResult'
    BY <1>1 DEF Account, OwnResponse, OwnResult, Trying, Classes
  <1>4. AllTriedBeforeError' /\ ConnectionsEnded'
    BY <1>1 DEF AllTriedBeforeError, ConnectionsEnded, InHand, Released
  <1> QED BY <1>2, <1>3, <1>4

\* The address taken is the next one, and so is the place of its socket.
LEMMA TakeAddress ==
  ASSUME IInv, pc = "attempt", MoreAddrs(tried), NEW s \in SocketStates
  PROVE  /\ tried = Len(failures) /\ tried + 1 \in 1 .. Len(addrs)
         /\ Append(sockets, s) \in Seq(SocketStates)
         /\ Len(Append(sockets, s)) = tried + 1
         /\ DOMAIN Append(sockets, s) = 1 .. tried + 1
         /\ Append(sockets, s)[tried + 1] = s
         /\ \A n \in 1 .. tried : Append(sockets, s)[n] \in {"none", Released}
  <1>1. /\ sockets \in Seq(SocketStates) /\ Len(sockets) = tried
        /\ tried = Len(failures) /\ failures \in Seq([class : Classes, cause : Causes])
        /\ Len(addrs) \in Nat
    BY AddrAssumption DEF IInv, TypeOK, Account
  <1>2. \A n \in 1 .. tried : sockets[n] \in {"none", Released}
    BY <1>1 DEF IInv, ConnectionsEnded, InHand
  <1> QED BY <1>1, <1>2 DEF MoreAddrs

LEMMA OpenSocketPreserves == ASSUME IInv, OpenSocket PROVE IInv'
  <1> USE DEF IInv, OpenSocket, inputs
  <1>1. /\ tried = Len(failures) /\ tried + 1 \in 1 .. Len(addrs)
        /\ sockets' \in Seq(SocketStates)
        /\ Len(sockets') = tried + 1
        /\ DOMAIN sockets' = 1 .. tried + 1
        /\ sockets'[tried + 1] = "open"
        /\ \A n \in 1 .. tried : sockets'[n] \in {"none", Released}
    BY TakeAddress DEF SocketStates
  <1>2. Len(addrs) \in Nat /\ tried \in Nat
    BY AddrAssumption DEF TypeOK
  <1>3. TypeOK'
    BY <1>1, <1>2 DEF TypeOK, Points
  <1>4. Account' /\ OwnResponse' /\ OwnResult'
    BY <1>1, <1>2 DEF Account, OwnResponse, OwnResult, Trying
  <1>5. AllTriedBeforeError'
    BY DEF AllTriedBeforeError
  <1>6. ConnectionsEnded'
    BY <1>1, <1>2 DEF ConnectionsEnded, InHand, Released
  <1> QED BY <1>3, <1>4, <1>5, <1>6

\* An attempt without a socket has none to end.
LEMMA OpenFailsPreserves == ASSUME IInv, OpenFails PROVE IInv'
  <1>1. /\ tried = Len(failures) /\ tried + 1 \in 1 .. Len(addrs)
        /\ sockets' \in Seq(SocketStates)
        /\ Len(sockets') = tried + 1
        /\ DOMAIN sockets' = 1 .. tried + 1
        /\ sockets'[tried + 1] = "none"
        /\ \A n \in 1 .. tried : sockets'[n] \in {"none", Released}
    BY TakeAddress DEF SocketStates, OpenFails
  <1>2. Len(addrs) \in Nat /\ tried \in Nat
    BY AddrAssumption DEF IInv, TypeOK
  <1>3. \A n \in DOMAIN sockets' : sockets'[n] \in {"none", Released}
    BY <1>1, <1>2
  <1>4. tried' = tried + 1 /\ pc # "done"
    BY DEF OpenFails
  <1>5. ClassOf("Other") \in Classes /\ "no socket" \in Causes
    BY ClassOfRange DEF Causes
  <1>6. /\ tried' = Len(failures) + 1 /\ tried' <= Len(addrs)
        /\ Len(sockets') = tried'
    BY <1>1, <1>2, <1>4
  <1>7. UNCHANGED <<inputs, response>> /\ AttemptFails(tried', ClassOf("Other"), "no socket")
    BY <1>4 DEF OpenFails
  <1> QED BY <1>1, <1>3, <1>4, <1>5, <1>6, <1>7, AttemptFailsPreserves

(***************************************************************************)
(* During an attempt the last socket is the one in hand, and those before  *)
(* it have been given up; giving it up too changes no other.               *)
(***************************************************************************)
LEMMA OneInHand ==
  ASSUME IInv, Trying, NEW s \in SocketStates, SocketNow(s)
  PROVE  /\ tried = Len(failures) + 1 /\ tried <= Len(addrs) /\ Len(failures) \in Nat
         /\ sockets' \in Seq(SocketStates) /\ Len(sockets') = tried
         /\ DOMAIN sockets' = 1 .. tried
         /\ sockets'[tried] = s
         /\ \A n \in 1 .. tried : n # tried => sockets'[n] \in {"none", Released}
  <1>1. /\ sockets \in Seq(SocketStates) /\ Len(sockets) = tried
        /\ tried = Len(failures) + 1 /\ tried <= Len(addrs)
        /\ failures \in Seq([class : Classes, cause : Causes])
    BY DEF IInv, TypeOK, Account
  <1>2. Len(failures) \in Nat /\ tried \in 1 .. Len(sockets)
    BY <1>1
  <1>3. \A n \in 1 .. tried : n # tried => sockets[n] \in {"none", Released}
    BY <1>1 DEF IInv, ConnectionsEnded, InHand
  <1>4. sockets' = [sockets EXCEPT ![tried] = s]
    BY DEF SocketNow
  <1>5. /\ sockets' \in Seq(SocketStates) /\ Len(sockets') = tried
        /\ DOMAIN sockets' = 1 .. tried /\ sockets'[tried] = s
        /\ \A n \in 1 .. tried : n # tried => sockets'[n] = sockets[n]
    BY <1>1, <1>2, <1>4
  <1> QED BY <1>1, <1>2, <1>3, <1>5

\* The connection is made, and is the one in hand.
LEMMA ConnectPreserves == ASSUME IInv, Connect PROVE IInv'
  <1> USE DEF IInv, Connect, inputs
  <1>1. /\ tried = Len(failures) + 1 /\ tried <= Len(addrs) /\ Len(failures) \in Nat
        /\ sockets' \in Seq(SocketStates) /\ Len(sockets') = tried
        /\ DOMAIN sockets' = 1 .. tried
        /\ sockets'[tried] = "connected"
        /\ \A n \in 1 .. tried : n # tried => sockets'[n] \in {"none", Released}
    BY OneInHand DEF Trying, SocketStates
  <1>2. TypeOK'
    BY <1>1 DEF TypeOK, Points
  <1>3. Account' /\ OwnResponse' /\ OwnResult'
    BY <1>1 DEF Account, OwnResponse, OwnResult, Trying
  <1>4. AllTriedBeforeError'
    BY DEF AllTriedBeforeError
  <1>5. ConnectionsEnded'
    BY <1>1 DEF ConnectionsEnded, InHand, Released
  <1> QED BY <1>2, <1>3, <1>4, <1>5

(***************************************************************************)
(* Whichever step of an attempt fails, the one socket in hand is given up, *)
(* by the shutdown of a failed connect or by a drop.                       *)
(***************************************************************************)
LEMMA TryingFailsPreserves ==
  ASSUME IInv,
         \/ ConnectFails \/ ConnectTimesOut \/ SetTimeoutsFails \/ BadServerName
         \/ HandshakeFails \/ Breaks \/ Stalls \/ BadResponse
  PROVE  IInv'
  <1>1. /\ Trying /\ SocketNow(Released) /\ UNCHANGED <<inputs, tried, response>>
        /\ \E class \in Classes, cause \in Causes : AttemptFails(tried, class, cause)
    <2> USE DEF Trying, Causes
    <2>1. AfterDrop = Released /\ AfterFailedConnect = Released
      BY DEF AfterDrop, AfterFailedConnect, Released
    <2>2. CASE ConnectFails
      BY <2>1, <2>2, ClassOfRange DEF ConnectFails
    <2>3. CASE ConnectTimesOut
      BY <2>1, <2>3, ClassOfRange DEF ConnectTimesOut
    <2>4. CASE SetTimeoutsFails
      BY <2>1, <2>4, ClassOfRange DEF SetTimeoutsFails, ConnectionFails
    <2>5. CASE BadServerName
      BY <2>1, <2>5 DEF BadServerName, ConnectionFails, Classes
    <2>6. CASE HandshakeFails
      BY <2>1, <2>6, ClassOfRange DEF HandshakeFails, ConnectionFails
    <2>7. CASE Breaks
      BY <2>1, <2>7, ClassOfRange DEF Breaks, ConnectionFails
    <2>8. CASE Stalls
      BY <2>1, <2>8, ClassOfRange DEF Stalls, ConnectionFails
    <2>9. CASE BadResponse
      BY <2>1, <2>9 DEF BadResponse, ConnectionFails, Classes
    <2> QED BY <2>2, <2>3, <2>4, <2>5, <2>6, <2>7, <2>8, <2>9
  <1>2. PICK class \in Classes, cause \in Causes : AttemptFails(tried, class, cause)
    BY <1>1
  <1>3. /\ tried = Len(failures) + 1 /\ tried <= Len(addrs)
        /\ sockets' \in Seq(SocketStates) /\ Len(sockets') = tried
        /\ \A n \in DOMAIN sockets' : sockets'[n] \in {"none", Released}
    BY <1>1, OneInHand DEF SocketStates, Released
  <1>4. /\ pc # "done" /\ tried' = tried /\ UNCHANGED <<inputs, response>>
        /\ AttemptFails(tried', class, cause)
    BY <1>1, <1>2 DEF Trying
  <1> QED BY <1>3, <1>4, AttemptFailsPreserves

\* Steps that go on with the connection in hand.
LEMMA SessionPreserves == ASSUME IInv, SetTimeouts \/ TlsSession \/ Write PROVE IInv'
  <1>1. /\ pc \in {"connected", "session", "write"} /\ pc' \in {"session", "write", "read"}
        /\ \/ response' = response /\ pc' # "read"
           \/ response' = << >>
        /\ UNCHANGED <<inputs, tried, sockets, failures, result>>
    BY DEF SetTimeouts, TlsSession, Write, FreshResponse
  <1>2. TypeOK'
    BY <1>1, PiecesAssumption DEF IInv, TypeOK, Points, inputs
  <1>3. Account' /\ OwnResponse' /\ OwnResult'
    <2>1. << >> \in Seq({addrs'[tried']})
      OBVIOUS
    <2> QED BY <1>1, <2>1 DEF IInv, Account, OwnResponse, OwnResult, Trying, inputs
  <1>4. AllTriedBeforeError' /\ ConnectionsEnded'
    BY <1>1 DEF IInv, AllTriedBeforeError, ConnectionsEnded, InHand, Released, inputs
  <1> QED BY <1>2, <1>3, <1>4 DEF IInv

LEMMA ReadPiecePreserves == ASSUME IInv, ReadPiece PROVE IInv'
  <1> USE DEF IInv, ReadPiece, inputs
  <1>1. /\ response \in Seq({addrs[tried]})
        /\ response' = Append(response, addrs[tried])
        /\ response' \in Seq({addrs[tried]})
        /\ Len(response') = Len(response) + 1
    BY DEF OwnResponse
  <1>2. TypeOK'
    BY <1>1, PiecesAssumption DEF TypeOK
  <1>3. Account' /\ OwnResponse' /\ OwnResult'
    BY <1>1 DEF Account, OwnResponse, OwnResult, Trying
  <1>4. AllTriedBeforeError' /\ ConnectionsEnded'
    BY DEF AllTriedBeforeError, ConnectionsEnded, InHand, Released
  <1> QED BY <1>2, <1>3, <1>4

\* Success gives the one socket in hand up as well.
LEMMA SuccessPreserves == ASSUME IInv, TcpConnected \/ ReadDone PROVE IInv'
  <1>1. /\ Trying /\ SocketNow(Released) /\ pc' = "done"
        /\ UNCHANGED <<inputs, tried, response, failures>>
        /\ \/ result' = [kind |-> "ok", from |-> << >>]
           \/ pc = "read" /\ result' = [kind |-> "ok", from |-> response]
    BY DEF TcpConnected, ReadDone, Trying, AfterDrop, Released
  <1>2. /\ tried = Len(failures) + 1 /\ Len(failures) \in Nat
        /\ sockets' \in Seq(SocketStates) /\ Len(sockets') = tried
        /\ \A n \in DOMAIN sockets' : sockets'[n] \in {"none", Released}
    BY <1>1, OneInHand DEF SocketStates, Released
  <1>3. result'.kind = "ok" /\ result'.from \in Seq({addrs[tried]})
    <2>1. << >> \in Seq({addrs[tried]})
      OBVIOUS
    <2>2. CASE result' = [kind |-> "ok", from |-> << >>]
      BY <2>1, <2>2
    <2>3. CASE pc = "read" /\ result' = [kind |-> "ok", from |-> response]
      BY <2>3 DEF IInv, OwnResponse
    <2> QED BY <1>1, <2>2, <2>3
  <1>4. TypeOK'
    BY <1>1, <1>2, <1>3 DEF IInv, TypeOK, Points, inputs
  <1>5. Account' /\ OwnResponse' /\ OwnResult'
    BY <1>1, <1>2, <1>3 DEF Account, OwnResponse, OwnResult, Trying, inputs
  <1>6. AllTriedBeforeError' /\ ConnectionsEnded'
    BY <1>1, <1>2, <1>3 DEF AllTriedBeforeError, ConnectionsEnded, InHand, Released, inputs
  <1> QED BY <1>4, <1>5, <1>6 DEF IInv

LEMMA NextPreserves == ASSUME IInv, [Next]_vars PROVE IInv'
  <1>1. CASE NoAddress                            BY <1>1, NoAddressPreserves
  <1>2. CASE OpenSocket                           BY <1>2, OpenSocketPreserves
  <1>3. CASE OpenFails                            BY <1>3, OpenFailsPreserves
  <1>4. CASE Connect                              BY <1>4, ConnectPreserves
  <1>5. CASE \/ ConnectFails \/ ConnectTimesOut \/ SetTimeoutsFails \/ BadServerName
             \/ HandshakeFails \/ Breaks \/ Stalls \/ BadResponse
    BY <1>5, TryingFailsPreserves
  <1>6. CASE SetTimeouts \/ TlsSession \/ Write   BY <1>6, SessionPreserves
  <1>7. CASE ReadPiece                            BY <1>7, ReadPiecePreserves
  <1>8. CASE TcpConnected \/ ReadDone             BY <1>8, SuccessPreserves
  <1>9. CASE UNCHANGED vars
    BY <1>9 DEF vars, inputs, IInv, TypeOK, Account, OwnResponse, OwnResult, Trying,
       AllTriedBeforeError, ConnectionsEnded, InHand, Released
  <1> QED BY <1>1, <1>2, <1>3, <1>4, <1>5, <1>6, <1>7, <1>8, <1>9 DEF Next
-----------------------------------------------------------------------------
(***************************************************************************)
(* The inductive invariant: the account of addresses, failures and         *)
(* sockets, and whose response is in the buffer (src/http.rs:20-40,        *)
(* :65-71).                                                                *)
(***************************************************************************)
THEOREM Inductive == Spec => []IInv
  <1>1. IInv /\ [Next]_vars => IInv'
    BY NextPreserves
  <1> QED BY InitEstablishesIInv, <1>1, PTL DEF Spec

(***************************************************************************)
(* Type correctness: no attempt is made beyond the list, and every error   *)
(* has one of the classes (src/http.rs:31-40, src/lib.rs:88-96).           *)
(***************************************************************************)
THEOREM TypeCorrect == Spec => []TypeOK
  <1>1. IInv => TypeOK
    BY DEF IInv
  <1> QED BY <1>1, Inductive, PTL

(***************************************************************************)
(* However long the list and whatever fails: an error is returned only     *)
(* after every address was tried once, and it is the last one's            *)
(* (src/http.rs:31-40, src/socket.rs:122-135).                             *)
(***************************************************************************)
THEOREM AllAreTried == Spec => []AllTriedBeforeError
  <1>1. IInv => AllTriedBeforeError
    BY DEF IInv
  <1> QED BY <1>1, Inductive, PTL

(***************************************************************************)
(* What was read from one address never ends up in a response with what    *)
(* was read from another (src/http.rs:65-71).                              *)
(***************************************************************************)
THEOREM OneServerAnswers == Spec => []ResponseFromOneServer
  <1>1. IInv => ResponseFromOneServer
    <2>1. ASSUME NEW from, NEW a, from \in Seq({a}), NEW i \in DOMAIN from
          PROVE  from[i] = a
      BY <2>1
    <2> QED BY <2>1 DEF IInv, OwnResult, ResponseFromOneServer
  <1> QED BY <1>1, Inductive, PTL

(***************************************************************************)
(* However long the list and whichever step of an attempt fails, the       *)
(* connection of an attempt that is over is ended: a native socket is      *)
(* closed, a WASI socket shut down.  Of a WASI socket nothing more is      *)
(* claimed, for the code does not close it (src/socket.rs:74-106,          *)
(* :243-253).                                                              *)
(***************************************************************************)
THEOREM NoConnectionLeaks == Spec => []ConnectionsEnded
  <1>1. IInv => ConnectionsEnded
    BY DEF IInv
  <1> QED BY <1>1, Inductive, PTL
=============================================================================
