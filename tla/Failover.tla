------------------------------ MODULE Failover ------------------------------
(***************************************************************************)
(* One exchange tried over a list of addresses: https_get_with_candidates  *)
(* (src/http.rs) and connect_any (src/socket.rs), with the socket of each  *)
(* attempt (src/socket.rs), the TLS session on it (src/tls.rs) and the     *)
(* class an I/O error gets (src/lib.rs:88-96).                             *)
(*                                                                         *)
(* The socket of each attempt is followed from its opening to what is left *)
(* of it.  A native stream is closed when it is dropped, by this code or   *)
(* by std.  A WASI socket is only shut down: nothing in the code closes    *)
(* its descriptor, which stays with the process.                           *)
(*                                                                         *)
(* The network is external: it refuses, breaks or stalls any attempt at    *)
(* any point.  A stalled call returns after the timeout of its socket, or  *)
(* on WASI, where the code sets none, when the host gives up; how that     *)
(* shows depends on the platform.  Framing is left to HttpFraming: here a  *)
(* response is the addresses its pieces came from.                         *)
(***************************************************************************)
EXTENDS Integers, Sequences

CONSTANTS
  AddrLists,     \* the lists the loops may be given: addresses, in order
  Platforms,     \* what the program may be built for
  MaxPieces,     \* bound: pieces of a response
  Nothing        \* no result

ASSUME AddrAssumption     == \A list \in AddrLists : Len(list) \in Nat
ASSUME PlatformAssumption == Platforms \subseteq {"unix", "windows", "wasi"}
ASSUME PiecesAssumption   == MaxPieces \in Nat \ {0}

VARIABLES
  platform,   \* one of Platforms
  op,         \* "https_get" or "tcp_connect": which of the two loops runs
  nameOk,     \* whether the host is a valid TLS server name
  budget,     \* the timeout argument, in units of itself: 1, or 0 if it is 0
  addrs,      \* the addresses to try
  tried,      \* how many of them have been taken
  pc,         \* the point the attempt has reached
  sockets,    \* history: of each attempt, what has become of its socket
  response,   \* the addresses the pieces read so far came from
  failures,   \* history: class and cause of each failed attempt
  result      \* what the loop returned, or Nothing

inputs == <<platform, op, nameOk, budget, addrs>>
vars == <<inputs, tried, pc, sockets, response, failures, result>>

Points == {"attempt", "connect", "connected", "session", "write", "read", "done"}
Classes == {"tls", "io", "timeout", "dns"}
Causes == {"no socket", "refused", "zero", "connect timeout", "no timeouts", "name",
           "handshake", "stall", "broken", "framing"}
SocketStates == {"none", "open", "connected", "shut", "closed"}
Err(class) == [kind |-> "err", class |-> class]
-----------------------------------------------------------------------------
(***************************************************************************)
(* Faulty variants, each a slip the code could contain.                    *)
(***************************************************************************)
FreshResponse_Kept == response
AfterDrop_NotShut == IF platform = "wasi" THEN "connected" ELSE "closed"
AfterFailedConnect_NotShut == IF platform = "wasi" THEN "open" ELSE "closed"
MoreAddrs_NotTheLast(n) == n + 1 < Len(addrs)
ClassOf_Kind(kind) == kind
-----------------------------------------------------------------------------
(***************************************************************************)
(* From<io::Error> for Error: only TimedOut is a timeout.  std reports a   *)
(* connection that was not made in time as TimedOut, a stalled read or     *)
(* write as WouldBlock on Unix; the WASI socket reports any errno as       *)
(* Other.                                                                  *)
(***************************************************************************)
ClassOf(kind) == IF kind = "TimedOut" THEN "timeout" ELSE "io"

ConnectTimeoutKind == IF platform = "wasi" THEN "Other" ELSE "TimedOut"

StallKind ==
  CASE platform = "unix" -> "WouldBlock"
    [] platform = "windows" -> "TimedOut"
    [] platform = "wasi" -> "Other"

\* The for loop has an address left after n of them.
MoreAddrs(n) == n < Len(addrs)

\* Drop for RawSocket: a WASI socket is shut down, its descriptor never closed;
\* a native one is closed by the drop of the TcpStream in it.
AfterDrop == IF platform = "wasi" THEN "shut" ELSE "closed"

\* A socket that did not connect: on WASI no RawSocket is built of it, and it is
\* shut down by hand; std closes its own.
AfterFailedConnect == IF platform = "wasi" THEN "shut" ELSE "closed"

\* https_get_via_ip: let mut response = Vec::new()
FreshResponse == << >>

Init ==
  /\ platform \in Platforms
  /\ op \in {"https_get", "tcp_connect"}
  /\ nameOk \in BOOLEAN
  /\ budget \in IF op = "https_get" THEN {1} ELSE {0, 1}
  /\ addrs \in AddrLists
  /\ tried = 0
  /\ pc = "attempt"
  /\ sockets = << >>
  /\ response = << >>
  /\ failures = << >>
  /\ result = Nothing
-----------------------------------------------------------------------------
\* The socket of this attempt is now as given.
SocketNow(state) == sockets' = [sockets EXCEPT ![tried] = state]

\* The n-th attempt ends in an error: on to the next address, or return it.
AttemptFails(n, class, cause) ==
  /\ failures' = Append(failures, [class |-> class, cause |-> cause])
  /\ IF MoreAddrs(n)
     THEN pc' = "attempt" /\ UNCHANGED result
     ELSE pc' = "done" /\ result' = Err(class)

\* The list is empty: the loop makes no attempt.
NoAddress ==
  /\ pc = "attempt"
  /\ ~MoreAddrs(tried)
  /\ pc' = "done"
  /\ result' = Err("dns")
  /\ UNCHANGED <<inputs, tried, sockets, response, failures>>

\* sock_open, or the same in std.
OpenSocket ==
  /\ pc = "attempt"
  /\ MoreAddrs(tried)
  /\ tried' = tried + 1
  /\ sockets' = Append(sockets, "open")
  /\ pc' = "connect"
  /\ UNCHANGED <<inputs, response, failures, result>>

OpenFails ==
  /\ pc = "attempt"
  /\ MoreAddrs(tried)
  /\ tried' = tried + 1
  /\ sockets' = Append(sockets, "none")
  /\ AttemptFails(tried + 1, ClassOf("Other"), "no socket")
  /\ UNCHANGED <<inputs, response>>

\* sock_connect, or the rest of TcpStream::connect_timeout.
Connect ==
  /\ pc = "connect"
  /\ budget # 0 \/ platform = "wasi"
  /\ SocketNow("connected")
  /\ pc' = "connected"
  /\ UNCHANGED <<inputs, tried, response, failures, result>>

\* The peer refuses or the host has no route; std refuses a timeout of zero.
ConnectFails ==
  /\ pc = "connect"
  /\ \/ AttemptFails(tried, ClassOf("Other"), "refused")
     \/ /\ budget = 0 /\ platform # "wasi"
        /\ AttemptFails(tried, ClassOf("InvalidInput"), "zero")
  /\ SocketNow(AfterFailedConnect)
  /\ UNCHANGED <<inputs, tried, response>>

ConnectTimesOut ==
  /\ pc = "connect"
  /\ budget # 0 \/ platform = "wasi"
  /\ AttemptFails(tried, ClassOf(ConnectTimeoutKind), "connect timeout")
  /\ SocketNow(AfterFailedConnect)
  /\ UNCHANGED <<inputs, tried, response>>

\* An error on an open connection drops it.
ConnectionFails(class, cause) ==
  /\ AttemptFails(tried, class, cause)
  /\ SocketNow(AfterDrop)
  /\ UNCHANGED <<inputs, tried, response>>

\* A native stream gets its read and write timeouts, each of which may fail; on
\* WASI there are none to set.
SetTimeouts ==
  /\ pc = "connected"
  /\ pc' = "session"
  /\ UNCHANGED <<inputs, tried, sockets, response, failures, result>>

SetTimeoutsFails ==
  /\ pc = "connected"
  /\ platform # "wasi"
  /\ ConnectionFails(ClassOf("InvalidInput"), "no timeouts")

\* connect_any wants no more than the time it took: its _socket is dropped.
TcpConnected ==
  /\ pc = "session"
  /\ op = "tcp_connect"
  /\ pc' = "done"
  /\ result' = [kind |-> "ok", from |-> << >>]
  /\ SocketNow(AfterDrop)
  /\ UNCHANGED <<inputs, tried, response, failures>>

\* tls_connect: the name is checked when the socket is already connected.
BadServerName ==
  /\ pc = "session"
  /\ op = "https_get"
  /\ ~nameOk
  /\ ConnectionFails("tls", "name")

TlsSession ==
  /\ pc = "session"
  /\ op = "https_get"
  /\ nameOk
  /\ pc' = "write"
  /\ UNCHANGED <<inputs, tried, sockets, response, failures, result>>

\* write_all and flush, under which rustls makes the handshake; then an empty
\* buffer to read into.
Write ==
  /\ pc = "write"
  /\ pc' = "read"
  /\ response' = FreshResponse
  /\ UNCHANGED <<inputs, tried, sockets, failures, result>>

\* A certificate or handshake that rustls rejects is an io::Error.
HandshakeFails ==
  /\ pc = "write"
  /\ ConnectionFails(ClassOf("InvalidData"), "handshake")

Breaks ==
  /\ pc \in {"write", "read"}
  /\ ConnectionFails(ClassOf("ConnectionReset"), "broken")

Stalls ==
  /\ pc \in {"write", "read"}
  /\ ConnectionFails(ClassOf(StallKind), "stall")

ReadPiece ==
  /\ pc = "read"
  /\ Len(response) < MaxPieces
  /\ response' = Append(response, addrs[tried])
  /\ UNCHANGED <<inputs, tried, pc, sockets, failures, result>>

\* The response is complete and parsed.
ReadDone ==
  /\ pc = "read"
  /\ response # << >>
  /\ pc' = "done"
  /\ result' = [kind |-> "ok", from |-> response]
  /\ SocketNow(AfterDrop)
  /\ UNCHANGED <<inputs, tried, response, failures>>

\* It does not parse, or the stream ended before it was complete.
BadResponse ==
  /\ pc = "read"
  /\ ConnectionFails("io", "framing")

Next ==
  \/ NoAddress
  \/ OpenSocket
  \/ OpenFails
  \/ Connect
  \/ ConnectFails
  \/ ConnectTimesOut
  \/ SetTimeouts
  \/ SetTimeoutsFails
  \/ TcpConnected
  \/ BadServerName
  \/ TlsSession
  \/ Write
  \/ HandshakeFails
  \/ Breaks
  \/ Stalls
  \/ ReadPiece
  \/ ReadDone
  \/ BadResponse

Spec == Init /\ [][Next]_vars
-----------------------------------------------------------------------------
TypeOK ==
  /\ platform \in Platforms
  /\ op \in {"https_get", "tcp_connect"}
  /\ nameOk \in BOOLEAN
  /\ budget \in {0, 1}
  /\ addrs \in AddrLists
  /\ tried \in 0 .. Len(addrs)
  /\ pc \in Points
  /\ sockets \in Seq(SocketStates)
  /\ Len(response) <= MaxPieces
  /\ failures \in Seq([class : Classes, cause : Causes])
  /\ result = Nothing \/ result.kind = "ok" \/ result \in [kind : {"err"}, class : Classes]

(***************************************************************************)
(* Every address gets its chance before the caller sees an error, each     *)
(* once, and the error is that of the last one; one success and no other   *)
(* address is tried (src/http.rs:31-40, src/socket.rs:122-135).            *)
(***************************************************************************)
AllTriedBeforeError ==
  pc = "done" =>
    IF result.kind = "ok"
    THEN Len(failures) = tried - 1
    ELSE /\ tried = Len(addrs)
         /\ Len(failures) = tried
         /\ result.class = IF tried = 0 THEN "dns" ELSE failures[tried].class

(***************************************************************************)
(* A response is never put together from two servers, although an attempt  *)
(* may fail after it read a part of one (src/http.rs:65-71).               *)
(***************************************************************************)
ResponseFromOneServer ==
  pc = "done" /\ result.kind = "ok" =>
    \A i \in DOMAIN result.from : result.from[i] = addrs[tried]

(***************************************************************************)
(* At whichever step an attempt fails, and on success, its connection is   *)
(* ended before the next attempt or the return, and not before: a native   *)
(* socket is closed, a WASI socket is shut down.  That is all a WASI       *)
(* socket gets: its descriptor is not closed, so what is left of it is     *)
(* "shut", never "closed" (src/socket.rs:74-106, :243-253).                *)
(***************************************************************************)
InHand(n) == n = tried /\ pc \notin {"attempt", "done"}

Released == IF platform = "wasi" THEN "shut" ELSE "closed"

ConnectionsEnded ==
  \A n \in DOMAIN sockets :
    IF InHand(n)
    THEN sockets[n] = IF pc = "connect" THEN "open" ELSE "connected"
    ELSE sockets[n] \in {"none", Released}

(***************************************************************************)
(* The docs of Error (src/lib.rs:59, :70): Tls means that TLS handshake or *)
(* certificate validation failed, Timeout that the operation timed out.    *)
(* So an error the loop returns is of the class of what ended its last     *)
(* attempt.                                                                *)
(***************************************************************************)
ClassOfCause(cause) ==
  CASE cause \in {"name", "handshake"} -> "tls"
    [] cause \in {"connect timeout", "stall"} -> "timeout"
    [] OTHER -> "io"

DocErrorClass ==
  pc = "done" /\ result.kind = "err" /\ failures # << >>
  => result.class = ClassOfCause(failures[tried].cause)
=============================================================================
