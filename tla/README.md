# Verification of the VZGLYD sidecar library

This directory holds TLA+ specifications of the `vzglyd_sidecar` crate
(`src/`), configurations that model-check them with TLC, and proofs checked
with TLAPS. Paths such as `src/poll.rs:98` are relative to the repository.

A *sidecar* is a small program, usually a `wasm32-wasip1` module, that fetches
remote data for a *slide* and hands it over through a channel the host keeps.
The crate is the sidecar's whole runtime: a polling loop, host calls, an HTTPS
client with its own DNS resolver, and the wire on which requests go to the host.

## 1. Inventory

| Component | State | Operations | What makes it hard |
|---|---|---|---|
| Poll loop (`poll.rs`) | interval, backoff, retry counter | `poll_loop`, `drive_once` | two sleeps with different rules, retries, a backoff that doubles in a `u32`, sleeps the host may cancel |
| Channel to the slide (`channel.rs`) | none of its own: the host keeps one slot | `channel_push`, `channel_poll`, `announce_sleep`, `network_roundtrip` | lossy, polled, may refuse a push |
| DNS resolver (`dns.rs`) | a cache per thread, entries with an expiry | `DnsResolver::resolve` | data that changes while it is cached and while it is looked up; aliases in circles |
| HTTP response reading (`http.rs:54-285`) | the bytes read so far | `https_get_via_ip`, `http_response_complete_len`, `parse_http_response` | a stream cut anywhere; two scanners for one format; ends that are not ends |
| Address failover and sockets (`http.rs:13-52`, `socket.rs`, `tls.rs`) | the socket and session of an attempt | `https_get_with_candidates`, `connect_any`, `RawSocket`, `tls_connect` | an attempt fails at any of its steps; timeouts differ by platform |
| Host request bridge (`host_request.rs`, `lib.rs:250-313`, `channel.rs:99-127`) | none: the host keeps the last response | `execute_host_request`, `encode_*`, `decode_*` | three host calls make one; versions; a response that nothing ties to its request |
| Conditional GET (`lib.rs`, `http.rs`) | none: the caller keeps the body and its validators | `https_get_conditional`, `https_get`, `https_get_text` | a 304 has no body and perhaps no validators; the resource changes meanwhile |
| Trace spans (`trace.rs`, and where `poll.rs` and `lib.rs` open them) | per guard: span id, status, whether it is finished | `trace_scope`, `trace_scope_with_attrs`, `set_status`, `end`, `Drop`, `traced_main_entrypoint` | guards that end by `?`, by `break` and by `end`; a host that refuses spans |
| URL splitting (`lib.rs:212-239`) | none | `split_https_url` | delimiters tried in an order |
| TLS configuration, manifest, environment | constants or none | pure functions | - |

How they interact. `poll_loop` calls the sidecar's fetch closure; the closure
usually calls `https_get_*`, which makes a `HostRequest`. In wasm it goes to
the host in `network_request`, `network_response_len` and
`network_response_read`; a native build executes it in place. On the way the
loop, the closure and the request open trace spans at the host. Execution
resolves the host name (`DnsResolver`, itself an HTTPS exchange with
`dns.google`), tries the addresses in order (`Failover`) and reads one response
(`HttpFraming`). Everything in one sidecar is a single thread. What is
concurrent is the world around it: the remote data and the DNS data change
while a fetch is under way, the slide polls the slot whenever it likes, the
host answers each call as it likes, and a TCP stream is cut, stalled or broken
at any byte.

The properties that make each part correct:

* the loop neither polls too often nor goes quiet for too long, gives each
  payload its retries and no more, never makes the slide go back, and in the
  end shows the latest data;
* the resolver is stale for the cap and the rest of one lookup at most, does not
  look a host up again for a while after a success, and always returns;
* an HTTP result is the whole body or an error, however the stream was cut, and
  the loop stops when the response is there;
* every address gets its chance, a result comes from one server, and the
  connection of an attempt is ended when the attempt is;
* a host request returns its own outcome, or an error, with the error's class;
* what a caller keeps of a resource is one version with its own validators, also
  when 304s confirm it;
* through all of these, what is pushed is what the server had when it answered,
  what the slide shows never goes back, and in the end it is the server's data;
* the spans a host has open are those of the live guards, end in time, and have
  the statuses that the code gives each on its path: `ok` for an iteration whose
  fetch succeeded, a push that was taken, a closure that succeeded, a request
  whose response was decoded.

The hazards behind these are listed with their lines in `PROJECT.json`.

## 2. Modules

| Module | Models | State and actions against the code |
|---|---|---|
| `LatestValueFeed` | abstract: a lossy feed of a remote value through a one-place slot | `Change`, `Publish`, `Pickup`; no counterpart in the code. Implemented by `PollLoop` and by `Sidecar` |
| `PollLoop` | `poll.rs`, with the channel it uses | `interval`, `backoff`, `attempt`, `pushed` are the variables of `drive_once`, `pc` its position. `FetchOk`/`FetchErr` are the two arms of the match, `PushAccepted`/`PushRejected` the two of `channel_push`, `RetrySleep`/`PollSleep`/`BackoffSleep` the three calls of `HostRuntime::sleep`, each with the announcement before it. `SourceChanges` and `SlidePolls` are the world. `elapsed`, `skip` (how the host answered the announcement of the last long sleep), `fails`, `offers`, `taken`, `outcome` are history |
| `PollLoopProofs` | proofs about `PollLoop` | |
| `DnsResolver` | `dns.rs` | `cache` with relative expiry; `host`, `qname`, `depth` are the arguments on the stack of `resolve_host_v4`. `ResolveHit`/`ResolveMiss` are `resolve` up to the query, `QueryAnswered`/`QueryRefused`/`QueryFails` the outcomes of one DoH exchange and what follows it. `ZoneChanges` and `TimePasses` are the world; `settled` is the history that staleness is measured by |
| `DnsResolverProofs` | proofs about `DnsResolver` | |
| `HttpFraming` | the read loop and parsing of `http.rs` | `got` is `response.len()`; `ReadBytes`, `ReadEnd`, `ReadUnexpectedEof`, `ReadFails` are the arms of the match on `read`. `Metadata`, `CompleteLen`, `chunked_wire_len`, `decode_chunked_body`, `Parse` are the functions of the same names |
| `HttpFramingProofs` | proofs about `HttpFraming` | |
| `Failover` | `https_get_with_candidates`, `connect_any`, the life of a socket, the class of an I/O error | `tried` is the position of the `for` loop, `pc` the step an attempt is at, `sockets` what has become of the socket of each attempt; one action per way a step ends, from `sock_open` to the parse. `NoAddress` is the loop over an empty list |
| `FailoverProofs` | proofs about `Failover` | |
| `HostCall` | abstract: one call, executed at most once, that returns its outcome or an I/O error | |
| `HostBridge` | `execute_host_request`, `network_roundtrip`, `encode_response`/`decode_response`, `execute_request`, `error_response`/`decode_error` | `pc` is the position between the host calls; `slot` is the host's; `bytes` is the buffer of `network_roundtrip` |
| `HostBridgeProofs` | proofs about `HostBridge` | |
| `ConditionalGet` | `https_get_conditional`, `successful_body`, the validators' way through `headers_from_response` and `header_value` | `Call` is the code up to the exchange, `CallReturns` what follows it; `ServerAnswers`, `ResourceChanges` and what the caller keeps are the world |
| `ConditionalGetProofs` | proofs about `ConditionalGet` | |
| `TraceScopes` | `trace.rs`: guards and the spans they stand for | operators on a trace state: `scopes` are the live guards, which are local variables and so dropped innermost first; `spans` is what the host has open. `trace_scope`, `set_status`, `finish`, `end`, `DropLast` are the code's functions |
| `Sidecar` | a whole sidecar: `poll_loop` over a closure that makes a conditional GET and keeps its body, with every span the crate opens | see below |
| `SidecarProofs` | proofs about `Sidecar`, over instances of `PollLoopProofs` and `ConditionalGetProofs` | |
| `UrlSplit` | `split_https_url` | `HostAndPath` is its nested `match`; a URL is its scheme and a sequence of characters |
| `InductionFacts` | induction over the naturals, least elements, recursion: facts the proofs cite | |
| `MC*` | constants and inputs for TLC | |

`Sidecar` is the composition. It instantiates `PollLoop`, `ConditionalGet` and
`TraceScopes` over its own variables: `loopPc` and `getPc` are the positions of
the first two, `answered` and `fetched` their outcomes, and what was the
remote data of `PollLoop` is here `Returned`, the body the caller of
`ConditionalGet` keeps. Each action joins the actions of the components that
happen in one stretch of the code and says what becomes of the trace.
`FetchStarts` is the way from `drive_once` through the closure into
`execute_host_request`; `RequestFails` and `RequestReturns` the ways back, the
first by `?`; `FetchReturns` the `match fetch()`; the others are actions of the
loop under the spans of an iteration and of a push. `Opened`, `Marked`,
`Dropped` and `Ended` act on sets of traces, since a host may take or refuse a
span. The closure is external, written as the crate's README shows one: a
scope named `fetch` around the request, which it ends itself or leaves to be
dropped. The outermost span, of `traced_main_entrypoint`, never ends, because
`poll_loop` does not return.

`Failover` abstracts a response to the addresses its pieces came from;
`HttpFraming` abstracts an attempt to its stream; `HostBridge` abstracts
execution to its outcome; `PollLoop` abstracts a fetch to success or failure and
the version of the data. The interfaces line up: a fetch is a `HostCall`, whose
execution is a `Failover`, whose `ReadPiece`...`ReadDone` is an `HttpFraming`,
and every outcome one layer may produce is one that the layer above allows.

Definitions ending in an underscore and a word (`NextBackoff_Wraps`) are faulty
variants: slips that the code could contain, used only to see that a property
notices them.

## 3. Runs

Each run names the properties it checks in its `.cfg`.

| Run | Configuration | Shows | Bounds, and why they are enough |
|---|---|---|---|
| poll | `MCPollLoop.cfg` | `PollSpacing` (also that a refresh asked for during a retry pause does not bring the next fetch forward), `BoundedSilence`, `BackoffDoubles`, `EveryPayloadSettled`; `ImplementsFeed` (refinement) and `Converges` (liveness) | intervals 0, 1, 7, 30, 31, 59, 60, 61, 90, 128, 255 meet every boundary of the cap and of the width. `u32` is scaled to 8 bits (`U32Max` = 255), so that doubling reaches it. Seven failures count (`FailsCap`): from an interval of 1, the cap is reached after six. Three versions of the data, so that one can be skipped |
| dns_cache | `MCDnsCache.cfg` | `FreshOnceSettled`, `LookupSpacing` | two hosts, one perhaps an alias of the other; TTLs none, 1, 60, 301 lie on both sides of both clamps; ticks of 29 and 271 s sum to the cap exactly, and the first is one short of the floor |
| dns_aliases | `MCDnsAliases.cfg` | `FailsOnlyWhenUnresolvable`, `QueriesBounded`, `OnlyHostsCached`, `ResolveReturns` (liveness) | lines of zero to four aliases over five names, ending in addresses, in nothing or in any circle: one alias more than the limit of the code resolves |
| http | `MCHttpFraming.cfg` | `CompleteOrError`, `StopsAtEnd`, `FragmentationIndependent`, `LengthAgreesWithParse` | messages servers build, with payloads that look like framing, chunk extensions, trailers, contradictory headers and bytes that follow; and every body of at most four pieces out of eight, most of them malformed. Reads of one to four bytes (`BufLen`, 4096 in the code) cut every delimiter at every place. `UsizeMax` = 255 brings a chunk size of `FF` to the overflow |
| bridge | `MCHostBridge.cfg` | `HonestBridgeDelivers`, `ImplementsHostCall` (refinement) | two operations and two requests of each, so that an old response can be of the same kind and still be wrong; any of the three calls fails, a response is cut off, statuses are 0, 1, -1; this wire version and another |
| failover | `MCFailover.cfg` | `AllTriedBeforeError`, `ResponseFromOneServer`, `ConnectionsEnded` | no address, and one to three, one of them twice; all three platforms; responses of up to two pieces |
| conditional | `MCConditionalGet.cfg` | `Coherent`, `UpToDate`, `NotModifiedKeepsValidators` | four versions, so that a validator can be two changes old; every choice of validators a server may leave out; tags in no order |
| sidecar | `MCSidecar.cfg` | `PushesWhatWasServed`, `SpansWellNested`, `SpansEndInTime`, `StatusesTellTheTruth`; `ImplementsFeed` (refinement) and `Converges` (liveness) | one interval and announcements that are answered 0: backoffs and skips are the matter of run poll, and nothing here depends on how long a sleep takes. Three versions, so that one can be skipped and a validator be two changes old. The host may refuse the span of a request while it keeps those around it |
| doc_* | | the disagreements of section 5, each a violation | as the run of the module |

`TypeOK` is the one type invariant of each module. Deadlock is checked except in the
runs of `HttpFraming`, `Failover` and `UrlSplit`: there the modelled call
returns, once.

The bounds that appear in guards are `MaxVersion` (versions of the remote data
in `PollLoop`, of the resource in `ConditionalGet` and `Sidecar`)
and `MaxPieces` (pieces of a response in `Failover`, of a body in
`MCHttpFraming`); histories that count are capped where nothing can depend on
more (`FailsCap`, `settled`, `stored`, `queries`).

**Time.** `PollLoop` keeps the seconds slept since the last fetch began;
`DnsResolver` keeps the seconds left of each entry. Both are finite without a
bound on a clock. Time passes in a sidecar between calls and, for DNS, during
the exchange; the resolver reads the clock once before the lookup and once
after, and an entry is valid from the latter, as in the model. `settled`
measures how long the DNS data has been still: from its last change or, if a
lookup was under way then, from the end of that lookup, since what was read
before the change is cached for a whole TTL after it. So `FreshOnceSettled`
bounds staleness by the 300 s of the cap and the rest of one lookup, and no
smaller bound holds.

**Fairness.** The loop of `poll_loop` has no exit and every host call in it
returns, which gives weak fairness of its steps. That the slide polls is the
host's frame loop. Strong fairness of `FetchOk` and `PushAccepted` is an
assumption on the world, not on the code: failures are not permanent; without
it nothing could converge. `DnsResolver` assumes weak fairness of `Query`: reads
and writes of a socket have timeouts in a native build, which is where requests are
executed, so an exchange ends (unless a server keeps sending, a byte at a time:
see the hazards). `Sidecar` assumes weak fairness of
everything the program does, for the same reasons, and of the slide, and strong
fairness of the server's useful answers, of their arrival and of accepted
pushes: the server does not refuse for ever, not every response is lost, and
the host takes a payload again and again. The bound on the
aliases is not assumed but is what `ResolveReturns` shows.

## 4. Proofs

`tlapm` checks every theorem to its leaves, for all values of the constants
that satisfy the `ASSUME`s of the modules (that the intervals are `u32`s, that
the host returns integers, that the histories count far enough, how a message
with a meaning is framed). TLC evaluates
those assumptions in the runs.

*`PollLoopProofs`.* `IInv` strengthens the type invariant with the bounds on
`backoff` (between the smaller of interval and cap, and the larger), with what
`elapsed` has reached at each point of `drive_once` (the sleeps that lead back
to a fetch are `SleepToFetch`, the pause between attempts is `Sleep`), with the relation between
`attempt`, `offers`, `taken` and `pushed`, and with the order
`seen <= slot <= payload <= source`. None of the safety properties is inductive
by itself: `PollSpacing` needs the lower bound of `backoff` at the sleep before
the loop is back at `fetch`; `EveryPayloadSettled` needs that in the middle of
the retries `offers` is `attempt` and nothing was taken; and the refinement
needs `slot <= payload` when a push is accepted. From `Inductive` follow
`TypeCorrect`, `SpacingHolds`, `SilenceBounded`, `PayloadsSettled` and, step by
step, `FeedImplemented`. `BackoffDoublesAlways` adds that failures are counted
from the last success on (`FailuresCounted`); its two facts are that one more
doubling is never cut short by the width of the backoff before the cap is
(`NextDoubling`), and that six doublings take any interval to the cap, so that
failures beyond the count change nothing (`BeyondTheCount`).

*`HostBridgeProofs`.* The invariant says that once the host has accepted a
request, whatever sits in its slot is an encoding made of the outcome of *this*
request: it holds because `network_roundtrip` stops at a nonzero status and a
host that accepts a request replaces its response. `BridgeImplementsCall` maps
each step to one of `HostCall`: `Decode` is a `Return`, a failed call a
`Return` of an I/O error, the request an `Execute`, and the native build an
`ExecuteAndReturn`.

*`ConditionalGetProofs`.* `Coherent` is not inductive alone: that a 304 confirms
the body needs that an answer under way was made for the conditions of what is
kept (`Order`, `AnswerHonest`), and that the version kept is not newer than the
server's. `NotModifiedMeansSame` is the heart: matching validators mean the
same version, by injectivity of the tags or by the order of the stamps. The
lemmas `BridgedIsFaithful` and `ConditionsAreRead` say that validators survive
the header lists they travel in. Assumed of the resource: its validators tell
its versions apart, and (see the hazards) no version is empty.

*`DnsResolverProofs`.* `Names` is any finite set, so chains of aliases have any
length and any shape. A chain is a *path*, a function on `1 .. k` each name of
which is an alias of the next (`ChainsArePaths`, `PathsAreChains`). Two paths
from one name agree as far as both go (`SameStart`); one that ends in addresses
meets no name twice, and so is no longer than there are names
(`EndedPathsAreShort`, by the pigeonhole principle), which is why a walk of
that length sees all there is. `AnswerShape` says that what a server may send
is a path followed by the addresses at its end, and `AnswersAreTrue` what
`parse_dns_answers` makes of it. The invariant has three parts of its own:
`Fresh` (an entry with more seconds left than the cap minus `settled` agrees with
the zone), `Spaced` (an entry stored less than the floor ago has the rest of
the floor left) and `OnPath` (unless the zone changed under the lookup, `qname`
is `depth` aliases from `host`). From it follow `TypeCorrect`,
`AddressesAreFresh` (true addresses once the data has been `settled` for the cap), `FailuresAreTrue`, `LookupsAreBounded`, `CacheHoldsHosts`
and, as an action property, `LookupsAreSpaced`.

*`HttpFramingProofs`.* Messages are any bytes after any head, of any length. Both
scanners of chunks are recursive functions of the cursor; `WireSteps` and
`DecodeSteps` say that they exist and that each, at a cursor with a whole chunk
(`WholeChunk`), goes on at the same next one (`NextChunk`), and elsewhere gives
a verdict. What a prefix shows of a line, a chunk or a verdict other than "not
yet" is what the whole shows (`SizeLineInPrefix`, `WholeChunkInPrefix`,
`VerdictIsFinal`), so that by induction from the end of the body backwards the
length scanner never revises what it decided (`WireStable`) and finds an end only
where the decoder succeeds (`WireEndDecodes`). Hence an answer given for some of
the bytes is the answer for all (`AnswerStable`). The loop's invariant is then
short: while it reads there is no answer for what it has, and its result is the
answer, the parse or the error that its end calls for. From it follow
`TypeCorrect`, `FragmentationDoesNotMatter`, `LengthAgrees`, and
`NothingAfterUnexpectedEof`: the arm of the `match` that looks for a complete
response after an unexpected end (`http.rs:78-83`) can never find one.

What a body *means* is stated from the grammar of the protocol and not from the
reader: `FramingAssumption` says of the messages that have a meaning that they are
put together from chunks (`InChunks`: hex digits, an extension or none, the
payload, the delimiters) or have the length that the head gives. That what a
server puts together the reader takes apart is then a matter of place: each
chunk begins where the encodings before it end (`ChunksOnWire`), the first CRLF
from there ends its size line, since neither digits nor extension contain a CR
(`LineIsRead`), and the size before the semicolon leads over the payload,
whatever it contains (`ChunkIsRead`). So the decoder gives the payloads in order
(`ChunksAreDecoded`) and the length finds the end (`ChunksAreMeasured`), also
when more bytes follow or fewer have arrived (`DecodeStable`,
`WireEndInPrefix`). `WholeBodyOrError` and `ReadsNoFurther` follow from these and
the loop's invariant. A response is held in memory, so its length fits a
`usize`; malformed messages (kind "other") are under no assumption.

*`FailoverProofs`.* The properties speak of the return; the invariant is the
account on the way to it: between attempts every address taken has failed,
during one all but the last (`Account`), and what was read came from the
address being tried (`OwnResponse`). `ConnectionsEnded` is inductive with it:
each step changes the socket of its own attempt only. The lists of addresses
and the responses have any length. From it follow `TypeCorrect`, `AllAreTried`,
`OneServerAnswers` and `NoConnectionLeaks`: every attempt that is over has ended
its connection. That is not to say that nothing of it is left: on WASI the code
has no call that closes a descriptor, so a socket is left `"shut"`.

*`SidecarProofs`.* The data and the spans are two arguments. For the data
(`DataInductive`) the invariants of `PollLoopProofs` and `ConditionalGetProofs`
are reused through INSTANCE: each action of `Sidecar` is one of the loop or one
of the request, and to the loop a request is a source that moves on while it
waits. `Composed` joins them: a call that succeeded leaves in `Returned` what
was `served`, which is not newer than `current`. `PushesWhatWasServedAlways`
and the refinement `FeedImplemented` follow. For the spans (`Inductive`),
`GuardsHere` names the guards that are alive at each point of the program.
A guard's span is open exactly while it lives, if the host took it; what an
operation does to the innermost guard is proved once, for any stack (`Opening`,
`Marking`, `Dropping`, `Ending`), and an action is a few of these. `SpansNest`,
`SpansEnd` and `StatusesTrue` follow for every choice of spans the host
refuses. `StatusesTrue` says what the status of each span stands for: guards
have none until they are marked (`Unset`), and the request's is `ok` exactly
when its response was decoded (the history `decoded`), be it the response to a
request that failed. `TypeCorrect` covers
both.

*`InductionFacts`.* The induction theorems of the library take a predicate as a
parameter, which the installed provers cannot instantiate. Stated about a *set*
of numbers (`SetInduction`), induction is usable, and with it what a recursive
function computes: that one exists (`RecursionExists`; `ForwardExists` for one
that refers to arguments further on, as the scanners do) and what its values are
(`SetInduction`, `DownwardInduction`). `Walk`, `ParsedAddrs`, `SpansOfScopes` and
the scanners are functions for this reason.

Only model-checked: the liveness properties `Converges` (twice) and
`ResolveReturns`, which are beyond the prover, and the runs of section 5, which
are counterexamples.

## 5. Where the code and its documentation disagree

| Run | What TLC shows |
|---|---|
| `doc_skip` | "the host returns 1 to skip the sleep" (`poll.rs:38`): any nonzero status skips it, so a host call that fails makes the loop poll without a pause |
| `doc_not_modified` | "when the server responds with 304 Not Modified, the returned body is empty" (`lib.rs:124`): a 304 that states the Content-Length of the body it omits is an error |
| `doc_error_class` | `Error::Tls` is "TLS handshake or certificate validation failed" (`lib.rs:59`) and `Error::Timeout` "the operation timed out" (`lib.rs:70`): the handshake runs under the first write, and on Unix a read or write that ran out of time is `WouldBlock`; both become `Error::Io`. (The counterexample is the failed handshake, which is shorter) |
| `doc_url` | "Split an HTTPS URL into `(host, path)`", with an error if it "does not contain a valid host" (`lib.rs:212-216`): a bug. The first slash wins wherever it is, so `https://example.com?next=/home` has the host `example.com?next=`, and `https://?/` has the host `?`. (A `#` is not looked for either; the run leaves it out) |

Two more need no run. "Failures back off exponentially up to 60 seconds"
(`poll.rs:7-8`) is not so for an interval above 60 s, whose first failure
sleeps the whole interval: `BoundedSilence` and `BackoffDoubles` say what does
hold. And `README.md:27` calls the span of a run `sidecar.main`, where the
macro's default is `sidecar_main` (`lib.rs:171`).

## 6. What is not modelled

* The content of payloads, headers other than those that frame a body or
  validate it, JSON and log lines: data that no property tells apart. A
  head is opaque in `HttpFraming` and arrives whole with its terminator. The
  UTF-8 check, the trim and a leading `+` of a chunk size (`http.rs:212-216`) and
  A records whose address does not parse (`dns.rs:143`) are left out.
* What becomes of a WASI descriptor after `sock_shutdown`: the code never closes
  it, and `Failover` leaves its socket `"shut"`.
* In `PollLoop` the pauses between push attempts, up to 3 s, are a part of the time
  between two fetches that `PollSpacing` measures, as in the code.
* `artifact_publish`, `info_log`, `channel_active` and the registration of the
  manifest: they hand their argument to the host and return its status.
* The TLS configuration and the manifest (constant data), `env_var` (what
  `std::env::var` returns), the build.
* Attributes of spans and trace events: no state depends on them.
* Panics: a wasm sidecar aborts, and no guard is dropped.
* The host runtime is external: modelled from what the crate's calls to it
  accept as an answer.

## 7. Plan

Order chosen so that what every sidecar depends on came first:

1. `PollLoop` with its abstract feed, TLC, proofs - done.
2. `DnsResolver`, TLC, proofs - done.
3. `HttpFraming`, TLC, proofs - done.
4. `HostBridge` with its abstract call, TLC, proofs - done.
5. `Failover`, TLC, proofs - done.
6. `ConditionalGet`, TLC, proofs - done.
7. `TraceScopes` and `Sidecar`, TLC, proofs - done.
8. `UrlSplit`, TLC - done.
