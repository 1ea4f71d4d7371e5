----------------------------- MODULE DnsResolver -----------------------------
(***************************************************************************)
(* DnsResolver (src/dns.rs): a per-thread cache of IPv4 addresses in front *)
(* of DNS-over-HTTPS queries that follow CNAMEs.                           *)
(*                                                                         *)
(* The world outside is zone, the true DNS data, which may change at any   *)
(* time, also between the queries of one lookup.  Time passes at any       *)
(* moment too; it is kept relative: a cache entry stores the seconds left  *)
(* until its expires_at.  A name and its form with a trailing dot are the  *)
(* same value (normalize_dns_name strips the dot of CNAME data).           *)
(***************************************************************************)
EXTENDS Integers, FiniteSetsExt, SequencesExt

CONSTANTS
  Names,        \* DNS names
  Hosts,        \* the names callers ask resolve for
  AddrLists,    \* the non-empty address lists an A record set may hold
  Ttls,         \* the record TTLs servers send
  NoTtl,        \* a record without a TTL
  Nothing,      \* no value: a missing name, cache entry or result
  Ticks,        \* the amounts of time, in seconds, that pass at once
  Zones         \* the DNS data the world may hold

DNS_CACHE_TTL_FLOOR_SECS == 30
DNS_CACHE_TTL_CAP_SECS == 300
DNS_MAX_CNAME_DEPTH == 4

\* CachedResolution: left is the time until its expires_at.
Entries == [addrs : AddrLists, left : 0 .. DNS_CACHE_TTL_CAP_SECS]

Absent == [kind |-> "absent"]
AddrSets == [kind : {"A"}, addrs : AddrLists]
Aliases == [kind : {"CNAME"}, target : Names]

ASSUME HostsAssumption == Hosts \subseteq Names
ASSUME NamesAssumption == IsFiniteSet(Names)
ASSUME AddrAssumption  ==
  \A addrs \in AddrLists : addrs \in Seq({addrs[i] : i \in DOMAIN addrs}) \ {<< >>}
ASSUME TtlAssumption   == Ttls \subseteq Nat \cup {NoTtl} /\ NoTtl \notin Nat
ASSUME TickAssumption  == Ticks \subseteq Nat
ASSUME ZoneAssumption  == Zones \subseteq [Names -> {Absent} \cup AddrSets \cup Aliases]
ASSUME NothingAssumption == Nothing \notin Names \cup Entries

VARIABLES
  cache,      \* cache[h]: the entry for h, or Nothing
  pc,         \* "idle", or "query" while a DoH query is in flight
  host,       \* the argument of resolve
  qname,      \* the name the current resolve_host_v4 call asks for
  depth,      \* its depth argument
  result,     \* what resolve just returned, forgotten as the world moves on
  zone,       \* environment: the true DNS data
  settled,    \* history: seconds since zone last changed or, if a lookup was
              \* in flight then, since that lookup ended; up to the cap
  overlaps,   \* history: zone changed during the lookup in flight
  stored,     \* history: seconds since h was last looked up with success,
              \* up to the floor
  queries     \* history: DoH queries of the latest lookup, up to one more
              \* than DNS_MAX_CNAME_DEPTH

lookupVars == <<pc, host, qname, depth>>
vars == <<cache, lookupVars, result, zone, settled, overlaps, stored, queries>>

Least(a, b) == IF a <= b THEN a ELSE b
Most(a, b) == IF a >= b THEN a ELSE b

-----------------------------------------------------------------------------
(***************************************************************************)
(* The world: where a chain of aliases leads.                              *)
(***************************************************************************)
\* The name that the alias n stands for in z.
Target(z, n) ==
  IF n # Nothing /\ z[n] \in Aliases THEN z[n].target ELSE Nothing

\* The names met from n on by following aliases in z, and Nothing after them.
Walk(z, n) ==
  LET met[i \in 1 .. Cardinality(Names)] ==
        IF i = 1 THEN n ELSE Target(z, met[i - 1])
  IN  met

\* The same, up to some point.
Chains(z, n) ==
  {SubSeq(Walk(z, n), 1, k) : k \in {i \in DOMAIN Walk(z, n) : Walk(z, n)[i] # Nothing}}

\* The chains from n that lead to addresses.
Leading(z, n) == {path \in Chains(z, n) : z[Last(path)] \in AddrSets}

\* The addresses of n in z: the reference definition of a resolution.
TrueAddrs(z, n) == {z[Last(path)].addrs : path \in Leading(z, n)}

AliasRecords(path) ==
  [i \in 1 .. Len(path) - 1 |-> [type |-> "CNAME", data |-> path[i + 1]]]

AddrRecords(z, n) ==
  IF z[n] \in AddrSets
  THEN [i \in DOMAIN z[n].addrs |-> [type |-> "A", data |-> z[n].addrs[i]]]
  ELSE << >>

\* The records a server may send for n: the aliases it chose to follow, and
\* the addresses at their end, which it may leave to another query.
ServerRecords(z, n) ==
  LET chains == Chains(z, n)
      followed == {path \in chains : Len(path) > 1}
      ended == {path \in chains : z[Last(path)] \notin Aliases}
  IN  {AliasRecords(path) : path \in followed}
      \cup {AliasRecords(path) \o AddrRecords(z, Last(path)) : path \in ended}
-----------------------------------------------------------------------------
(***************************************************************************)
(* Faulty variants, each a slip the code could contain.                    *)
(***************************************************************************)
Live_Inclusive(entry) == entry # Nothing /\ entry.left >= 0
ClampTtl_NoFloor(secs) == Least(secs, DNS_CACHE_TTL_CAP_SECS)
ClampTtl_NoCap(secs) == Most(secs, DNS_CACHE_TTL_FLOOR_SECS)
TooDeep_Inclusive(d) == d > DNS_MAX_CNAME_DEPTH
TooDeep_OneEarly(d) == d >= DNS_MAX_CNAME_DEPTH - 1
NextDepth_Same(d) == d
StoreKey_LastName == qname
-----------------------------------------------------------------------------
\* (.clamp(FLOOR, CAP))
ClampTtl(secs) ==
  Least(Most(secs, DNS_CACHE_TTL_FLOOR_SECS), DNS_CACHE_TTL_CAP_SECS)

\* ttl_from_answers: the smallest TTL of all the records, whatever their type.
TtlFromAnswers(answers) ==
  LET ttls == {answers[i].ttl : i \in DOMAIN answers} \ {NoTtl}
  IN  ClampTtl(IF ttls = {} THEN DNS_CACHE_TTL_FLOOR_SECS ELSE Min(ttls))

\* parse_dns_answers: the A records in order, and the first CNAME.  It skips an
\* A record whose data is no IPv4 address; the servers modelled send none.
ParsedAddrs(answers) ==
  LET addrs[i \in 0 .. Len(answers)] ==
        IF i = 0 THEN << >>
        ELSE IF answers[i].type = "A" THEN Append(addrs[i - 1], answers[i].data)
        ELSE addrs[i - 1]
  IN  addrs[Len(answers)]

ParsedCname(answers) ==
  LET at == {i \in DOMAIN answers : answers[i].type = "CNAME"}
  IN  IF at = {} THEN Nothing ELSE answers[Min(at)].data

\* entry.expires_at > now
Live(entry) == entry # Nothing /\ entry.left > 0

\* depth >= DNS_MAX_CNAME_DEPTH
TooDeep(d) == d >= DNS_MAX_CNAME_DEPTH

NextDepth(d) == d + 1

\* The key under which resolve stores what it found.
StoreKey == host

Init ==
  /\ cache = [h \in Names |-> Nothing]
  /\ pc = "idle"
  /\ host = Nothing
  /\ qname = Nothing
  /\ depth = 0
  /\ result = Nothing
  /\ zone \in Zones
  /\ settled = DNS_CACHE_TTL_CAP_SECS
  /\ overlaps = FALSE
  /\ stored = [h \in Names |-> DNS_CACHE_TTL_FLOOR_SECS]
  /\ queries = 0
-----------------------------------------------------------------------------
\* resolve finds an entry that has not expired.
ResolveHit(h) ==
  /\ pc = "idle"
  /\ Live(cache[h])
  /\ result' = [host |-> h, kind |-> "ok", addrs |-> cache[h].addrs]
  /\ UNCHANGED <<cache, lookupVars, zone, settled, overlaps, stored, queries>>

\* resolve drops the expired entry, if there is one, and starts a lookup.
ResolveMiss(h) ==
  /\ pc = "idle"
  /\ ~Live(cache[h])
  /\ cache' = [cache EXCEPT ![h] = Nothing]
  /\ pc' = "query"
  /\ host' = h
  /\ qname' = h
  /\ depth' = 0
  /\ result' = Nothing
  /\ queries' = 1
  /\ UNCHANGED <<zone, settled, overlaps, stored>>

\* resolve returns: settled starts to count if the zone changed meanwhile.
Returns(r) ==
  /\ pc' = "idle"
  /\ host' = Nothing
  /\ qname' = Nothing
  /\ depth' = 0
  /\ result' = r
  /\ overlaps' = FALSE
  /\ UNCHANGED <<zone, settled, queries>>

Fails(why) ==
  /\ Returns([host |-> host, kind |-> "err", why |-> why])
  /\ UNCHANGED <<cache, stored>>

\* The answer has addresses: they are stored and returned.
Succeeds(answers) ==
  LET addrs == ParsedAddrs(answers)
  IN  /\ addrs # << >>
      /\ cache' = [cache EXCEPT ![StoreKey] =
                     [addrs |-> addrs, left |-> TtlFromAnswers(answers)]]
      /\ stored' = [stored EXCEPT ![host] = 0]
      /\ Returns([host |-> host, kind |-> "ok", addrs |-> addrs])

\* The answer has an alias only: resolve_host_v4 calls itself, and the call
\* fails at once when it is too deep.
Follows(answers) ==
  /\ ParsedAddrs(answers) = << >>
  /\ ParsedCname(answers) # Nothing
  /\ IF TooDeep(NextDepth(depth))
     THEN Fails("answer")
     ELSE /\ qname' = ParsedCname(answers)
          /\ depth' = NextDepth(depth)
          /\ queries' = Least(queries + 1, DNS_MAX_CNAME_DEPTH + 1)
          /\ UNCHANGED <<cache, pc, host, result, zone, settled, overlaps, stored>>

NoAddresses(answers) ==
  /\ ParsedAddrs(answers) = << >>
  /\ ParsedCname(answers) = Nothing
  /\ Fails("answer")

\* What DoH may answer now: the records it chose to send, each with a TTL.
Answers ==
  UNION {{[i \in DOMAIN records |->
             [type |-> records[i].type, data |-> records[i].data, ttl |-> ttls[i]]] :
            ttls \in [DOMAIN records -> Ttls]} :
         records \in ServerRecords(zone, qname)}

\* A DoH answer with status NOERROR arrives.
QueryAnswered ==
  /\ pc = "query"
  /\ \E answers \in Answers :
       \/ Succeeds(answers)
       \/ Follows(answers)
       \/ NoAddresses(answers)

\* DoH says that there is no such name, at the end of some aliases or at once: a
\* status that is not NOERROR.
QueryRefused ==
  /\ pc = "query"
  /\ \E path \in Chains(zone, qname) : zone[Last(path)] = Absent
  /\ Fails("answer")

\* The exchange with DoH fails, its answer has an HTTP error status, cannot be
\* decoded or has another status that is not NOERROR, such as SERVFAIL.
QueryFails ==
  /\ pc = "query"
  /\ Fails("transport")
-----------------------------------------------------------------------------
ZoneChanges ==
  /\ zone' \in Zones \ {zone}
  /\ settled' = 0
  /\ overlaps' = (pc = "query")
  /\ result' = Nothing
  /\ UNCHANGED <<cache, lookupVars, stored, queries>>

\* Time passes.  settled does not count it while a lookup is in flight that a
\* change of the zone overlapped: of such a lookup the first answers may be from
\* before the change, and the end stores what came of them for a full TTL more.
TimePasses(secs) ==
  /\ cache' = [h \in Names |->
                 IF cache[h] = Nothing THEN Nothing
                 ELSE [cache[h] EXCEPT !.left = Most(@ - secs, 0)]]
  /\ settled' = IF overlaps THEN 0 ELSE Least(settled + secs, DNS_CACHE_TTL_CAP_SECS)
  /\ stored' = [h \in Names |-> Least(stored[h] + secs, DNS_CACHE_TTL_FLOOR_SECS)]
  /\ result' = Nothing
  /\ UNCHANGED <<lookupVars, zone, overlaps, queries>>

Query == QueryAnswered \/ QueryRefused \/ QueryFails

Next ==
  \/ \E h \in Hosts : ResolveHit(h) \/ ResolveMiss(h)
  \/ Query
  \/ ZoneChanges
  \/ \E secs \in Ticks : TimePasses(secs)

Spec == Init /\ [][Next]_vars

\* Every DoH exchange ends: its socket reads and writes have timeouts, in a
\* native build, which is where the resolver runs.
FairSpec == Spec /\ WF_vars(Query)
-----------------------------------------------------------------------------
TypeOK ==
  /\ cache \in [Names -> {Nothing} \cup Entries]
  /\ pc \in {"idle", "query"}
  /\ host \in Names \cup {Nothing}
  /\ qname \in Names \cup {Nothing}
  /\ depth \in 0 .. DNS_MAX_CNAME_DEPTH - 1
  /\ result \in {Nothing} \cup
                [host : Names, kind : {"ok"}, addrs : AddrLists] \cup
                [host : Names, kind : {"err"}, why : {"answer", "transport"}]
  /\ zone \in Zones
  /\ settled \in 0 .. DNS_CACHE_TTL_CAP_SECS
  /\ overlaps \in BOOLEAN
  /\ stored \in [Names -> 0 .. DNS_CACHE_TTL_FLOOR_SECS]
  /\ queries \in 0 .. DNS_MAX_CNAME_DEPTH + 1

(***************************************************************************)
(* Once the DNS data has been still for the 300 s of the TTL cap, counted  *)
(* from its last change or from the end of the lookup that overlapped that *)
(* change, the addresses resolve returns are the ones the data holds for   *)
(* that host, whatever was cached, through whatever aliases, before.  So   *)
(* what is stale is so for the cap and the rest of one lookup, no longer   *)
(* (src/dns.rs:53-72, :132).                                               *)
(***************************************************************************)
FreshOnceSettled ==
  result # Nothing /\ settled = DNS_CACHE_TTL_CAP_SECS /\ result.kind = "ok"
  => result.addrs \in TrueAddrs(zone, result.host)

(***************************************************************************)
(* With DNS data still for as long, and a transport and a DoH server that  *)
(* work, resolve fails only for a host whose addresses do not exist or are *)
(* DNS_MAX_CNAME_DEPTH or more aliases away (src/dns.rs:79, :106-117).     *)
(***************************************************************************)
FailsOnlyWhenUnresolvable ==
  result # Nothing /\ settled = DNS_CACHE_TTL_CAP_SECS /\ result.kind = "err"
  => \/ result.why = "transport"
     \/ \A path \in Leading(zone, result.host) : Len(path) > DNS_MAX_CNAME_DEPTH

(***************************************************************************)
(* A lookup ends after DNS_MAX_CNAME_DEPTH queries at the latest, also     *)
(* when the aliases run in a circle (src/dns.rs:79-83, :111-113).          *)
(***************************************************************************)
QueriesBounded == queries <= DNS_MAX_CNAME_DEPTH

(***************************************************************************)
(* A host is not looked up again within DNS_CACHE_TTL_FLOOR_SECS of a      *)
(* successful lookup, however small its TTL and whatever other hosts are   *)
(* resolved in between.  A failed lookup leaves nothing in the cache, so   *)
(* nothing here spaces it from the next one (src/dns.rs:53-72, :132).      *)
(***************************************************************************)
LookupSpacing ==
  [][pc = "idle" /\ pc' = "query" => stored[host'] = DNS_CACHE_TTL_FLOOR_SECS]_vars

(***************************************************************************)
(* Only the hosts callers ask for have entries, not the names met on the   *)
(* way to their addresses: the cache, which is never pruned, does not grow *)
(* with the aliases a DNS server makes up (src/dns.rs:43, :64-70).         *)
(***************************************************************************)
OnlyHostsCached == \A n \in Names \ Hosts : cache[n] = Nothing

(***************************************************************************)
(* Every resolve returns, whatever aliases the DNS data holds, if every    *)
(* DoH exchange ends (src/dns.rs:74-118).                                  *)
(***************************************************************************)
ResolveReturns == pc = "query" ~> pc = "idle"
=============================================================================
