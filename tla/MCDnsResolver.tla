--------------------------- MODULE MCDnsResolver ---------------------------
(***************************************************************************)
(* Instances of DnsResolver for TLC.                                       *)
(***************************************************************************)
EXTENDS DnsResolver

CONSTANTS h1, h2, h3, h4, h5, ip1, ip2, ip3

MCAddrLists == {<<ip1>>, <<ip2, ip3>>}

At(list) == [kind |-> "A", addrs |-> list]
To(name) == [kind |-> "CNAME", target |-> name]

\* Two hosts, the first of which may be an alias of the second.
PairZones ==
  {z \in [{h1, h2} -> {Absent} \cup {At(list) : list \in MCAddrLists} \cup {To(h2)}] :
     z[h1] \in {At(<<ip1>>), To(h2)} /\ z[h2] # To(h2)}

\* Just short of the floor, and the rest of the cap: together exactly the cap.
CacheTicks == {29, 271}

\* As long as the cap.
AliasTicks == {300}

\* Below the floor, inside the clamp, above the cap, and none.
MCTtls == {NoTtl, 1, 60, 301}

\* A line of k aliases that ends in nothing, in addresses or in a circle.
Line == <<h1, h2, h3, h4, h5>>
LineZone(k, end) ==
  [n \in Names |->
     IF \E i \in 1 .. k : Line[i] = n
     THEN To(Line[(CHOOSE i \in 1 .. k : Line[i] = n) + 1])
     ELSE IF n = Line[k + 1] THEN end ELSE Absent]
LineZones ==
  {LineZone(k, end) : k \in 0 .. 4,
                      end \in {Absent, At(<<ip1>>)} \cup {To(n) : n \in Names}}
=============================================================================
