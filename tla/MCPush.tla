------------------------------- MODULE MCPush -------------------------------
(***************************************************************************)
(* Small instances of Push for TLC.                                        *)
(***************************************************************************)
EXTENDS Push, TLC

CONSTANTS a, b, entry1, entry2, home, office

OnlyV4 == {u \in IpUpdates : u["v4"] # None /\ u["v6"] = None}
Pairs(x, y) == [v \in IpVersion |-> IF v = "v4" THEN x ELSE y]
\* Each version alone, and both with other addresses than those.
ThreeUpdates == {Pairs(a, None), Pairs(b, a), Pairs(None, b)}

\* Two entries for one name.
Overlap == [type : {[t \in Task |-> ty] : ty \in Type \ {"duckdns"}},
            domains : {[t \in Task |-> <<home>>]},
            retries : {1}]

Pair(x, y) == [t \in Task |-> IF t = entry1 THEN x ELSE y]

\* Two entries of different types, one of which lists its name twice, or two
\* of Duck DNS with requests that are repeated.
Mixed == [type : {Pair("cloudflare", "duckdns"), Pair("porkbun", "duckdns")},
          domains : {Pair(<<home, home>>, <<office>>)},
          retries : {0}]
         \cup [type : {Pair("duckdns", "duckdns")},
               domains : {Pair(<<home>>, <<office>>)},
               retries : {1}]

\* Names are new to the service or have a record.
AtMostOne == {<<>>} \cup {<<x>> : x \in Addr}

SymmetryTasks == Permutations(Addr) \cup Permutations(Task)
=============================================================================
