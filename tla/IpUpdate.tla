------------------------------ MODULE IpUpdate ------------------------------
(***************************************************************************)
(* src/ip.rs: a pair of optional addresses, one per IP version, and the    *)
(* pure operations the update loop and the providers perform on it.        *)
(***************************************************************************)
EXTENDS Sequences

CONSTANTS
    Addr,   \* the addresses a host may have (one set serves both versions)
    None    \* Rust's Option::None

ASSUME NoneAssumption == None \notin Addr

IpVersion == {"v4", "v6"}

OptionAddr == Addr \cup {None}

\* struct IpUpdate { v4: Option<Ipv4Addr>, v6: Option<Ipv6Addr> }
IpUpdates == [IpVersion -> OptionAddr]

NoAddress == [v \in IpVersion |-> None]

\* IpUpdate::iter(): the versions that have an address, IPv4 first.
iter(u) == (IF u["v4"] # None THEN <<"v4">> ELSE <<>>)
           \o (IF u["v6"] # None THEN <<"v6">> ELSE <<>>)

is_empty(u) == u = NoAddress

\* cached.and_then(|cached| cached.v), where cached is an Option<IpUpdate>.
Held(cached, v) == IF cached = None THEN None ELSE cached[v]

\* Mutant: any cached address stops an update, not only the same one.
changed_when_absent(observed, cached) ==
    [v \in IpVersion |-> IF Held(cached, v) # None THEN None ELSE observed[v]]

\* Keeps the observed addresses that differ from the cached ones.
changed_since(observed, cached) ==
    [v \in IpVersion |-> IF observed[v] = Held(cached, v) THEN None
                                                          ELSE observed[v]]

\* Mutant: the observed update replaces the cached one.
observed_only(observed, cached) == observed

\* Mutant: the cached addresses win.
cached_first(observed, cached) ==
    [v \in IpVersion |-> IF Held(cached, v) # None THEN Held(cached, v)
                                                  ELSE observed[v]]

\* Observed addresses win; a version that was not observed keeps its entry.
merge_into_cache(observed, cached) ==
    [v \in IpVersion |-> IF observed[v] # None THEN observed[v]
                                               ELSE Held(cached, v)]
=============================================================================
