------------------------------- MODULE Config -------------------------------
(***************************************************************************)
(* src/config.rs and validate_config() of the providers: what is refused   *)
(* of a configuration file.  A raw configuration is a record; a text is    *)
(* reduced to what the checks look at, a URL to its scheme.                *)
(***************************************************************************)
EXTENDS Integers, Sequences

Version == {"v4", "v6"}

\* A text that is "blank" is empty, all white space, or left out.
Text == {"blank", "comma", "plain"}

Provider == [type : {"cloudflare", "porkbun", "duckdns"}, token : Text,
             domains : Seq(Text)]

RawConfig == [source : {"http", "interface"}, name : Text,
              versions : Seq(Version),
              interval : Nat, timeout : Nat, connect_timeout : Nat,
              retries : Nat, http_lookup_quorum : Nat,
              urls : [Version -> Seq({"http", "https", "other"})],
              providers : Seq(Provider)]

\* What the fields are that the file leaves out; times in seconds.
Default == [source |-> "http", name |-> "blank",
            versions |-> <<"v4">>,
            interval |-> 60, timeout |-> 10, connect_timeout |-> 5,
            retries |-> 1, http_lookup_quorum |-> 2,
            urls |-> [v \in Version |-> <<"https", "https", "https">>],
            providers |-> <<>>]

-----------------------------------------------------------------------------
(* The checks of fields.                                                   *)

NonZeroDuration(duration) == duration # 0

NonEmptyString(text) == text # "blank"

IpVersions(versions) ==
    /\ \A i, j \in DOMAIN versions : versions[i] = versions[j] => i = j
    /\ versions # <<>>

contains(versions, v) == \E i \in DOMAIN versions : versions[i] = v

MAX_RETRIES == 10

RetryCount(retries) == retries <= MAX_RETRIES

HttpLookupQuorum(value) == value # 0

ensure_http_urls(urls) == \A i \in DOMAIN urls : urls[i] \in {"http", "https"}

\* The integer division makes this a strict majority.
http_lookup_majority(url_count) == (url_count \div 2) + 1

ensure_http_lookup_quorum(url_count, http_lookup_quorum) ==
    /\ http_lookup_quorum <= url_count
    /\ http_lookup_quorum >= http_lookup_majority(url_count)

-----------------------------------------------------------------------------
(* The checks of the whole.                                                *)

\* What serde refuses before try_from() is called.
Deserialize(raw) == raw.source = "interface" => NonEmptyString(raw.name)

\* Mutant: only the URLs for IPv4 are checked.
LookupsPossibleV4(raw, v) ==
    raw.source = "http" /\ v = "v4" /\ contains(raw.versions, v) =>
        /\ raw.urls[v] # <<>>
        /\ ensure_http_lookup_quorum(Len(raw.urls[v]), raw.http_lookup_quorum)

\* Mutant: the URLs are checked for every source.
LookupsPossibleAny(raw, v) ==
    contains(raw.versions, v) =>
        /\ raw.urls[v] # <<>>
        /\ ensure_http_lookup_quorum(Len(raw.urls[v]), raw.http_lookup_quorum)

LookupsPossible(raw, v) ==
    raw.source = "http" /\ contains(raw.versions, v) =>
        /\ raw.urls[v] # <<>>
        /\ ensure_http_lookup_quorum(Len(raw.urls[v]), raw.http_lookup_quorum)

try_from(raw) ==
    /\ NonZeroDuration(raw.interval)
    /\ NonZeroDuration(raw.timeout)
    /\ NonZeroDuration(raw.connect_timeout)
    /\ raw.connect_timeout <= raw.timeout
    /\ IpVersions(raw.versions)
    /\ RetryCount(raw.retries)
    /\ HttpLookupQuorum(raw.http_lookup_quorum)
    /\ \A v \in Version : ensure_http_urls(raw.urls[v])
    /\ \A v \in Version : LookupsPossible(raw, v)
    /\ raw.providers # <<>>

Cloudflare_validate_config(p) == p.domains # <<>>

Porkbun_validate_config(p) == p.domains # <<>>

DuckDns_validate_config(p) ==
    /\ p.token # "blank"
    /\ p.domains # <<>>
    /\ \A i \in DOMAIN p.domains : p.domains[i] \notin {"blank", "comma"}

validate_config(p) ==
    \/ p.type = "cloudflare" /\ Cloudflare_validate_config(p)
    \/ p.type = "porkbun" /\ Porkbun_validate_config(p)
    \/ p.type = "duckdns" /\ DuckDns_validate_config(p)
=============================================================================
