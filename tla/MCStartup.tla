----------------------------- MODULE MCStartup ------------------------------
(***************************************************************************)
(* Configurations for TLC.                                                 *)
(***************************************************************************)
EXTENDS Startup

Urls(n) == [i \in 1..n |-> "https"]

Cloudflare == [type |-> "cloudflare", token |-> "plain", domains |-> <<"plain">>]

Good == [Default EXCEPT !.providers = <<Cloudflare>>]

\* Every combination that the check of the quorum looks at.
Lookups ==
    {[Good EXCEPT !.versions = vs, !.http_lookup_quorum = q,
                  !.urls["v4"] = Urls(n), !.urls["v6"] = Urls(m)] :
        vs \in {<<"v4">>, <<"v6">>, <<"v6", "v4">>},
        q \in 0..5, n \in 0..4, m \in {0, 2, 3}}

\* Every field out of its bounds, one at a time.
Fields ==
    {[Good EXCEPT !.versions = vs] :
        vs \in {<<>>, <<"v4", "v4">>, <<"v6", "v4", "v6">>}}
    \cup {[Good EXCEPT !.interval = n] : n \in {0, 1}}
    \cup {[Good EXCEPT !.timeout = t, !.connect_timeout = c] :
            t \in 0..2, c \in 0..2}
    \cup {[Good EXCEPT !.retries = n] : n \in {0, 10, 11}}
    \cup {[Good EXCEPT !.source = "interface", !.name = text,
                       !.http_lookup_quorum = q, !.urls["v4"] = Urls(n)] :
            text \in Text, q \in 0..2, n \in {0, 3}}
    \cup {[Good EXCEPT !.urls[v] = <<"https", s, "https">>] :
            v \in Version, s \in {"http", "other"}}

Entry(n) == [type : {"cloudflare", "porkbun", "duckdns"}, token : Text,
             domains : [1..n -> Text]]

Providers ==
    {[Good EXCEPT !.providers = ps] :
        ps \in {<<>>} \cup {<<Cloudflare, p>> : p \in Entry(0) \cup Entry(2)}}

AnyFile == Lookups \cup Fields \cup Providers
=============================================================================
