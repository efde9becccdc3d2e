--------------------------- MODULE StartupProofs ----------------------------
(***************************************************************************)
(* Proofs about the checks of Config and about the run of the process in   *)
(* Startup, for every configuration file.                                  *)
(***************************************************************************)
EXTENDS Startup, FiniteSetTheorems, SequenceTheorems, TLAPS

-----------------------------------------------------------------------------
(* The checks of a configuration, one by one, against what they are for.   *)

\* What the order of the checks comes to.
Valid(raw) ==
    /\ Deserialize(raw)
    /\ try_from(raw)
    /\ \A i \in DOMAIN raw.providers : validate_config(raw.providers[i])

\* IpVersions: no version is listed twice.
LEMMA VersionsChecked ==
    ASSUME NEW raw \in RawConfig
    PROVE  IpVersions(raw.versions) <=>
               /\ Cardinality(Selected(raw)) = Len(raw.versions)
               /\ Selected(raw) # {}
<1> DEFINE s == raw.versions
           D == 1..Len(s)
           T == Selected(raw)
<1>1. s \in Seq(Version) /\ DOMAIN s = D /\ Len(s) \in Nat
  BY DEF RawConfig
<1>2. T = {s[i] : i \in D}
  BY <1>1 DEF Selected
<1>3. IsFiniteSet(D) /\ Cardinality(D) = Len(s)
  BY <1>1, FS_Interval
<1>4. s \in [D -> T]
  BY <1>1, <1>2
<1>5. s \in Surjection(D, T)
  BY <1>2, <1>4 DEF Surjection
<1>6. (Cardinality(T) = Len(s)) <=> s \in Injection(D, T)
  BY <1>3, <1>5, FS_Surjection
<1>7. s \in Injection(D, T) <=> \A i, j \in D : s[i] = s[j] => i = j
  BY <1>4 DEF Injection, IsInjective
<1>8. T # {} <=> s # <<>>
  <2>1. s # <<>> => 1 \in D
    BY <1>1
  <2>2. s = <<>> => D = {}
    BY <1>1
  <2> QED
    BY <1>2, <2>1, <2>2
<1> QED
  BY <1>1, <1>6, <1>7, <1>8 DEF IpVersions

LEMMA QuorumsAre ==
    ASSUME NEW raw \in RawConfig, NEW v \in Version
    PROVE  Quorums(raw, v) =
               {Q \in SUBSET (1..Len(raw.urls[v])) :
                    Cardinality(Q) = raw.http_lookup_quorum}
<1>1. raw.urls[v] \in Seq({"http", "https", "other"})
  BY DEF RawConfig
<1> QED
  BY <1>1 DEF Quorums

\* ensure_http_lookup_quorum(): quorums exist, and any two have a URL in
\* common.
LEMMA QuorumChecked ==
    ASSUME NEW raw \in RawConfig, NEW v \in Version, raw.http_lookup_quorum # 0
    PROVE  /\ raw.urls[v] # <<>>
           /\ ensure_http_lookup_quorum(Len(raw.urls[v]), raw.http_lookup_quorum)
           <=>
           /\ Quorums(raw, v) # {}
           /\ \A P, Q \in Quorums(raw, v) : P \cap Q # {}
<1> DEFINE n == Len(raw.urls[v])
           q == raw.http_lookup_quorum
<1>1. n \in Nat /\ q \in Nat \ {0} /\ (raw.urls[v] # <<>> <=> n # 0)
  <2>1. raw.urls[v] \in Seq({"http", "https", "other"})
    BY DEF RawConfig
  <2> QED
    BY <2>1, EmptySeq DEF RawConfig
<1>2. Quorums(raw, v) = {Q \in SUBSET (1..n) : Cardinality(Q) = q}
  BY QuorumsAre
<1> HIDE DEF n, q
<1>3. ensure_http_lookup_quorum(n, q) <=> q <= n /\ n < 2 * q
  BY <1>1 DEF ensure_http_lookup_quorum, http_lookup_majority
<1>4. /\ IsFiniteSet(1..n) /\ Cardinality(1..n) = n
      /\ \A Q \in SUBSET (1..n) : /\ IsFiniteSet(Q) /\ Cardinality(Q) \in Nat
                                  /\ Cardinality(Q) <= n
  <2>1. IsFiniteSet(1..n) /\ Cardinality(1..n) = n
    BY <1>1, FS_Interval
  <2> QED
    BY <2>1, FS_Subset, FS_CardinalityType
<1>5. ASSUME q <= n
      PROVE  1..q \in Quorums(raw, v)
  <2>1. 1..q \subseteq 1..n /\ Cardinality(1..q) = q
    BY <1>1, <1>5, FS_Interval
  <2> QED
    BY <1>2, <2>1
<1>6. ASSUME n < 2 * q, NEW P \in Quorums(raw, v), NEW Q \in Quorums(raw, v),
             P \cap Q = {}
      PROVE  FALSE
  <2>1. P \cup Q \in SUBSET (1..n) /\ Cardinality(P) = q /\ Cardinality(Q) = q
    BY <1>2
  <2>2. Cardinality(P \cup Q) = q + q - Cardinality(P \cap Q)
    BY <1>2, <1>4, <2>1, FS_Union
  <2>3. Cardinality(P \cap Q) = 0
    BY <1>6, FS_EmptySet
  <2>4. Cardinality(P \cup Q) <= n
    BY <1>4, <2>1
  <2> QED
    BY <1>1, <1>6, <2>2, <2>3, <2>4
<1>7. ASSUME q <= n, 2 * q <= n
      PROVE  \E P, Q \in Quorums(raw, v) : P \cap Q = {}
  <2> DEFINE Q == (q + 1)..(2 * q)
  <2>1. Q \subseteq 1..n /\ Cardinality(Q) = q
    BY <1>1, <1>7, FS_Interval
  <2>2. Q \in Quorums(raw, v) /\ (1..q) \cap Q = {}
    BY <1>1, <1>2, <2>1
  <2> HIDE DEF Q
  <2> QED
    BY <1>5, <1>7, <2>2
<1>8. Quorums(raw, v) # {} => q <= n
  BY <1>2, <1>4
<1>9. n # 0 /\ q <= n /\ n < 2 * q <=>
      /\ Quorums(raw, v) # {}
      /\ \A P, Q \in Quorums(raw, v) : P \cap Q # {}
  BY <1>1, <1>5, <1>6, <1>7, <1>8
<1> QED
  BY <1>1, <1>3, <1>9 DEF n, q

LEMMA LookupsChecked ==
    ASSUME NEW raw \in RawConfig, raw.http_lookup_quorum # 0
    PROVE  (\A v \in Version : LookupsPossible(raw, v)) <=>
               (raw.source = "http" => LookupsSound(raw))
<1>1. raw.versions \in Seq(Version)
  BY DEF RawConfig
<1>2. Selected(raw) \subseteq Version
      /\ \A v \in Version : contains(raw.versions, v) <=> v \in Selected(raw)
  BY <1>1 DEF Selected, contains
<1> QED
  BY <1>2, QuorumChecked DEF LookupsPossible, LookupsSound

\* validate_config() of the providers.
LEMMA ProvidersChecked ==
    ASSUME NEW raw \in RawConfig
    PROVE  /\ raw.providers # <<>>
           /\ \A i \in DOMAIN raw.providers : validate_config(raw.providers[i])
           <=> ProvidersSound(raw)
<1>1. raw.providers \in Seq(Provider)
  BY DEF RawConfig
<1>2. raw.providers # <<>> <=> Len(raw.providers) > 0
  BY <1>1, EmptySeq
<1>3. ASSUME NEW i \in DOMAIN raw.providers
      PROVE  LET p == raw.providers[i] IN
             validate_config(p) <=>
                 /\ Len(p.domains) > 0
                 /\ p.type = "duckdns" =>
                        /\ p.token # "blank"
                        /\ {p.domains[j] : j \in DOMAIN p.domains} = {"plain"}
  <2>1. PICK p \in Provider : p = raw.providers[i]
    BY <1>1
  <2>2. /\ p.domains \in Seq(Text)
        /\ p.type \in {"cloudflare", "porkbun", "duckdns"}
    BY DEF Provider
  <2>3. p.domains # <<>> <=> Len(p.domains) > 0
    BY <2>2, EmptySeq
  <2>4. Len(p.domains) > 0 =>
            ((\A j \in DOMAIN p.domains :
                  p.domains[j] \notin {"blank", "comma"})
             <=> {p.domains[j] : j \in DOMAIN p.domains} = {"plain"})
    <3>1. \A j \in DOMAIN p.domains : p.domains[j] \in Text
      BY <2>2
    <3>2. Len(p.domains) > 0 => 1 \in DOMAIN p.domains
      BY <2>2
    <3> QED
      BY <3>1, <3>2 DEF Text
  <2> QED
    BY <2>1, <2>2, <2>3, <2>4
       DEF validate_config, Cloudflare_validate_config,
           Porkbun_validate_config, DuckDns_validate_config
<1> QED
  BY <1>2, <1>3 DEF ProvidersSound

\* The checks of config.rs and of validate_config() let pass every
\* configuration that is sound, and no other.
THEOREM ValidIsSound ==
    ASSUME NEW raw \in RawConfig
    PROVE  Valid(raw) <=> Sound(raw)
<1>1. /\ raw.interval \in Nat /\ raw.timeout \in Nat
      /\ raw.connect_timeout \in Nat /\ raw.retries \in Nat
      /\ raw.http_lookup_quorum \in Nat
      /\ raw.source \in {"http", "interface"}
  BY DEF RawConfig
<1>2. (\A v \in Version : ensure_http_urls(raw.urls[v])) <=>
      \A v \in Version : \A i \in DOMAIN raw.urls[v] : raw.urls[v][i] # "other"
  <2>1. \A v \in Version : raw.urls[v] \in Seq({"http", "https", "other"})
    BY DEF RawConfig
  <2>2. \A v \in Version : \A i \in DOMAIN raw.urls[v] :
            raw.urls[v][i] \in {"http", "https", "other"}
    BY <2>1
  <2> QED
    BY <2>2 DEF ensure_http_urls
<1>3. /\ raw.interval > 0 <=> NonZeroDuration(raw.interval)
      /\ raw.connect_timeout \in 1..raw.timeout <=>
             /\ NonZeroDuration(raw.timeout)
             /\ NonZeroDuration(raw.connect_timeout)
             /\ raw.connect_timeout <= raw.timeout
      /\ raw.http_lookup_quorum > 0 <=> HttpLookupQuorum(raw.http_lookup_quorum)
      /\ HttpLookupQuorum(raw.http_lookup_quorum) <=>
             raw.http_lookup_quorum # 0
      /\ raw.retries <= 10 <=> RetryCount(raw.retries)
  BY <1>1
     DEF NonZeroDuration, HttpLookupQuorum, RetryCount, MAX_RETRIES
<1>4. Deserialize(raw) <=> (raw.source # "http" => raw.name # "blank")
  BY <1>1 DEF Deserialize, NonEmptyString
<1> QED
  BY <1>2, <1>3, <1>4, VersionsChecked, LookupsChecked, ProvidersChecked
     DEF Valid, Sound, WithinLimits, SourceSound, try_from

\* What IpLookup assumes of its constants (LookupAssumption, QuorumAssumption)
\* is true of every list of URLs that a checked configuration uses, and what
\* RecordSync assumes of the entries is true of its providers.
THEOREM ChecksMeetAssumptions ==
    ASSUME NEW raw \in RawConfig, Valid(raw)
    PROVE  /\ raw.source = "http" =>
                  \A v \in Selected(raw) :
                      LET Url == DOMAIN raw.urls[v] IN
                      /\ IsFiniteSet(Url)
                      /\ raw.http_lookup_quorum \in Nat \ {0}
                      /\ raw.retries \in Nat
                      /\ ensure_http_lookup_quorum(Cardinality(Url),
                                                   raw.http_lookup_quorum)
           /\ DOMAIN raw.providers # {}
           /\ \A i \in DOMAIN raw.providers :
                  raw.providers[i].domains \in Seq(Text) \ {<<>>}
<1>1. /\ raw.http_lookup_quorum \in Nat /\ raw.retries \in Nat
      /\ raw.versions \in Seq(Version) /\ raw.providers \in Seq(Provider)
      /\ raw.urls \in [Version -> Seq({"http", "https", "other"})]
  BY DEF RawConfig
<1>2. raw.http_lookup_quorum # 0
  BY DEF Valid, try_from, HttpLookupQuorum
<1>3. ASSUME raw.source = "http", NEW v \in Selected(raw)
      PROVE  LET Url == DOMAIN raw.urls[v] IN
             /\ IsFiniteSet(Url)
             /\ ensure_http_lookup_quorum(Cardinality(Url),
                                          raw.http_lookup_quorum)
  <2>1. v \in Version /\ contains(raw.versions, v)
    BY <1>1 DEF Selected, contains
  <2>2. raw.urls[v] \in Seq({"http", "https", "other"})
    BY <1>1, <2>1
  <2>3. /\ DOMAIN raw.urls[v] = 1..Len(raw.urls[v])
        /\ Len(raw.urls[v]) \in Nat
    BY <2>2
  <2>4. /\ IsFiniteSet(1..Len(raw.urls[v]))
        /\ Cardinality(1..Len(raw.urls[v])) = Len(raw.urls[v])
    BY <2>3, FS_Interval
  <2>5. ensure_http_lookup_quorum(Len(raw.urls[v]), raw.http_lookup_quorum)
    BY <1>3, <2>1 DEF Valid, try_from, LookupsPossible
  <2> QED
    BY <2>3, <2>4, <2>5
<1>4. DOMAIN raw.providers # {}
  <2>1. raw.providers # <<>>
    BY DEF Valid, try_from
  <2>2. 1 \in DOMAIN raw.providers
    BY <1>1, <2>1
  <2> QED
    BY <2>2
<1>5. ASSUME NEW i \in DOMAIN raw.providers
      PROVE  raw.providers[i].domains \in Seq(Text) \ {<<>>}
  <2>1. raw.providers[i] \in Provider /\ validate_config(raw.providers[i])
    BY <1>1 DEF Valid
  <2> QED
    BY <2>1
       DEF Provider, validate_config, Cloudflare_validate_config,
           Porkbun_validate_config, DuckDns_validate_config
<1> QED
  BY <1>1, <1>2, <1>3, <1>4, <1>5

-----------------------------------------------------------------------------
(* The run of the process.                                                 *)

\* Where main() is, what it knows of the configuration and of the task.
StartupInv ==
    /\ TypeOK
    /\ place \in {"parse", "validate", "select", "drain"} => config \in Files
    /\ place = "validate" => Deserialize(config) /\ try_from(config)
    /\ place \in {"args", "load", "parse", "validate"} => task = "none"
    /\ place \in {"select", "drain"} =>
           task \in {"sleeping", "select", "pass", "ended", "panicked"}
    /\ task # "none" => config \in Files /\ Valid(config)
    /\ place # "exited" => status = "none"
    /\ place = "drain" => received # {}
    /\ status = "invalid" => config \in Files /\ ~Valid(config)
    /\ SuccessMeansDrained

LEMMA StartupInit == Init => StartupInv
  BY DEF Init, StartupInv, TypeOK, Alive, SuccessMeansDrained, Signal

LEMMA MainStep == ASSUME StartupInv, Main  PROVE StartupInv'
<1>1. CASE Args
  BY <1>1
     DEF Args, Exit, Goto, StartupInv, TypeOK, Alive, SuccessMeansDrained
<1>2. CASE LoadErr
  BY <1>2 DEF LoadErr, Exit, StartupInv, TypeOK, Alive, SuccessMeansDrained
<1>3. CASE Load
  BY <1>3 DEF Load, Goto, StartupInv, TypeOK, Alive, SuccessMeansDrained
<1>4. CASE Refuse
  <2>1. config \in Files /\ ~Valid(config)
    BY <1>4 DEF Refuse, Invalid, Valid, StartupInv
  <2> QED
    BY <1>4, <2>1
       DEF Refuse, Invalid, Exit, StartupInv, TypeOK, Alive,
           SuccessMeansDrained
<1>5. CASE Parse
  BY <1>5
     DEF Parse, Invalid, Goto, StartupInv, TypeOK, Alive, SuccessMeansDrained
<1>6. CASE Run
  <2>1. config \in Files /\ Valid(config)
    BY <1>6 DEF Run, Invalid, Valid, StartupInv
  <2> QED
    BY <1>6, <2>1 DEF Run, Goto, StartupInv, TypeOK, Alive, SuccessMeansDrained
<1>7. CASE NewErr
  BY <1>7 DEF NewErr, Exit, StartupInv, TypeOK, Alive, SuccessMeansDrained
<1>8. ASSUME NEW s \in Signal, Listen(s) \/ ListenErr(s)
      PROVE  StartupInv'
  <2>1. CASE Listen(s)
    BY <2>1 DEF Listen, StartupInv, TypeOK, Alive, SuccessMeansDrained
  <2>2. CASE ListenErr(s)
    BY <2>2 DEF ListenErr, Exit, StartupInv, TypeOK, Alive, SuccessMeansDrained
  <2> QED
    BY <1>8, <2>1, <2>2
<1>9. CASE Signalled
  BY <1>9 DEF Signalled, StartupInv, TypeOK, Alive, SuccessMeansDrained
<1>10. CASE TaskEnded
  BY <1>10 DEF TaskEnded, Exit, StartupInv, TypeOK, Alive, SuccessMeansDrained
<1>11. CASE Drain
  BY <1>11 DEF Drain, Exit, StartupInv, TypeOK, Alive, SuccessMeansDrained
<1> QED
  BY <1>1, <1>2, <1>3, <1>4, <1>5, <1>6, <1>7, <1>8, <1>9, <1>10, <1>11
     DEF Main

LEMMA TaskStep == ASSUME StartupInv, Task \/ Panic  PROVE StartupInv'
<1>1. task \in {"sleeping", "select", "pass"} /\ place \in {"select", "drain"}
  BY DEF Task, Panic, StartupInv, TypeOK, Alive
<1>2. PICK t \in {"select", "pass", "ended", "panicked"} : Become(t)
  BY DEF Task, Panic
<1> QED
  BY <1>1, <1>2 DEF Become, StartupInv, TypeOK, Alive, SuccessMeansDrained

LEMMA WorldStep ==
    ASSUME StartupInv, Edit \/ Done \/ \E s \in Signal : Deliver(s)
    PROVE  StartupInv'
<1>1. CASE Edit
  BY <1>1 DEF Edit, StartupInv, TypeOK, Alive, SuccessMeansDrained
<1>2. CASE Done
  BY <1>2 DEF Done, vars, StartupInv, TypeOK, Alive, SuccessMeansDrained
<1>3. ASSUME NEW s \in Signal, Deliver(s)
      PROVE  StartupInv'
  <2>1. CASE s \in handled
    BY <1>3, <2>1 DEF Deliver, StartupInv, TypeOK, Alive, SuccessMeansDrained
  <2>2. CASE s \notin handled
    BY <1>3, <2>2
       DEF Deliver, Exit, StartupInv, TypeOK, Alive, SuccessMeansDrained
  <2> QED
    BY <2>1, <2>2
<1> QED
  BY <1>1, <1>2, <1>3

LEMMA StartupNext == StartupInv /\ [Next]_vars => StartupInv'
<1> SUFFICES ASSUME StartupInv, [Next]_vars
             PROVE  StartupInv'
  OBVIOUS
<1>1. CASE UNCHANGED vars
  BY <1>1 DEF vars, StartupInv, TypeOK, Alive, SuccessMeansDrained
<1> QED
  BY <1>1, MainStep, TaskStep, WorldStep DEF Next

THEOREM StartupInvariant == Spec => []StartupInv
  BY StartupInit, StartupNext, PTL DEF Spec

\* main() keeps its types, and no task outlives it.
THEOREM StartupTypeCorrect == Spec => []TypeOK
<1>1. StartupInv => TypeOK
  BY DEF StartupInv
<1> QED
  BY <1>1, StartupInvariant, PTL

\* Whatever the file holds, a client only runs where its lookups can succeed,
\* cannot accept two addresses from the same answers, and have something to
\* update: for any number of URLs, any quorum and any providers.
THEOREM SoundRuns == Spec => []OnlySoundRuns
<1>1. StartupInv => OnlySoundRuns
  BY ValidIsSound, StartupAssumption DEF StartupInv, OnlySoundRuns
<1> QED
  BY <1>1, StartupInvariant, PTL

\* And a configuration is turned away only for a field outside its own limits,
\* used or not, for a source without a majority or a name, or for a provider.
THEOREM RefusalsJust == Spec => []RefusedForCause
<1>1. StartupInv => RefusedForCause
  BY ValidIsSound, StartupAssumption DEF StartupInv, RefusedForCause, Sound
<1> QED
  BY <1>1, StartupInvariant, PTL

\* The process reports success only after a signal and after the task has
\* come to its own end, with no pass cut short.
THEOREM SuccessIsDrained == Spec => []SuccessMeansDrained
<1>1. StartupInv => SuccessMeansDrained
  BY DEF StartupInv
<1> QED
  BY <1>1, StartupInvariant, PTL
=============================================================================
