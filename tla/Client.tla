------------------------------- MODULE Client -------------------------------
(***************************************************************************)
(* The update loop of src/client.rs between the host's addresses, the      *)
(* cache file and the DNS records kept by the configured providers, with   *)
(* the start, the graceful shutdown and the death of the process           *)
(* (src/main.rs).                                                          *)
(*                                                                         *)
(* The components it calls appear here by what they promise: the cache is  *)
(* CacheStore, a lookup returns the address the host has at that moment or *)
(* an error, and a provider's update() writes its records one by one in    *)
(* any order, ends Ok only when all of them are written, and may end in an *)
(* error anywhere before that.                                             *)
(***************************************************************************)
EXTENDS IpUpdate, FiniteSets

CONSTANTS
    Corrupt,    \* a cache file that cache.get() rejects
    Provider,   \* the [[providers]] entries of a configuration
    Record,     \* every (provider, domain name) pair of the configurations
    Owner,      \* the provider that keeps a record
    Configs,    \* the configurations the program may be started with
    Faults      \* the kinds of failure that may happen

FaultKind == {"lookup", "provider", "cache", "crash"}

Config == [records: SUBSET Record, versions: SUBSET IpVersion,
           dry_run: BOOLEAN]

ASSUME ClientAssumption ==
    /\ Corrupt \notin IpUpdates \cup {None}
    /\ None \notin IpUpdates
    /\ Owner \in [Record -> Provider]
    /\ Configs \subseteq Config
    /\ Faults \subseteq FaultKind

VARIABLES
    pc,         \* where the client task is
    shutdown,   \* the CancellationToken
    config,     \* the configuration of the current or last process
    todo,       \* versions this pass has still to look up
    observed,   \* the IpUpdate this pass has observed
    update,     \* the part of it that is sent to the providers
    next_cache, \* what is stored when every provider has succeeded
    unsent,     \* [version -> records whose provider still has to write them]
    failed,     \* providers whose task ended in an error
    ip,         \* the host's public address, per version
    dns,        \* the address each record holds, per version
    file, disk, \* the cache (see CacheStore)
    drift       \* history: [version -> records the cache says nothing about]

pass == <<todo, observed, update, next_cache, unsent, failed>>
world == <<ip, dns, file, disk, drift>>
vars == <<pc, shutdown, config, pass, world>>

Store == INSTANCE CacheStore WITH Value <- IpUpdates

PC == {"stopped", "crashed", "sleeping", "select", "lookup", "read", "push",
       "save"}
Up == PC \ {"stopped", "crashed"}

Nowhere == [v \in IpVersion |-> {}]

-----------------------------------------------------------------------------
(* The process starts and ends.                                            *)

IdlePass == /\ todo = {}
            /\ observed = NoAddress
            /\ update = NoAddress
            /\ next_cache = NoAddress
            /\ unsent = Nowhere
            /\ failed = {}

\* The variables of a pass go out of scope.
EndPass == /\ todo' = {}
           /\ observed' = NoAddress
           /\ update' = NoAddress
           /\ next_cache' = NoAddress
           /\ unsent' = Nowhere
           /\ failed' = {}

Init == /\ pc = "stopped"
        /\ shutdown = FALSE
        /\ config \in Configs
        /\ IdlePass
        /\ ip \in [IpVersion -> Addr]
        /\ dns = [v \in IpVersion |-> [r \in Record |-> None]]
        /\ Store!Init
        /\ drift = [v \in IpVersion |-> Record]

\* main() reads the configuration and spawns the client task, which sleeps.
Start == /\ pc' = "sleeping"
         /\ shutdown' = FALSE
         /\ config' \in Configs
         /\ UNCHANGED <<pass, world>>

Launch == pc = "stopped" /\ Start       \* someone runs ddrs
Restart == pc = "crashed" /\ Start      \* Restart=on-failure, unless-stopped

\* SIGINT or SIGTERM reaches main(), which cancels the token.
Signal == /\ pc \in Up
          /\ ~shutdown
          /\ shutdown' = TRUE
          /\ UNCHANGED <<pc, config, pass, world>>

\* Records of other configurations were not part of this pass.
Unconfigured(v) == IF update[v] = None THEN {} ELSE Record \ config.records

\* cache.set() has renamed the new file into place, no more.
SetInterrupted ==
    /\ Store!SetUnsynced(next_cache)
    /\ drift' = [v \in IpVersion |-> drift[v] \cup Unconfigured(v)]

\* The task panics or the process is killed, perhaps in the middle of set().
Crash == /\ "crash" \in Faults
         /\ pc \in Up
         /\ pc' = "crashed"
         /\ shutdown' = FALSE
         /\ EndPass
         /\ \/ Store!SetAborted /\ UNCHANGED drift
            \/ pc = "save" /\ SetInterrupted
         /\ UNCHANGED <<config, ip, dns>>

\* The machine goes down, with whatever is running on it.
PowerFailure == /\ "crash" \in Faults
                /\ pc' = IF pc \in Up THEN "crashed" ELSE pc
                /\ shutdown' = FALSE
                /\ EndPass
                /\ Store!PowerFailure
                /\ UNCHANGED <<config, ip, dns, drift>>

-----------------------------------------------------------------------------
(* The loop.  select! is biased: cancellation is polled before the timer.  *)

WakeUp == /\ pc = "sleeping"
          /\ pc' = "select"
          /\ UNCHANGED <<shutdown, config, pass, world>>

Stop == /\ pc = "select"
        /\ shutdown
        /\ pc' = "stopped"
        /\ shutdown' = FALSE
        /\ UNCHANGED <<config, pass, world>>

\* Mutant: the select is not biased, and a pending tick may win for ever.
TickUnbiased == /\ pc = "select"
                /\ pc' = "lookup"
                /\ todo' = config.versions
                /\ UNCHANGED <<shutdown, config, observed, update, next_cache,
                               unsent, failed, world>>

\* Mutant: only IPv4 is looked up.
TickV4 == /\ pc = "select"
          /\ ~shutdown
          /\ pc' = "lookup"
          /\ todo' = {"v4"}
          /\ UNCHANGED <<shutdown, config, observed, update, next_cache,
                         unsent, failed, world>>

Tick == /\ pc = "select"
        /\ ~shutdown
        /\ pc' = "lookup"
        /\ todo' = config.versions
        /\ UNCHANGED <<shutdown, config, observed, update, next_cache, unsent,
                       failed, world>>

\* self.config.versions.iter() yields V4 before V6.
NextVersion == IF "v4" \in todo THEN "v4" ELSE "v6"

LookupOk == /\ pc = "lookup"
            /\ todo # {}
            /\ observed' = [observed EXCEPT ![NextVersion] = ip[NextVersion]]
            /\ todo' = todo \ {NextVersion}
            /\ UNCHANGED <<pc, shutdown, config, update, next_cache, unsent,
                           failed, world>>

LookupErr == /\ "lookup" \in Faults
             /\ pc = "lookup"
             /\ todo # {}
             /\ todo' = todo \ {NextVersion}
             /\ UNCHANGED <<pc, shutdown, config, observed, update, next_cache,
                            unsent, failed, world>>

\* "Failed to fetch IP address, skipping update..."
SkipUnobserved == /\ pc = "lookup"
                  /\ todo = {}
                  /\ is_empty(observed)
                  /\ pc' = "select"
                  /\ EndPass
                  /\ UNCHANGED <<shutdown, config, world>>

Observed == /\ pc = "lookup"
            /\ todo = {}
            /\ ~is_empty(observed)
            /\ pc' = "read"
            /\ UNCHANGED <<shutdown, config, pass, world>>

\* What cache.get() may yield: a failed read counts as no cache.
GetResult == {Store!Readable} \cup (IF "cache" \in Faults THEN {None} ELSE {})

\* "No IP address cache change detected, skipping update..."
SkipUnchanged(cached) ==
    /\ is_empty(changed_since(observed, cached))
    /\ pc' = "select"
    /\ EndPass

\* "Dry run mode enabled, skipping update..."
SkipDryRun(cached) ==
    /\ ~is_empty(changed_since(observed, cached))
    /\ config.dry_run
    /\ pc' = "select"
    /\ EndPass

\* update_providers() spawns one task per provider.
Push(cached) ==
    LET changed == changed_since(observed, cached) IN
    /\ ~is_empty(changed)
    /\ ~config.dry_run
    /\ pc' = "push"
    /\ update' = changed
    /\ next_cache' = merge_into_cache(observed, cached)
    /\ unsent' = [v \in IpVersion |->
                    IF changed[v] # None THEN config.records ELSE {}]
    /\ failed' = {}
    /\ UNCHANGED <<todo, observed>>

\* From the read of the cache to the spawns nothing is awaited.
ReadCache == /\ pc = "read"
             /\ \E cached \in GetResult :
                    SkipUnchanged(cached) \/ SkipDryRun(cached) \/ Push(cached)
             /\ UNCHANGED <<shutdown, config, world>>

-----------------------------------------------------------------------------
(* The provider tasks run concurrently.                                    *)

Running(p) == /\ pc = "push"
              /\ p \notin failed
              /\ \E v \in IpVersion : \E r \in unsent[v] : Owner[r] = p

\* A provider that was asked to change record r for v has changed it.
Written(v, r) == /\ dns' = [dns EXCEPT ![v][r] = update[v]]
                 /\ drift' = [drift EXCEPT ![v] = @ \cup {r}]

WriteRecord(v, r) ==
    /\ pc = "push"
    /\ r \in unsent[v]
    /\ Owner[r] \notin failed
    /\ Written(v, r)
    /\ unsent' = [unsent EXCEPT ![v] = @ \ {r}]
    /\ UNCHANGED <<pc, shutdown, config, todo, observed, update, next_cache,
                   failed, ip, file, disk>>

\* A request had no effect; update() returns the error, or panics.
ProviderErr(p) ==
    /\ "provider" \in Faults
    /\ Running(p)
    /\ failed' = failed \cup {p}
    /\ UNCHANGED <<pc, shutdown, config, todo, observed, update, next_cache,
                   unsent, world>>

\* A request took effect but its answer was lost, late or not understood.
ProviderLostAnswer(v, r) ==
    /\ "provider" \in Faults
    /\ pc = "push"
    /\ r \in unsent[v]
    /\ Owner[r] \notin failed
    /\ Written(v, r)
    /\ failed' = failed \cup {Owner[r]}
    /\ UNCHANGED <<pc, shutdown, config, todo, observed, update, next_cache,
                   unsent, ip, file, disk>>

ProviderStep(p) ==
    \/ \E v \in IpVersion, r \in Record :
           Owner[r] = p /\ (WriteRecord(v, r) \/ ProviderLostAnswer(v, r))
    \/ ProviderErr(p)

\* Mutant: one provider that succeeded is enough.
JoinAny == /\ pc = "push"
           /\ \A p \in Provider : ~Running(p)
           /\ \/ /\ failed # Provider
                 /\ pc' = "save"
                 /\ UNCHANGED pass
              \/ /\ failed = Provider
                 /\ pc' = "select"
                 /\ EndPass
           /\ UNCHANGED <<shutdown, config, world>>

\* join_next() has returned every result.
JoinAll == /\ pc = "push"
           /\ \A p \in Provider : ~Running(p)
           /\ \/ /\ failed = {}
                 /\ pc' = "save"
                 /\ UNCHANGED pass
              \/ /\ failed # {}
                 /\ pc' = "select"
                 /\ EndPass
           /\ UNCHANGED <<shutdown, config, world>>

-----------------------------------------------------------------------------
(* cache.set(next_cache); an error is only logged.                         *)

SaveOk == /\ pc = "save"
          /\ Store!SetDurably(next_cache)
          /\ drift' = [v \in IpVersion |->
                         IF update[v] = None THEN drift[v] ELSE Unconfigured(v)]
          /\ pc' = "select"
          /\ EndPass
          /\ UNCHANGED <<shutdown, config, ip, dns>>

SaveErr == /\ "cache" \in Faults
           /\ pc = "save"
           /\ \/ Store!SetAborted /\ UNCHANGED drift
              \/ SetInterrupted
           /\ pc' = "select"
           /\ EndPass
           /\ UNCHANGED <<shutdown, config, ip, dns>>

-----------------------------------------------------------------------------
(* The environment.                                                        *)

ChangeIp == /\ \E v \in IpVersion, a \in Addr : ip' = [ip EXCEPT ![v] = a]
            /\ UNCHANGED <<pc, shutdown, config, pass, dns, file, disk, drift>>

DamageFile == /\ "cache" \in Faults
              /\ Store!Damage
              /\ UNCHANGED <<pc, shutdown, config, pass, ip, dns, drift>>

Loop == \/ WakeUp \/ Stop \/ Tick
        \/ LookupOk \/ LookupErr \/ SkipUnobserved \/ Observed
        \/ ReadCache \/ JoinAll \/ SaveOk \/ SaveErr

Next == \/ Launch \/ Restart \/ Signal \/ Crash \/ PowerFailure
        \/ Loop
        \/ \E p \in Provider : ProviderStep(p)
        \/ ChangeIp \/ DamageFile

\* Timers fire, every request ends by its timeout, and a supervisor restarts
\* a process that died.
Fairness == /\ WF_vars(Loop)
            /\ \A p \in Provider : WF_vars(ProviderStep(p))
            /\ WF_vars(Restart)

Spec == Init /\ [][Next]_vars
FairSpec == Spec /\ Fairness

-----------------------------------------------------------------------------
(* Properties.                                                             *)

\* The type invariant: what every variable of the loop may hold.
TypeOK == /\ pc \in PC
          /\ shutdown \in BOOLEAN
          /\ config \in Configs
          /\ todo \in SUBSET IpVersion
          /\ observed \in IpUpdates
          /\ update \in IpUpdates
          /\ next_cache \in IpUpdates
          /\ unsent \in [IpVersion -> SUBSET Record]
          /\ failed \in SUBSET Provider
          /\ ip \in [IpVersion -> Addr]
          /\ dns \in [IpVersion -> [Record -> OptionAddr]]
          /\ Store!TypeOK
          /\ drift \in [IpVersion -> SUBSET Record]

\* An address found in the cache is one that every record of the
\* configuration that stored it was given, unless a later pass has begun to
\* write the record: no failed provider, aborted or unsynced save, crash,
\* damaged file or forgotten version makes the cache claim an update that
\* was not made (update_providers() before cache.set(), client.rs:161-166).
CacheIsEvidence ==
    \A v \in IpVersion : \A r \in Record \ drift[v] :
        Held(Store!Readable, v) # None => dns[v][r] = Held(Store!Readable, v)

\* What a crash could bring back instead of the present file is evidence too
\* (the fsyncs of cache.set(), cache.rs:145-148).
DiskIsEvidence ==
    \A v \in IpVersion : \A r \in Record \ drift[v] : \A c \in disk :
        (c # Corrupt /\ Held(c, v) # None) => dns[v][r] = Held(c, v)

\* Saving an update for one IP version never drops the other one from the
\* cache (CHANGELOG.md:34, merge_into_cache()); it holds when the cache can be
\* read and written.
NoVersionForgotten ==
    [][pc = "save" /\ pc' = "select"
        => \A v \in IpVersion : Held(Store!Readable, v) # None
                                    => Held(Store!Readable', v) # None]_vars

\* When a pass is skipped because the cache did not change, the addresses it
\* observed are in every configured record (client.rs:144-147).
SkipMeansPublished ==
    [][pc = "read" /\ pc' = "select" /\ ~config.dry_run
        => \A v \in IpVersion : \A r \in config.records :
               observed[v] # None => dns[v][r] = observed[v]]_vars

\* A requested shutdown ends the client, whatever the pass it interrupts
\* was doing (client.rs:79-83, main.rs:84-85).
ShutdownCompletes == shutdown ~> pc \in {"stopped", "crashed"}

\* Something other than an undisturbed loop: a failure, a user or a new address.
Disturbance ==
    \/ Launch \/ Signal \/ Crash \/ PowerFailure \/ LookupErr \/ SaveErr
    \/ \E p \in Provider : ProviderErr(p)
    \/ \E v \in IpVersion, r \in Record : ProviderLostAnswer(v, r)
    \/ ChangeIp \/ DamageFile

Recorded == \A v \in config.versions : Held(Store!Readable, v) = ip[v]

Published == \A v \in config.versions : \A r \in config.records :
                 dns[v][r] = ip[v]

\* Once nothing disturbs it any more, a client that keeps running brings the
\* cache to the present addresses, from whatever state failures left it in.
CacheFollowsAddress ==
    \/ []<><<Disturbance>>_vars
    \/ <>[](pc = "stopped" \/ config.dry_run \/ Recorded)

\* The same of the DNS records: what the program is for.  It holds where no
\* provider, cache write or process fails, and the configuration stays.
RecordsFollowAddress ==
    \/ []<><<Disturbance>>_vars
    \/ <>[](pc = "stopped" \/ config.dry_run \/ Published)
=============================================================================
