---------------------------- MODULE ClientProofs ----------------------------
(***************************************************************************)
(* Proofs about the update loop of Client, for every set of addresses,     *)
(* records, providers and configurations and for every kind of fault.      *)
(***************************************************************************)
EXTENDS Client, TLAPS

Cached == IpUpdates \cup {None}

LEMMA HeldType ==
    ASSUME NEW cached \in Cached, NEW v \in IpVersion
    PROVE  Held(cached, v) \in OptionAddr
  BY ClientAssumption DEF Held, Cached, IpUpdates, OptionAddr

LEMMA ChangedType ==
    ASSUME NEW obs \in IpUpdates, NEW cached \in Cached
    PROVE  changed_since(obs, cached) \in IpUpdates
  BY DEF changed_since, IpUpdates, OptionAddr

LEMMA MergeType ==
    ASSUME NEW obs \in IpUpdates, NEW cached \in Cached
    PROVE  merge_into_cache(obs, cached) \in IpUpdates
  BY HeldType DEF merge_into_cache, IpUpdates, OptionAddr

\* A version that is sent is stored as it is sent; a version that is not sent
\* is stored as it was cached.
LEMMA MergeChanged ==
    ASSUME NEW obs \in IpUpdates, NEW cached \in Cached, NEW v \in IpVersion
    PROVE  merge_into_cache(obs, cached)[v] =
               IF changed_since(obs, cached)[v] # None
               THEN changed_since(obs, cached)[v]
               ELSE Held(cached, v)
  BY HeldType DEF merge_into_cache, changed_since

LEMMA GetResultType ==
    ASSUME TypeOK, NEW cached \in GetResult
    PROVE  cached \in Cached
  BY DEF TypeOK, GetResult, Store!Readable, Store!TypeOK, Store!Content, Cached

LEMMA NoAddressType == NoAddress \in IpUpdates
  BY DEF NoAddress, IpUpdates, OptionAddr

-----------------------------------------------------------------------------

LEMMA TypeInit == Init => TypeOK
<1> SUFFICES ASSUME Init
             PROVE  TypeOK
  OBVIOUS
<1>1. dns \in [IpVersion -> [Record -> OptionAddr]]
  BY DEF Init, OptionAddr
<1>2. unsent \in [IpVersion -> SUBSET Record]
  BY DEF Init, IdlePass, Nowhere
<1>3. drift \in [IpVersion -> SUBSET Record]
  BY DEF Init
<1>4. Store!TypeOK
  BY DEF Init, Store!Init, Store!TypeOK, Store!Content
<1> QED
  BY <1>1, <1>2, <1>3, <1>4, NoAddressType DEF Init, TypeOK, PC, IdlePass

LEMMA TypeNext == TypeOK /\ [Next]_vars => TypeOK'
<1> SUFFICES ASSUME TypeOK, [Next]_vars
             PROVE  TypeOK'
  OBVIOUS
<1> USE NoAddressType, ClientAssumption DEF PC, Up, pass, world
<1>1. CASE Launch \/ Restart
  BY <1>1 DEF Launch, Restart, Start, TypeOK, Store!TypeOK
<1>2. CASE Signal
  BY <1>2 DEF Signal, TypeOK, Store!TypeOK
<1>3. CASE Crash \/ PowerFailure
  <2>1. /\ shutdown' \in BOOLEAN /\ pc' \in PC
        /\ EndPass /\ UNCHANGED <<config, ip, dns>>
    BY <1>3 DEF Crash, PowerFailure, TypeOK
  <2>2. Store!TypeOK' /\ drift' \in [IpVersion -> SUBSET Record]
    <3>1. CASE UNCHANGED <<file, disk, drift>>
      BY <3>1 DEF TypeOK, Store!TypeOK
    <3>2. CASE SetInterrupted
      BY <3>2 DEF SetInterrupted, Unconfigured, Store!SetUnsynced, TypeOK,
                  Store!TypeOK, Store!Content
    <3>3. CASE Store!PowerFailure /\ UNCHANGED drift
      BY <3>3 DEF Store!PowerFailure, TypeOK, Store!TypeOK
    <3> QED
      BY <1>3, <3>1, <3>2, <3>3
         DEF Crash, PowerFailure, Store!SetAborted, Store!vars
  <2> QED
    BY <2>1, <2>2 DEF EndPass, Nowhere, TypeOK
<1>4. CASE WakeUp \/ Stop
  BY <1>4 DEF WakeUp, Stop, TypeOK, Store!TypeOK
<1>5. CASE Tick
  BY <1>5 DEF Tick, TypeOK, Store!TypeOK, Config
<1>6. CASE LookupOk
  BY <1>6 DEF LookupOk, NextVersion, TypeOK, Store!TypeOK, IpUpdates,
              OptionAddr, IpVersion
<1>7. CASE LookupErr
  BY <1>7 DEF LookupErr, TypeOK, Store!TypeOK
<1>8. CASE SkipUnobserved \/ Observed
  BY <1>8 DEF SkipUnobserved, Observed, EndPass, Nowhere, TypeOK, Store!TypeOK
<1>9. CASE ReadCache
  <2>1. PICK cached \in GetResult :
             SkipUnchanged(cached) \/ SkipDryRun(cached) \/ Push(cached)
    BY <1>9 DEF ReadCache
  <2>2. cached \in Cached
    BY <2>1, GetResultType
  <2>3. CASE SkipUnchanged(cached) \/ SkipDryRun(cached)
    BY <1>9, <2>3 DEF ReadCache, SkipUnchanged, SkipDryRun, EndPass, Nowhere,
                      TypeOK, Store!TypeOK
  <2>4. CASE Push(cached)
    <3>1. observed \in IpUpdates
      BY DEF TypeOK
    <3>2. update' \in IpUpdates /\ next_cache' \in IpUpdates
      BY <2>2, <2>4, <3>1, ChangedType, MergeType DEF Push
    <3>3. unsent' \in [IpVersion -> SUBSET Record]
      BY <2>4 DEF Push, TypeOK, Config
    <3> QED
      BY <1>9, <2>4, <3>2, <3>3 DEF ReadCache, Push, TypeOK, Store!TypeOK
  <2> QED
    BY <2>1, <2>3, <2>4
<1>10. ASSUME NEW v \in IpVersion, NEW r \in Record,
              WriteRecord(v, r) \/ ProviderLostAnswer(v, r)
       PROVE  TypeOK'
  <2>1. update[v] \in OptionAddr /\ Owner[r] \in Provider
    BY DEF TypeOK, IpUpdates
  <2> DEFINE row == [dns[v] EXCEPT ![r] = update[v]]
             gone == drift[v] \cup {r}
  <2>2. Written(v, r)
    BY <1>10 DEF WriteRecord, ProviderLostAnswer
  <2>3. row \in [Record -> OptionAddr] /\ gone \in SUBSET Record
    BY <2>1 DEF TypeOK
  <2>4. dns' \in [IpVersion -> [Record -> OptionAddr]]
    <3>1. dns' = [dns EXCEPT ![v] = row]
      BY <2>2 DEF Written, TypeOK
    <3> HIDE DEF row
    <3> QED
      BY <2>3, <3>1 DEF TypeOK
  <2>5. drift' \in [IpVersion -> SUBSET Record]
    <3>1. drift' = [drift EXCEPT ![v] = gone]
      BY <2>2 DEF Written, TypeOK
    <3> HIDE DEF gone
    <3> QED
      BY <2>3, <3>1 DEF TypeOK
  <2>6. unsent' \in [IpVersion -> SUBSET Record]
    BY <1>10 DEF WriteRecord, ProviderLostAnswer, TypeOK
  <2> QED
    BY <1>10, <2>1, <2>4, <2>5, <2>6
       DEF WriteRecord, ProviderLostAnswer, TypeOK, Store!TypeOK
<1>11. ASSUME NEW p \in Provider, ProviderErr(p)
       PROVE  TypeOK'
  BY <1>11 DEF ProviderErr, TypeOK, Store!TypeOK
<1>12. CASE JoinAll
  BY <1>12 DEF JoinAll, EndPass, Nowhere, TypeOK, Store!TypeOK
<1>13. CASE SaveOk
  <2>1. pc' \in PC /\ EndPass /\ UNCHANGED <<shutdown, config, ip, dns>>
    BY <1>13 DEF SaveOk
  <2>2. Store!TypeOK' /\ drift' \in [IpVersion -> SUBSET Record]
    BY <1>13 DEF SaveOk, Unconfigured, Store!SetDurably, TypeOK, Store!TypeOK,
                 Store!Content
  <2> QED
    BY <2>1, <2>2 DEF EndPass, Nowhere, TypeOK
<1>14. CASE SaveErr
  <2>1. pc' \in PC /\ EndPass /\ UNCHANGED <<shutdown, config, ip, dns>>
    BY <1>14 DEF SaveErr
  <2>2. Store!TypeOK' /\ drift' \in [IpVersion -> SUBSET Record]
    <3>1. CASE Store!SetAborted /\ UNCHANGED drift
      BY <3>1 DEF Store!SetAborted, Store!vars, TypeOK, Store!TypeOK
    <3>2. CASE SetInterrupted
      BY <3>2 DEF SetInterrupted, Unconfigured, Store!SetUnsynced, TypeOK,
                  Store!TypeOK, Store!Content
    <3> QED
      BY <1>14, <3>1, <3>2 DEF SaveErr
  <2> QED
    BY <2>1, <2>2 DEF EndPass, Nowhere, TypeOK
<1>15. CASE ChangeIp
  BY <1>15 DEF ChangeIp, TypeOK, Store!TypeOK
<1>16. CASE DamageFile
  BY <1>16 DEF DamageFile, Store!Damage, TypeOK, Store!TypeOK, Store!Content
<1>17. CASE UNCHANGED vars
  BY <1>17 DEF vars, TypeOK, Store!TypeOK
<1> QED
  BY <1>1, <1>2, <1>3, <1>4, <1>5, <1>6, <1>7, <1>8, <1>9, <1>10, <1>11, <1>12,
     <1>13, <1>14, <1>15, <1>16, <1>17
     DEF Next, Loop, ProviderStep

\* Every variable of the loop keeps its type, under any faults.
THEOREM TypeCorrect == Spec => []TypeOK
  BY TypeInit, TypeNext, PTL DEF Spec

-----------------------------------------------------------------------------
(* The cache is evidence of what the records hold.                         *)

\* Contents c of the cache file agree with the records outside drift.
Evident(c) ==
    c \in IpUpdates =>
        \A v \in IpVersion : \A r \in Record \ drift[v] :
            c[v] # None => dns[v][r] = c[v]

\* What is stored after the push is what is sent, and elsewhere what was
\* cached; a record that is not waiting for its provider has been written.
PushIsEvidence ==
    pc \in {"push", "save"} =>
        \A v \in IpVersion :
            /\ update[v] # None =>
                  /\ next_cache[v] = update[v]
                  /\ \A r \in config.records \ unsent[v] :
                         dns[v][r] = update[v]
            /\ update[v] = None =>
                  \A r \in Record \ drift[v] :
                      next_cache[v] # None => dns[v][r] = next_cache[v]

\* Only asked records wait, and none does when the update is saved.
SaveIsComplete ==
    /\ pc \in {"push", "save"} =>
          \A v \in IpVersion : update[v] = None => unsent[v] = {}
    /\ pc = "save" => \A v \in IpVersion : unsent[v] = {}

IInv == /\ TypeOK
        /\ \A c \in disk : Evident(c)
        /\ PushIsEvidence
        /\ SaveIsComplete

LEMMA EvidenceInit == Init => IInv
<1> SUFFICES ASSUME Init
             PROVE  IInv
  OBVIOUS
<1>1. disk = {None} /\ pc = "stopped"
  BY DEF Init, Store!Init
<1> QED
  BY <1>1, TypeInit, ClientAssumption
     DEF IInv, Evident, PushIsEvidence, SaveIsComplete

\* The records outside drift keep agreeing with c when nothing is written,
\* or when what is written joins drift.
LEMMA EvidenceKept ==
    ASSUME NEW c, Evident(c), UNCHANGED <<dns, drift>>
    PROVE  Evident(c)'
  BY DEF Evident

\* The steps that neither write a record nor touch the cache file.
QuietStep == UNCHANGED <<dns, disk, drift>>

\* A quiet step that is not in a push, or stays in one, keeps the evidence.
LEMMA QuietNext ==
    ASSUME IInv, TypeOK', QuietStep,
           \/ pc' \notin {"push", "save"}
           \/ UNCHANGED <<pc, config, update, next_cache, unsent>>
    PROVE  IInv'
<1>1. \A c \in disk' : Evident(c)'
  BY EvidenceKept DEF QuietStep, IInv
<1>2. PushIsEvidence' /\ SaveIsComplete'
  <2>1. CASE pc' \notin {"push", "save"}
    BY <2>1 DEF PushIsEvidence, SaveIsComplete
  <2>2. CASE UNCHANGED <<pc, config, update, next_cache, unsent>>
    BY <2>2 DEF QuietStep, IInv, PushIsEvidence, SaveIsComplete
  <2> QED
    BY <2>1, <2>2
<1> QED
  BY <1>1, <1>2 DEF IInv

\* The push begins: nothing is written yet, and what is not sent is evident.
LEMMA PushNext ==
    ASSUME IInv, TypeOK', NEW cached \in GetResult, Push(cached),
           pc = "read", UNCHANGED <<shutdown, config, world>>
    PROVE  IInv'
<1>1. cached \in Cached /\ observed \in IpUpdates
  BY GetResultType DEF IInv, TypeOK
<1>2. \A c \in disk' : Evident(c)'
  BY EvidenceKept DEF IInv, world
<1>3. \A v \in IpVersion : next_cache'[v] = IF update'[v] # None
                                           THEN update'[v]
                                           ELSE Held(cached, v)
  BY <1>1, MergeChanged DEF Push
<1>4. \A v \in IpVersion : unsent'[v] = IF update'[v] # None
                                       THEN config.records
                                       ELSE {}
  BY DEF Push
<1>5. ASSUME NEW v \in IpVersion, NEW r \in Record \ drift[v],
             Held(cached, v) # None
      PROVE  dns[v][r] = Held(cached, v)
  <2>1. cached \in disk /\ cached \in IpUpdates
    BY <1>1, <1>5 DEF GetResult, Store!Readable, IInv, TypeOK, Store!TypeOK,
                      Held, Cached
  <2>2. cached # None
    BY <2>1, ClientAssumption
  <2> QED
    BY <1>5, <2>1, <2>2 DEF Held, IInv, Evident
<1>6. PushIsEvidence'
  BY <1>3, <1>4, <1>5 DEF PushIsEvidence, world
<1>7. SaveIsComplete'
  BY <1>4 DEF SaveIsComplete, Push
<1> QED
  BY <1>2, <1>6, <1>7 DEF IInv

\* A provider writes record r: it is no longer waiting, and joins drift.
LEMMA WriteNext ==
    ASSUME IInv, TypeOK', NEW v \in IpVersion, NEW r \in Record,
           WriteRecord(v, r) \/ ProviderLostAnswer(v, r)
    PROVE  IInv'
<1>1. /\ pc = "push" /\ pc' = "push" /\ r \in unsent[v]
      /\ Written(v, r)
      /\ UNCHANGED <<config, update, next_cache, disk>>
  BY DEF WriteRecord, ProviderLostAnswer
<1>2. \A w \in IpVersion : \A q \in Record :
          dns'[w][q] = IF w = v /\ q = r THEN update[v] ELSE dns[w][q]
  BY <1>1 DEF Written, IInv, TypeOK
<1>3. \A w \in IpVersion :
          drift'[w] = IF w = v THEN drift[w] \cup {r} ELSE drift[w]
  BY <1>1 DEF Written, IInv, TypeOK
<1>4. \A w \in IpVersion : unsent'[w] \in {unsent[w], unsent[w] \ {r}}
  BY DEF WriteRecord, ProviderLostAnswer, IInv, TypeOK
<1>5. \A w \in IpVersion : w # v => unsent'[w] = unsent[w]
  BY DEF WriteRecord, ProviderLostAnswer, IInv, TypeOK
<1>6. update[v] # None
  BY <1>1 DEF IInv, SaveIsComplete
<1>7. \A c \in disk' : Evident(c)'
  <2> SUFFICES ASSUME NEW c \in disk, c \in IpUpdates, NEW w \in IpVersion,
                      NEW q \in Record \ drift'[w], c[w] # None
               PROVE  dns'[w][q] = c[w]
    BY <1>1 DEF Evident
  <2>1. q \in Record \ drift[w] /\ ~(w = v /\ q = r)
    BY <1>3
  <2>2. dns[w][q] = c[w]
    BY <2>1 DEF IInv, Evident
  <2> QED
    BY <1>2, <2>1, <2>2
<1>8. PushIsEvidence'
  <2> SUFFICES ASSUME NEW w \in IpVersion
               PROVE  /\ update[w] # None =>
                            /\ next_cache[w] = update[w]
                            /\ \A q \in config.records \ unsent'[w] :
                                   dns'[w][q] = update[w]
                      /\ update[w] = None =>
                            \A q \in Record \ drift'[w] :
                                next_cache[w] # None =>
                                    dns'[w][q] = next_cache[w]
    BY <1>1 DEF PushIsEvidence
  <2>1. config.records \subseteq Record
    BY ClientAssumption DEF IInv, TypeOK, Config
  <2>2. CASE update[w] # None
    BY <1>1, <1>2, <1>4, <1>5, <2>1, <2>2 DEF IInv, PushIsEvidence
  <2>3. CASE update[w] = None
    BY <1>1, <1>2, <1>3, <1>6, <2>3 DEF IInv, PushIsEvidence
  <2> QED
    BY <2>2, <2>3
<1>9. SaveIsComplete'
  BY <1>1, <1>4 DEF IInv, SaveIsComplete
<1> QED
  BY <1>7, <1>8, <1>9 DEF IInv

\* Every provider has ended Ok: no record waits any more.
LEMMA JoinNext ==
    ASSUME IInv, TypeOK', JoinAll
    PROVE  IInv'
<1>1. CASE pc' # "save"
  BY <1>1, QuietNext DEF JoinAll, QuietStep, world
<1>2. CASE pc' = "save"
  <2>1. /\ pc = "push" /\ failed = {} /\ \A p \in Provider : ~Running(p)
        /\ UNCHANGED <<config, pass, world>>
    BY <1>2 DEF JoinAll
  <2>2. \A v \in IpVersion : unsent[v] = {}
    <3> SUFFICES ASSUME NEW v \in IpVersion, NEW r \in unsent[v]
                 PROVE  FALSE
      OBVIOUS
    <3>1. r \in Record
      BY DEF IInv, TypeOK
    <3>2. Owner[r] \in Provider
      BY <3>1, ClientAssumption
    <3>3. Running(Owner[r])
      BY <2>1 DEF Running
    <3> QED
      BY <2>1, <3>2, <3>3
  <2>3. \A c \in disk' : Evident(c)'
    BY <2>1, EvidenceKept DEF world, IInv
  <2>4. PushIsEvidence'
    BY <2>1 DEF IInv, PushIsEvidence, pass, world
  <2>5. SaveIsComplete'
    BY <2>1, <2>2 DEF IInv, SaveIsComplete, pass
  <2> QED
    BY <2>3, <2>4, <2>5 DEF IInv
<1> QED
  BY <1>1, <1>2

\* The save: what is stored is what the configured records were given.
LEMMA SaveNext ==
    ASSUME IInv, TypeOK', pc = "save", pc' \notin {"push", "save"},
           dns' = dns,
           \/ SaveOk
           \/ Store!SetAborted /\ UNCHANGED drift
           \/ SetInterrupted
    PROVE  IInv'
<1>1. CASE Store!SetAborted /\ UNCHANGED drift
  BY <1>1, QuietNext DEF QuietStep, Store!SetAborted, Store!vars
<1>2. CASE SaveOk \/ SetInterrupted
  <2> SUFFICES ASSUME NEW c \in disk', c \in IpUpdates, NEW v \in IpVersion,
                      NEW r \in Record \ drift'[v], c[v] # None
               PROVE  dns[v][r] = c[v]
    BY DEF Evident, IInv, PushIsEvidence, SaveIsComplete
  <2>1. /\ disk' \subseteq disk \cup {next_cache}
        /\ SaveOk => disk' = {next_cache}
    BY <1>2 DEF SaveOk, SetInterrupted, Store!SetDurably, Store!SetUnsynced
  <2>2. /\ update[v] # None => Record \ drift'[v] \subseteq config.records
        /\ update[v] = None => drift[v] \subseteq drift'[v]
        /\ ~SaveOk => drift[v] \subseteq drift'[v]
    BY <1>2 DEF SaveOk, SetInterrupted, Unconfigured
  <2>3. CASE c = next_cache /\ update[v] # None
    BY <2>2, <2>3 DEF IInv, PushIsEvidence, SaveIsComplete
  <2>4. CASE c = next_cache /\ update[v] = None
    BY <2>2, <2>4 DEF IInv, PushIsEvidence
  <2>5. CASE c \in disk /\ ~SaveOk
    BY <2>2, <2>5 DEF IInv, Evident
  <2> QED
    BY <2>1, <2>3, <2>4, <2>5
<1> QED
  BY <1>1, <1>2

LEMMA EvidenceNext == IInv /\ [Next]_vars => IInv'
<1> SUFFICES ASSUME IInv, [Next]_vars
             PROVE  IInv'
  OBVIOUS
<1>1. TypeOK'
  BY TypeNext DEF IInv
<1> USE <1>1 DEF QuietStep, pass, world
<1>2. CASE Launch \/ Restart \/ Signal \/ WakeUp \/ Stop \/ Tick
  BY <1>2, QuietNext
     DEF Launch, Restart, Start, Signal, WakeUp, Stop, Tick
<1>3. CASE LookupOk \/ LookupErr \/ SkipUnobserved \/ Observed
  BY <1>3, QuietNext DEF LookupOk, LookupErr, SkipUnobserved, Observed
<1>4. CASE Crash
  <2>1. CASE Store!SetAborted /\ UNCHANGED drift
    BY <1>4, <2>1, QuietNext DEF Crash, Store!SetAborted, Store!vars
  <2>2. CASE pc = "save" /\ SetInterrupted
    BY <1>4, <2>2, SaveNext DEF Crash
  <2> QED
    BY <1>4, <2>1, <2>2 DEF Crash
<1>5. CASE PowerFailure
  <2>1. /\ dns' = dns /\ drift' = drift /\ disk' \subseteq disk
        /\ pc' \notin {"push", "save"}
    BY <1>5 DEF PowerFailure, Store!PowerFailure, Up, PC, IInv, TypeOK
  <2> QED
    BY <2>1, EvidenceKept DEF IInv, PushIsEvidence, SaveIsComplete
<1>6. CASE ReadCache
  <2>1. PICK cached \in GetResult :
             SkipUnchanged(cached) \/ SkipDryRun(cached) \/ Push(cached)
    BY <1>6 DEF ReadCache
  <2>2. CASE SkipUnchanged(cached) \/ SkipDryRun(cached)
    BY <1>6, <2>2, QuietNext DEF ReadCache, SkipUnchanged, SkipDryRun
  <2>3. CASE Push(cached)
    BY <1>6, <2>3, PushNext DEF ReadCache
  <2> QED
    BY <2>1, <2>2, <2>3
<1>7. ASSUME NEW v \in IpVersion, NEW r \in Record,
             WriteRecord(v, r) \/ ProviderLostAnswer(v, r)
      PROVE  IInv'
  BY <1>7, WriteNext
<1>8. ASSUME NEW p \in Provider, ProviderErr(p)
      PROVE  IInv'
  BY <1>8, QuietNext DEF ProviderErr
<1>9. CASE JoinAll
  BY <1>9, JoinNext
<1>10. CASE SaveOk \/ SaveErr
  BY <1>10, SaveNext DEF SaveOk, SaveErr
<1>11. CASE ChangeIp
  BY <1>11, QuietNext DEF ChangeIp
<1>12. CASE DamageFile
  <2>1. /\ disk' = {Corrupt}
        /\ UNCHANGED <<dns, drift, pc, config, update, next_cache, unsent>>
    BY <1>12 DEF DamageFile, Store!Damage
  <2> QED
    BY <2>1, ClientAssumption
       DEF IInv, Evident, PushIsEvidence, SaveIsComplete
<1>13. CASE UNCHANGED vars
  BY <1>13, QuietNext DEF vars
<1> QED
  BY <1>2, <1>3, <1>4, <1>5, <1>6, <1>7, <1>8, <1>9, <1>10, <1>11, <1>12,
     <1>13
     DEF Next, Loop, ProviderStep

LEMMA EvidenceAlways == Spec => []IInv
  BY EvidenceInit, EvidenceNext, PTL DEF Spec

\* Whatever fails, an address found in the cache is one that every record of
\* the configuration that stored it was given and that no later pass has
\* begun to change.
THEOREM CacheCorrect == Spec => []CacheIsEvidence
<1>1. IInv => CacheIsEvidence
  BY ClientAssumption
     DEF IInv, TypeOK, Store!TypeOK, Store!Content, Store!Readable, Evident,
         CacheIsEvidence, Held
<1> QED
  BY <1>1, EvidenceAlways, PTL

\* The same of every content that a crash may leave in the cache file.
THEOREM DiskCorrect == Spec => []DiskIsEvidence
<1>1. IInv => DiskIsEvidence
  BY ClientAssumption
     DEF IInv, TypeOK, Store!TypeOK, Store!Content, Evident, DiskIsEvidence,
         Held
<1> QED
  BY <1>1, EvidenceAlways, PTL

-----------------------------------------------------------------------------
(* With a cache that can be read and written, no IP version is forgotten.  *)

\* What is going to be stored knows every version that the file knows.
KInv == /\ TypeOK
        /\ pc \in {"push", "save"} =>
               \A v \in IpVersion : Held(Store!Readable, v) # None
                                        => next_cache[v] # None

LEMMA KnownNext ==
    ASSUME "cache" \notin Faults, KInv, [Next]_vars
    PROVE  KInv'
<1>1. TypeOK'
  BY TypeNext DEF KInv
<1>2. CASE pc' \notin {"push", "save"}
  BY <1>1, <1>2 DEF KInv
<1>3. CASE pc \in {"push", "save"} /\ UNCHANGED <<file, next_cache>>
  BY <1>1, <1>3 DEF KInv, Store!Readable
<1>4. CASE ReadCache
  <2>1. PICK cached \in GetResult :
             SkipUnchanged(cached) \/ SkipDryRun(cached) \/ Push(cached)
    BY <1>4 DEF ReadCache
  <2>2. CASE Push(cached)
    <3>1. cached = Store!Readable /\ cached \in Cached /\ observed \in IpUpdates
      BY GetResultType DEF GetResult, KInv, TypeOK
    <3>2. \A v \in IpVersion : Held(cached, v) # None => next_cache'[v] # None
      BY <2>2, <3>1, MergeChanged DEF Push
    <3> QED
      BY <1>1, <1>4, <3>1, <3>2 DEF ReadCache, KInv, world, Store!Readable
  <2>3. CASE SkipUnchanged(cached) \/ SkipDryRun(cached)
    BY <1>2, <2>3 DEF SkipUnchanged, SkipDryRun
  <2> QED
    BY <2>1, <2>2, <2>3
<1>5. CASE PowerFailure
  BY <1>2, <1>5 DEF PowerFailure, Up, PC, KInv, TypeOK
<1> QED
  BY <1>2, <1>3, <1>4, <1>5
     DEF KInv, Next, Loop, ProviderStep, Launch, Restart, Start, Signal, Crash,
         WakeUp, Stop, Tick, LookupOk, LookupErr, SkipUnobserved, Observed,
         WriteRecord, ProviderLostAnswer, ProviderErr, JoinAll, SaveOk, SaveErr,
         ChangeIp, DamageFile, vars, pass, world

LEMMA KnownSaved ==
    ASSUME "cache" \notin Faults, KInv, SaveOk,
           NEW v \in IpVersion, Held(Store!Readable, v) # None
    PROVE  Held(Store!Readable', v) # None
<1>1. file' = next_cache /\ next_cache \in IpUpdates /\ next_cache[v] # None
  BY DEF SaveOk, Store!SetDurably, KInv, TypeOK
<1>2. Store!Readable' = next_cache /\ next_cache # None
  BY <1>1, ClientAssumption DEF Store!Readable
<1> QED
  BY <1>1, <1>2 DEF Held

\* An update for one IP version never makes the cache forget the other one,
\* where cache files can be read and written.
THEOREM VersionsKept == "cache" \notin Faults => (Spec => NoVersionForgotten)
<1> SUFFICES ASSUME "cache" \notin Faults
             PROVE  Spec => NoVersionForgotten
  OBVIOUS
<1>1. Init => KInv
  BY TypeInit DEF Init, Store!Init, KInv
<1>2. KInv /\ [Next]_vars => KInv'
  BY KnownNext
<1>3. KInv /\ [Next]_vars
        => [pc = "save" /\ pc' = "select"
             => \A v \in IpVersion : Held(Store!Readable, v) # None
                                         => Held(Store!Readable', v) # None]_vars
  <2> SUFFICES ASSUME KInv, Next, pc = "save", pc' = "select"
               PROVE  \A v \in IpVersion : Held(Store!Readable, v) # None
                                      => Held(Store!Readable', v) # None
    OBVIOUS
  <2>1. SaveOk
    BY DEF Next, Loop, ProviderStep, Launch, Restart, Start, Signal, Crash,
           PowerFailure, Up, WakeUp, Stop, Tick, LookupOk, LookupErr,
           SkipUnobserved, Observed, ReadCache, WriteRecord,
           ProviderLostAnswer, ProviderErr, JoinAll, SaveErr, ChangeIp,
           DamageFile
  <2> QED
    BY <2>1, KnownSaved
<1> QED
  BY <1>1, <1>2, <1>3, PTL DEF Spec, NoVersionForgotten

-----------------------------------------------------------------------------
(* Without failures, and with one configuration, a skip is never wrong.    *)

\* The cache file is intact, and it is evidence about every configured record
\* unless a push is under way; that push has no failed provider.
PInv == /\ IInv
        /\ disk = {file}
        /\ file # Corrupt
        /\ failed = {}
        /\ pc # "crashed"
        /\ pc \notin {"push", "save"} =>
               \A v \in IpVersion : Held(file, v) # None
                                        => drift[v] \cap config.records = {}
        /\ pc \in {"push", "save"} =>
               \A v \in IpVersion : update[v] = None /\ next_cache[v] # None
                                        => drift[v] \cap config.records = {}

NoFailures == /\ Faults \subseteq {"lookup"}
              /\ \A c, d \in Configs : c = d

LEMMA PublishedNext ==
    ASSUME NoFailures, PInv, [Next]_vars
    PROVE  PInv'
<1>1. IInv'
  BY EvidenceNext DEF PInv
<1>2. config' = config
  BY <1>1 DEF PInv, NoFailures, IInv, TypeOK
<1>3. CASE /\ UNCHANGED <<file, disk, failed, drift>>
           /\ pc' # "crashed"
           /\ \/ pc \notin {"push", "save"} /\ pc' \notin {"push", "save"}
              \/ /\ pc \in {"push", "save"} /\ pc' \in {"push", "save"}
                 /\ UNCHANGED <<update, next_cache>>
  BY <1>1, <1>2, <1>3 DEF PInv
<1>4. CASE ReadCache
  <2>1. PICK cached \in GetResult :
             SkipUnchanged(cached) \/ SkipDryRun(cached) \/ Push(cached)
    BY <1>4 DEF ReadCache
  <2>2. CASE Push(cached)
    <3>1. cached = file /\ cached \in Cached /\ observed \in IpUpdates
      BY GetResultType DEF GetResult, PInv, IInv, TypeOK, NoFailures,
                           Store!Readable
    <3>2. \A v \in IpVersion : update'[v] = None
                                   => next_cache'[v] = Held(file, v)
      BY <2>2, <3>1, MergeChanged DEF Push
    <3> QED
      BY <1>1, <1>2, <1>4, <2>2, <3>2 DEF ReadCache, Push, PInv, world
  <2>3. CASE SkipUnchanged(cached) \/ SkipDryRun(cached)
    BY <1>1, <1>2, <1>4, <2>3
       DEF ReadCache, SkipUnchanged, SkipDryRun, EndPass, PInv, world
  <2> QED
    BY <2>1, <2>2, <2>3
<1>5. ASSUME NEW v \in IpVersion, NEW r \in Record, WriteRecord(v, r)
      PROVE  PInv'
  <2>1. update[v] # None
    BY <1>5 DEF WriteRecord, PInv, IInv, SaveIsComplete
  <2>2. \A w \in IpVersion : w # v => drift'[w] = drift[w]
    BY <1>5 DEF WriteRecord, Written, PInv, IInv, TypeOK
  <2> QED
    BY <1>1, <1>2, <1>5, <2>1, <2>2 DEF WriteRecord, PInv
<1>6. CASE SaveOk
  <2>1. /\ pc = "save" /\ pc' = "select" /\ failed' = {}
        /\ file' = next_cache /\ disk' = {file'} /\ next_cache \in IpUpdates
    BY <1>6 DEF SaveOk, Store!SetDurably, EndPass, PInv, IInv, TypeOK
  <2>2. \A v \in IpVersion : drift'[v] = IF update[v] = None
                                         THEN drift[v]
                                         ELSE Record \ config.records
    BY <1>6 DEF SaveOk, Unconfigured
  <2>3. file' # Corrupt /\ \A v \in IpVersion : Held(file', v) = next_cache[v]
    BY <2>1, ClientAssumption DEF Held
  <2> QED
    BY <1>1, <1>2, <2>1, <2>2, <2>3 DEF PInv
<1>7. CASE JoinAll
  BY <1>1, <1>2, <1>7 DEF JoinAll, PInv, pass, world
<1> QED
  BY <1>3, <1>4, <1>5, <1>6, <1>7
     DEF NoFailures, PInv, Next, Loop, ProviderStep, Launch, Restart, Start,
         Signal, Crash, PowerFailure, WakeUp, Stop, Tick, LookupOk, LookupErr,
         SkipUnobserved, Observed, ProviderLostAnswer, ProviderErr, SaveErr,
         ChangeIp, DamageFile, EndPass, vars, pass, world

LEMMA SkipPublished ==
    ASSUME NoFailures, PInv, ReadCache, pc' = "select", ~config.dry_run,
           NEW v \in IpVersion, NEW r \in config.records, observed[v] # None
    PROVE  dns[v][r] = observed[v]
<1>1. PICK cached \in GetResult : SkipUnchanged(cached)
  BY DEF ReadCache, SkipDryRun, Push
<1>2. cached = file
  BY <1>1 DEF GetResult, NoFailures, PInv, Store!Readable
<1>3. observed[v] = Held(file, v)
  BY <1>1, <1>2 DEF SkipUnchanged, is_empty, changed_since, NoAddress
<1>4. r \in Record \ drift[v] /\ file \in IpUpdates
  BY <1>3, ClientAssumption
     DEF PInv, ReadCache, IInv, TypeOK, Config, Store!TypeOK, Store!Content, Held
<1> QED
  BY <1>3, <1>4 DEF PInv, IInv, Evident, Held

\* A pass that is skipped as unchanged leaves nothing unpublished, as long as
\* no provider, save or process ever fails and the configuration is not edited.
THEOREM SkipsCorrect == NoFailures => (Spec => SkipMeansPublished)
<1> SUFFICES ASSUME NoFailures
             PROVE  Spec => SkipMeansPublished
  OBVIOUS
<1>1. Init => PInv
  <2> SUFFICES ASSUME Init
               PROVE  PInv
    OBVIOUS
  <2>1. file = None /\ disk = {None} /\ failed = {} /\ pc = "stopped"
    BY DEF Init, Store!Init, IdlePass
  <2> QED
    BY <2>1, EvidenceInit, ClientAssumption DEF PInv, Held
<1>2. PInv /\ [Next]_vars => PInv'
  BY PublishedNext
<1>3. PInv /\ [Next]_vars
        => [pc = "read" /\ pc' = "select" /\ ~config.dry_run
             => \A v \in IpVersion : \A r \in config.records :
                    observed[v] # None => dns[v][r] = observed[v]]_vars
  <2> SUFFICES ASSUME PInv, Next, pc = "read", pc' = "select",
                      ~config.dry_run
               PROVE  \A v \in IpVersion : \A r \in config.records :
                          observed[v] # None => dns[v][r] = observed[v]
    OBVIOUS
  <2>1. ReadCache
    BY DEF Next, Loop, ProviderStep, Launch, Restart, Start, Signal, Crash,
           PowerFailure, Up, WakeUp, Stop, Tick, LookupOk, LookupErr, SkipUnobserved, Observed,
           WriteRecord, ProviderLostAnswer, ProviderErr, JoinAll, SaveOk,
           SaveErr, ChangeIp, DamageFile
  <2> QED
    BY <2>1, SkipPublished
<1> QED
  BY <1>1, <1>2, <1>3, PTL DEF Spec, SkipMeansPublished
=============================================================================
