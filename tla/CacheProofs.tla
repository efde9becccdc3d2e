----------------------------- MODULE CacheProofs -----------------------------
(***************************************************************************)
(* Proofs about the file cache of Cache, for every set of values and every *)
(* length of them.                                                         *)
(***************************************************************************)
EXTENDS Cache, TLAPS

\* The file of a finished set(x), with durable of its bytes synced.
Complete(x, durable) == Prefix(x, FileSize(Len(x)), durable)

\* What the steps of set() have made of the temporary file.
TmpInv ==
    /\ pc \in {"idle", "create", "sync_dir"} => tmp = None
    /\ pc = "write" => tmp = Prefix(item, tmp.size, 0)
    /\ pc = "sync" => tmp = Complete(item, 0)
    /\ pc = "rename" => tmp = Complete(item, FileSize(Len(item)))
    /\ pc \in {"sync", "rename", "sync_dir"} => Len(item) <= MAX_DATA_SIZE

\* The argument of set() and what the caller may expect to find.
CallInv ==
    /\ pc = "idle" => item = None
    /\ pc # "idle" => item \in Value \cap promised
    /\ pc # "idle" => read = None
    /\ pc = "sync_dir" => entry = Complete(item, FileSize(Len(item)))

\* The cache path names only whole files, and no other value than promised.
EntryInv ==
    /\ entry \in synced
    /\ \A c \in synced : /\ c # None => c.durable = c.size
                         /\ Reading(c) \in Value => Reading(c) \in promised
                         /\ Reading(c) = None => c = None

CInv == TypeOK /\ TmpInv /\ CallInv /\ EntryInv /\ GetIsAuthentic

-----------------------------------------------------------------------------
(* The format.                                                             *)

LEMMA Sizes == HEADER_SIZE = 16 /\ CHECKSUM_SIZE = 4 /\ MAX_DATA_SIZE \in Nat
  BY DEF HEADER_SIZE, CHECKSUM_SIZE, MAX_DATA_SIZE

LEMMA FileSizeType ==
    ASSUME NEW n \in Nat
    PROVE  FileSize(n) \in Nat /\ FileSize(n) > HEADER_SIZE
  BY DEF FileSize, HEADER_SIZE, CHECKSUM_SIZE

LEMMA PrefixType ==
    ASSUME NEW x \in Value, NEW n \in Nat, NEW d \in Nat
    PROVE  /\ Prefix(x, n, d) \in Content
           /\ Prefix(x, n, d).value = x
           /\ Prefix(x, n, d).size = n
           /\ Prefix(x, n, d).durable = d
           /\ Prefix(x, n, d).declared = Len(x)
           /\ Prefix(x, n, d).valid = Fields
  BY CacheAssumption DEF Prefix, Content

\* get() accepts what a whole set() has written.
LEMMA CompleteIsAccepted ==
    ASSUME NEW x \in Value, Len(x) <= MAX_DATA_SIZE, NEW d \in Nat
    PROVE  Reading(Complete(x, d)) = x
<1> DEFINE c == Complete(x, d)
<1>1. /\ Len(x) \in Nat
      /\ FileSize(Len(x)) \in Nat /\ FileSize(Len(x)) > HEADER_SIZE
  BY CacheAssumption, FileSizeType
<1>2. /\ c \in Content
      /\ c.value = x
      /\ c.size = FileSize(Len(x))
      /\ c.declared = Len(x)
      /\ c.valid = Fields
  BY <1>1, PrefixType DEF Complete
<1>3. c # None
  BY <1>2, FileAssumption
<1>4. Accepted(c)
  BY <1>1, <1>2, Sizes DEF Accepted, Fields
<1> QED
  BY <1>2, <1>3, <1>4 DEF Reading

\* No damage goes unnoticed.
LEMMA DamageIsDetected ==
    ASSUME NEW c \in Content, Accepted(c), c.durable = c.size,
           NEW e \in Damaged(c)
    PROVE  e \in Content /\ e.durable = e.size /\ ~Accepted(e)
<1>1. c.size \in Nat /\ c.size >= 16 /\ c.size = FileSize(c.declared)
  <2>1. c.size \in Nat /\ c.declared \in Nat
    BY DEF Content
  <2> QED
    BY <2>1, FileSizeType, Sizes DEF Accepted
<1>2. ASSUME NEW f \in Fields, e = [c EXCEPT !.valid = @ \ {f}]
      PROVE  e \in Content /\ e.durable = e.size /\ ~Accepted(e)
  <2>1. /\ e \in Content
        /\ e.durable = c.durable /\ e.size = c.size
        /\ f \notin e.valid
    <3> DEFINE rest == c.valid \ {f}
    <3>1. rest \in SUBSET Fields /\ f \notin rest
      BY DEF Content
    <3>2. e = [c EXCEPT !.valid = rest]
      BY <1>2
    <3> HIDE DEF rest
    <3> QED
      BY <3>1, <3>2 DEF Content
  <2> QED
    BY <2>1 DEF Accepted, Fields
<1>3. ASSUME NEW n \in {c.size - 1, c.size + 1},
             e = [c EXCEPT !.size = n, !.durable = n]
      PROVE  e \in Content /\ e.durable = e.size /\ ~Accepted(e)
  <2>1. n \in Nat /\ n # c.size
    BY <1>1, <1>3
  <2>2. /\ e \in Content
        /\ e.durable = n /\ e.size = n
        /\ e.declared = c.declared
    BY <1>3, <2>1 DEF Content
  <2> QED
    BY <1>1, <2>1, <2>2 DEF Accepted
<1>4. CASE e = [c EXCEPT !.declared = MAX_DATA_SIZE + 1,
                         !.valid = @ \ {"header_crc"}]
  <2>1. /\ e \in Content
        /\ e.durable = c.durable /\ e.size = c.size
        /\ e.declared = MAX_DATA_SIZE + 1
    <3> DEFINE rest == c.valid \ {"header_crc"}
               beyond == MAX_DATA_SIZE + 1
    <3>1. rest \in SUBSET Fields /\ beyond \in Nat
      BY Sizes DEF Content
    <3>2. e = [c EXCEPT !.declared = beyond, !.valid = rest]
      BY <1>4
    <3> HIDE DEF rest, beyond
    <3>3. e \in Content /\ e.durable = c.durable /\ e.size = c.size
          /\ e.declared = beyond
      BY <3>1, <3>2 DEF Content
    <3> QED
      BY <3>3 DEF beyond
  <2> QED
    BY <2>1, Sizes DEF Accepted
<1> QED
  BY <1>2, <1>3, <1>4 DEF Damaged

\* Of a file that is synced a power failure leaves everything.
LEMMA SyncedRemains ==
    ASSUME NEW c, c # None => c \in Content /\ c.durable = c.size
    PROVE  Remains(c) = {c}
<1>1. CASE c = None
  BY <1>1 DEF Remains
<1>2. CASE c # None
  <2>1. c.durable..c.size = {c.size} /\ ~(c.durable < c.size)
    BY <1>2 DEF Content
  <2>2. [c EXCEPT !.size = c.size, !.durable = c.size] = c
    BY <1>2 DEF Content
  <2> QED
    BY <1>2, <2>1, <2>2 DEF Remains
<1> QED
  BY <1>1, <1>2

LEMMA FailureLeaves ==
    ASSUME TypeOK, EntryInv
    PROVE  AfterFailure = synced \cup (IF dir = "unsynced" THEN {None} ELSE {})
<1>1. \A c \in synced : Remains(c) = {c}
  BY SyncedRemains DEF TypeOK, EntryInv
<1> QED
  BY <1>1 DEF AfterFailure

-----------------------------------------------------------------------------
(* The invariant.                                                          *)

LEMMA CacheInit == Init => CInv
  BY CacheAssumption
     DEF Init, CInv, TypeOK, TmpInv, CallInv, EntryInv, GetIsAuthentic, Reading

LEMMA CallSetStep == ASSUME CInv, NEW x \in Value, CallSet(x)  PROVE CInv'
  BY CacheAssumption
     DEF CallSet, CInv, TypeOK, TmpInv, CallInv, EntryInv, GetIsAuthentic,
         Reading

LEMMA CreateStep == ASSUME CInv, Create  PROVE CInv'
<1>1. item \in Value /\ Prefix(item, 0, 0) \in Content
      /\ Prefix(item, 0, 0).durable = 0 /\ Prefix(item, 0, 0).size = 0
  BY PrefixType DEF Create, CInv, CallInv
<1> QED
  BY <1>1
     DEF Create, CInv, TypeOK, TmpInv, CallInv, EntryInv, GetIsAuthentic,
         Reading, DirState

LEMMA WriteStep == ASSUME CInv, Write  PROVE CInv'
<1>1. item \in Value /\ Len(item) \in Nat /\ Len(item) <= MAX_DATA_SIZE
  BY CacheAssumption DEF Write, CInv, CallInv
<1>2. PICK n \in Boundaries :
          /\ n > tmp.size
          /\ tmp' = [tmp EXCEPT !.size = n]
          /\ pc' = IF n = FileSize(Len(item)) THEN "sync" ELSE "write"
  BY DEF Write
<1>3. n \in Nat
  BY <1>1, <1>2, FileSizeType, Sizes DEF Boundaries
<1>4. tmp' = Prefix(item, n, 0)
  BY <1>2 DEF Write, CInv, TmpInv, Prefix
<1>5. tmp' \in Content /\ tmp'.durable <= tmp'.size /\ tmp'.size = n
  BY <1>1, <1>3, <1>4, PrefixType
<1>6. UNCHANGED <<item, entry, synced, dir, read, promised>> /\ pc = "write"
  BY DEF Write
<1>7. TypeOK'
  BY <1>2, <1>5, <1>6 DEF CInv, TypeOK
<1>8. TmpInv'
  BY <1>1, <1>2, <1>3, <1>4, <1>5, <1>6 DEF TmpInv, Complete
<1> QED
  BY <1>2, <1>6, <1>7, <1>8 DEF CInv, CallInv, EntryInv, GetIsAuthentic, Reading

LEMMA SyncFileStep == ASSUME CInv, SyncFile  PROVE CInv'
<1>1. /\ item \in Value /\ Len(item) \in Nat
      /\ FileSize(Len(item)) \in Nat
      /\ tmp = Complete(item, 0)
  BY CacheAssumption, FileSizeType DEF SyncFile, CInv, CallInv, TmpInv
<1>2. tmp' = Complete(item, FileSize(Len(item)))
  BY <1>1 DEF SyncFile, Complete, Prefix
<1>3. tmp' \in Content /\ tmp'.durable = tmp'.size
  BY <1>1, <1>2, PrefixType DEF Complete
<1>4. /\ pc = "sync" /\ pc' = "rename"
      /\ UNCHANGED <<item, entry, synced, dir, read, promised>>
  BY DEF SyncFile
<1>5. TypeOK'
  BY <1>3, <1>4 DEF CInv, TypeOK, Content
<1>6. TmpInv'
  BY <1>2, <1>4 DEF CInv, TmpInv
<1>7. CallInv' /\ EntryInv' /\ GetIsAuthentic'
  BY <1>4 DEF CInv, CallInv, EntryInv, GetIsAuthentic, Reading
<1> QED
  BY <1>5, <1>6, <1>7 DEF CInv

LEMMA RenameStep == ASSUME CInv, Rename  PROVE CInv'
<1>1. /\ item \in Value \cap promised /\ Len(item) \in Nat
      /\ FileSize(Len(item)) \in Nat
      /\ tmp = Complete(item, FileSize(Len(item)))
      /\ Len(item) <= MAX_DATA_SIZE
  BY CacheAssumption, FileSizeType DEF Rename, CInv, CallInv, TmpInv
<1>2. Reading(tmp) = item
  BY <1>1, CompleteIsAccepted
<1>3. tmp \in Content /\ tmp.durable = tmp.size
  BY <1>1, PrefixType DEF Complete
<1>4. item # None /\ tmp # None
  BY <1>1, <1>3, CacheAssumption, FileAssumption
<1>5. /\ pc = "rename" /\ pc' = "sync_dir"
      /\ entry' = tmp /\ synced' = synced \cup {tmp} /\ tmp' = None
      /\ UNCHANGED <<item, dir, read, promised>>
  BY DEF Rename
<1>6. TypeOK'
  BY <1>3, <1>5 DEF CInv, TypeOK, Content
<1>7. TmpInv' /\ CallInv'
  BY <1>1, <1>5 DEF CInv, TmpInv, CallInv
<1>8. EntryInv'
  BY <1>1, <1>2, <1>3, <1>4, <1>5 DEF CInv, EntryInv
<1> QED
  BY <1>5, <1>6, <1>7, <1>8 DEF CInv, GetIsAuthentic

LEMMA SyncDirStep == ASSUME CInv, SyncDir  PROVE CInv'
<1>1. /\ item \in Value \cap promised /\ Len(item) \in Nat
      /\ FileSize(Len(item)) \in Nat
      /\ entry = Complete(item, FileSize(Len(item)))
      /\ Len(item) <= MAX_DATA_SIZE
      /\ read = None
  BY CacheAssumption, FileSizeType DEF SyncDir, CInv, CallInv, TmpInv
<1>2. Reading(entry) = item
  BY <1>1, CompleteIsAccepted
<1> QED
  BY <1>1, <1>2, CacheAssumption
     DEF SyncDir, CInv, TypeOK, TmpInv, CallInv, EntryInv, GetIsAuthentic

\* set() ends, with an error or with the process, and the files stay.
LEMMA GivenUpStep == ASSUME CInv, SetErr \/ Die  PROVE CInv'
  BY DEF SetErr, Die, CInv, TypeOK, TmpInv, CallInv, EntryInv, GetIsAuthentic

LEMMA ReadingType ==
    ASSUME NEW c, c # None => c \in Content
    PROVE  Reading(c) \in Value \cup {None, Corrupt}
  BY DEF Reading, Content

LEMMA GetStep == ASSUME CInv, Get  PROVE CInv'
<1>1. entry # None => entry \in Content
  BY DEF CInv, TypeOK
<1>2. read' \in Value \cup {None, Corrupt}
  BY <1>1, ReadingType DEF Get
<1>3. read' \in Value => read' \in promised
  BY CacheAssumption DEF Get, CInv, EntryInv
<1> QED
  BY <1>2, <1>3 DEF Get, CInv, TypeOK, TmpInv, CallInv, EntryInv, GetIsAuthentic

LEMMA PowerFailureStep == ASSUME CInv, PowerFailure  PROVE CInv'
<1>1. entry' \in synced \cup {None}
  BY FailureLeaves DEF PowerFailure, CInv
<1>2. TypeOK'
  BY <1>1 DEF PowerFailure, CInv, TypeOK, DirState
<1>3. EntryInv'
  BY <1>1, CacheAssumption DEF PowerFailure, CInv, EntryInv, Reading
<1> QED
  BY <1>2, <1>3, CacheAssumption
     DEF PowerFailure, CInv, TmpInv, CallInv, GetIsAuthentic

LEMMA DamageStep == ASSUME CInv, Damage  PROVE CInv'
<1>1. entry \in Content /\ entry.durable = entry.size
  BY DEF Damage, CInv, TypeOK, EntryInv
<1>2. /\ entry' \in Content
      /\ entry'.durable = entry'.size
      /\ ~Accepted(entry')
  BY <1>1, DamageIsDetected DEF Damage
<1>3. entry'.durable <= entry'.size
  BY <1>2 DEF Content
<1>4. Reading(entry') = Corrupt
  BY <1>2, FileAssumption DEF Reading
<1>5. TypeOK'
  BY <1>2, <1>3 DEF Damage, CInv, TypeOK
<1>6. EntryInv'
  BY <1>2, <1>4, CacheAssumption DEF Damage, EntryInv
<1> QED
  BY <1>5, <1>6, CacheAssumption
     DEF Damage, CInv, TmpInv, CallInv, GetIsAuthentic

LEMMA CacheNext == CInv /\ [Next]_vars => CInv'
<1> SUFFICES ASSUME CInv, [Next]_vars
             PROVE  CInv'
  OBVIOUS
<1>1. CASE UNCHANGED vars
  BY <1>1
     DEF vars, CInv, TypeOK, TmpInv, CallInv, EntryInv, GetIsAuthentic
<1> QED
  BY <1>1, CallSetStep, CreateStep, WriteStep, SyncFileStep, RenameStep,
     SyncDirStep, GivenUpStep, GetStep, PowerFailureStep, DamageStep DEF Next

LEMMA CacheAlways == Spec => []CInv
  BY CacheInit, CacheNext, PTL DEF Spec

\* The variables and the files have their types, and what is known to be on
\* disk of a file is no more than the file.
THEOREM CacheTypeCorrect == Spec => []TypeOK
  BY CacheAlways, PTL DEF CInv

\* get() never returns a value that set() was not given, or that was
\* overwritten before it, whatever is cut off, lost or altered.
THEOREM GetAuthentic == Spec => []GetIsAuthentic
  BY CacheAlways, PTL DEF CInv

-----------------------------------------------------------------------------
(* Where the cache directory exists before the first set(), as it does     *)
(* with the service file of the repository's README.                       *)

DirectoryExists == DirStates = {"synced"}

\* Whatever the path may name is promised.
PInv == /\ CInv
        /\ dir = "synced"
        /\ \A c \in synced : Reading(c) \in promised

LEMMA LeavesSynced == PInv => AfterFailure = synced
  BY FailureLeaves DEF PInv, CInv

LEMMA LeavesSyncedNext == PInv' => (AfterFailure = synced)'
  BY LeavesSynced, PTL

LEMMA PromiseInit == DirectoryExists /\ Init => PInv
  BY CacheInit DEF DirectoryExists, Init, PInv, Reading

LEMMA PromiseNext == PInv /\ [Next]_vars => PInv'
<1> SUFFICES ASSUME PInv, [Next]_vars
             PROVE  /\ dir' = "synced"
                    /\ \A c \in synced' : Reading(c) \in promised'
  BY CacheNext DEF PInv
<1>1. CASE \/ \E x \in Value : CallSet(x)
           \/ Create \/ Write \/ SyncFile \/ SetErr \/ Get \/ Die
           \/ UNCHANGED vars
  BY <1>1
     DEF PInv, CallSet, Create, Write, SyncFile, SetErr, Get, Die, vars
<1>2. CASE Rename
  <2>1. Reading(tmp) = item /\ item \in promised
    BY <1>2, CacheAssumption, FileSizeType, CompleteIsAccepted
       DEF Rename, PInv, CInv, CallInv, TmpInv
  <2> QED
    BY <1>2, <2>1 DEF Rename, PInv
<1>3. CASE SyncDir
  <2>1. Reading(entry) = item
    BY <1>3, CacheAssumption, FileSizeType, CompleteIsAccepted
       DEF SyncDir, PInv, CInv, CallInv, TmpInv
  <2> QED
    BY <1>3, <2>1 DEF SyncDir, PInv
<1>4. CASE PowerFailure
  BY <1>4, LeavesSynced DEF PowerFailure, PInv
<1>5. CASE Damage
  <2>1. Reading(entry') = Corrupt
    BY <1>5, DamageIsDetected, FileAssumption
       DEF Damage, PInv, CInv, TypeOK, EntryInv, Reading
  <2> QED
    BY <1>5, <2>1 DEF Damage, PInv
<1> QED
  BY <1>1, <1>2, <1>3, <1>4, <1>5 DEF Next

LEMMA PromiseAlways == DirectoryExists => (Spec => []PInv)
<1> SUFFICES ASSUME DirectoryExists
             PROVE  Spec => []PInv
  OBVIOUS
<1>1. Init => PInv
  BY PromiseInit
<1> QED
  BY <1>1, PromiseNext, PTL DEF Spec

\* Where the directory exists, what set() returned Ok for survives a power
\* failure at any later moment: the order of the syncs and the rename.
THEOREM PromiseKept == DirectoryExists => (Spec => []PowerFailureKeepsPromise)
<1> SUFFICES ASSUME DirectoryExists
             PROVE  Spec => []PowerFailureKeepsPromise
  OBVIOUS
<1>1. PInv => PowerFailureKeepsPromise
  BY LeavesSynced DEF PInv, PowerFailureKeepsPromise
<1> QED
  BY <1>1, PromiseAlways, PTL

-----------------------------------------------------------------------------
(* The refinement of CacheStore.                                           *)

Disk == {Reading(c) : c \in AfterFailure}

LEMMA StoreInit == DirectoryExists /\ Init => Store!Init
<1> SUFFICES ASSUME DirectoryExists, Init
             PROVE  Store!Init
  OBVIOUS
<1>1. AfterFailure = {None}
  BY PromiseInit, LeavesSynced DEF Init
<1> QED
  BY <1>1 DEF Init, Store!Init, Reading

LEMMA StoreNext ==
    PInv /\ PInv' /\ [Next]_vars => [Store!Next]_<<Reading(entry), Disk>>
<1> SUFFICES ASSUME PInv, PInv', [Next]_vars
             PROVE  [Store!Next]_<<Reading(entry), Disk>>
  OBVIOUS
<1> DEFINE Files(S) == {Reading(c) : c \in S}
<1>1. Disk = Files(synced) /\ Disk' = Files(synced')
  BY LeavesSynced, LeavesSyncedNext DEF Disk
<1>2. CASE UNCHANGED <<entry, synced>>
  BY <1>1, <1>2 DEF Reading
<1>3. CASE Rename
  <2>1. Reading(tmp) = item /\ item \in Value
    BY <1>3, CacheAssumption, FileSizeType, CompleteIsAccepted
       DEF Rename, PInv, CInv, CallInv, TmpInv
  <2>2. Store!SetUnsynced(item)
    BY <1>1, <1>3, <2>1 DEF Rename, Store!SetUnsynced, Disk
  <2> QED
    BY <2>1, <2>2 DEF Store!Next, Disk
<1>4. CASE SyncDir
  <2>1. Reading(entry) = item /\ item \in Value
    BY <1>4, CacheAssumption, FileSizeType, CompleteIsAccepted
       DEF SyncDir, PInv, CInv, CallInv, TmpInv
  <2>2. Store!SetDurably(item)
    BY <1>1, <1>4, <2>1 DEF SyncDir, Store!SetDurably, Disk
  <2> QED
    BY <2>1, <2>2 DEF Store!Next, Disk
<1>5. CASE PowerFailure
  <2>1. Store!PowerFailure
    BY <1>1, <1>5, LeavesSynced DEF PowerFailure, Store!PowerFailure, Disk
  <2> QED
    BY <2>1 DEF Store!Next, Disk
<1>6. CASE Damage
  <2>1. /\ Reading(entry') = Corrupt
        /\ Reading(entry) # None
    BY <1>6, DamageIsDetected, FileAssumption, CacheAssumption
       DEF Damage, PInv, CInv, TypeOK, EntryInv, Reading, Content
  <2>2. Store!Damage
    BY <1>1, <1>6, <2>1 DEF Damage, Store!Damage, Disk
  <2> QED
    BY <2>2 DEF Store!Next, Disk
<1> QED
  BY <1>2, <1>3, <1>4, <1>5, <1>6
     DEF Next, CallSet, Create, Write, SyncFile, SetErr, Get, Die, vars

\* Where the directory exists, the steps of set() and get(), crashes and
\* damage included, are steps of the store that Client instantiates.
THEOREM StoreImplemented == DirectoryExists => (Spec => ImplementsStore)
<1> SUFFICES ASSUME DirectoryExists
             PROVE  Spec => ImplementsStore
  OBVIOUS
<1>1. Init => Store!Init
  BY StoreInit
<1> QED
  BY <1>1, StoreNext, PromiseAlways, PTL
     DEF Spec, ImplementsStore, Store!Spec, Store!vars, Disk
=============================================================================
