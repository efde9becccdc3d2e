------------------------------- MODULE Cache --------------------------------
(***************************************************************************)
(* The file cache of src/cache.rs at the level of the file system: set()   *)
(* writes, syncs and renames a temporary file and syncs the directory; any *)
(* of its steps may fail, the process may die in it and the machine may go *)
(* down; get() checks what it finds.  The client task is the only caller,  *)
(* so that no two calls overlap.                                           *)
(***************************************************************************)
EXTENDS Integers

CONSTANTS
    Value,      \* what is stored
    Len(_),     \* the length of a serialized value, in bytes
    None,       \* no file
    Corrupt,    \* a file that get() rejects
    DirStates   \* the cache directory at the start: subset of DirState

HEADER_SIZE == 16
CHECKSUM_SIZE == 4
MAX_DATA_SIZE == 1024 * 1024

\* A directory made by create_dir_all() is "unsynced": nothing has synced the
\* directory that holds its name.
DirState == {"absent", "unsynced", "synced"}

ASSUME CacheAssumption ==
    /\ \A x \in Value : Len(x) \in Nat \ {0}
    /\ None \notin Value
    /\ Corrupt \notin Value
    /\ None # Corrupt
    /\ DirStates \subseteq DirState

VARIABLES
    pc,         \* the step of set() that comes next, or "idle"
    item,       \* the argument of set()
    tmp,        \* the temporary file
    entry,      \* the file the cache path names, or None
    synced,     \* the entries a power failure may leave there
    dir,        \* the cache directory
    read,       \* what get() returned, if it was the last call
    promised    \* history: what the cache may hold by its documentation

vars == <<pc, item, tmp, entry, synced, dir, read, promised>>

-----------------------------------------------------------------------------
(* The binary format: whether each field is the one that was written.      *)

Fields == {"magic", "version", "flags", "header_crc", "data_crc"}

Content == [value : Value, size : Nat, durable : Nat, declared : Nat,
            valid : SUBSET Fields]

\* None stands for no file.
ASSUME FileAssumption == None \notin Content

\* The first size bytes of the file for x, of which durable bytes are synced.
Prefix(x, size, durable) ==
    [value |-> x, size |-> size, durable |-> durable, declared |-> Len(x),
     valid |-> Fields]

FileSize(declared) == HEADER_SIZE + declared + CHECKSUM_SIZE

\* Mutant: a file longer than its header declares is accepted.
AcceptedLong(c) == /\ c.size >= HEADER_SIZE
                   /\ {"magic", "version", "flags", "header_crc"}
                          \subseteq c.valid
                   /\ c.declared <= MAX_DATA_SIZE
                   /\ FileSize(c.declared) <= c.size
                   /\ "data_crc" \in c.valid

\* The checks of get(), in their order.
Accepted(c) == /\ c.size >= HEADER_SIZE
               /\ {"magic", "version", "flags", "header_crc"} \subseteq c.valid
               /\ c.declared <= MAX_DATA_SIZE
               /\ FileSize(c.declared) <= c.size
               /\ FileSize(c.declared) >= c.size
               /\ "data_crc" \in c.valid

\* Ok(None), Ok(Some(value)) or an error.
Reading(c) == IF c = None THEN None
              ELSE IF Accepted(c) THEN c.value
              ELSE Corrupt

\* What a power failure may leave of a file: some of the bytes that were not
\* synced are missing, or have another content.
Remains(c) ==
    IF c = None THEN {None}
    ELSE {[c EXCEPT !.size = n, !.durable = n] : n \in c.durable..c.size}
         \cup (IF c.durable < c.size
               THEN {[c EXCEPT !.durable = c.size, !.valid = @ \ {"data_crc"}]}
               ELSE {})

\* What a power failure may leave at the cache path.
AfterFailure == (UNION {Remains(c) : c \in synced})
                \cup (IF dir = "unsynced" THEN {None} ELSE {})

\* Damage from outside: a field or the size is not what was written.
Damaged(c) == {[c EXCEPT !.valid = @ \ {f}] : f \in Fields}
              \cup {[c EXCEPT !.size = n, !.durable = n]
                      : n \in {c.size - 1, c.size + 1}}
              \cup {[c EXCEPT !.declared = MAX_DATA_SIZE + 1,
                              !.valid = @ \ {"header_crc"}]}

-----------------------------------------------------------------------------

Init == /\ pc = "idle"
        /\ item = None
        /\ tmp = None
        /\ entry = None
        /\ synced = {None}
        /\ dir \in DirStates
        /\ read = None
        /\ promised = {None}

CallSet(x) == /\ pc = "idle"
              /\ pc' = "create"
              /\ item' = x
              /\ promised' = promised \cup {x}
              /\ read' = None
              /\ UNCHANGED <<tmp, entry, synced, dir>>

\* Mutant: a temporary file with a fixed name, whose bytes of an earlier call
\* are taken for synced bytes of this one.
CreateReused == /\ pc = "create"
                /\ pc' = "write"
                /\ tmp' = Prefix(item, 0, FileSize(Len(item)))
                /\ dir' = IF dir = "absent" THEN "unsynced" ELSE dir
                /\ UNCHANGED <<item, entry, synced, read, promised>>

\* create_dir_all() and NamedTempFile::new_in().
Create == /\ pc = "create"
          /\ pc' = "write"
          /\ tmp' = Prefix(item, 0, 0)
          /\ dir' = IF dir = "absent" THEN "unsynced" ELSE dir
          /\ UNCHANGED <<item, entry, synced, read, promised>>

\* The ends of the header, the data and the data checksum.
Boundaries == {HEADER_SIZE, HEADER_SIZE + Len(item), FileSize(Len(item))}

\* One write_all(), unless the payload is too large.
Write == /\ pc = "write"
         /\ Len(item) <= MAX_DATA_SIZE
         /\ \E n \in Boundaries :
                /\ n > tmp.size
                /\ \A m \in Boundaries : m > tmp.size => n <= m
                /\ tmp' = [tmp EXCEPT !.size = n]
                /\ pc' = IF n = FileSize(Len(item)) THEN "sync" ELSE "write"
         /\ UNCHANGED <<item, entry, synced, dir, read, promised>>

\* Mutant: the file is flushed but not synced.
FlushFile == /\ pc = "sync"
             /\ pc' = "rename"
             /\ UNCHANGED <<item, tmp, entry, synced, dir, read, promised>>

\* flush() and sync_all() of the file.
SyncFile == /\ pc = "sync"
            /\ pc' = "rename"
            /\ tmp' = [tmp EXCEPT !.durable = tmp.size]
            /\ UNCHANGED <<item, entry, synced, dir, read, promised>>

Rename == /\ pc = "rename"
          /\ pc' = "sync_dir"
          /\ entry' = tmp
          /\ synced' = synced \cup {tmp}
          /\ tmp' = None
          /\ UNCHANGED <<item, dir, read, promised>>

\* Mutant: set() returns Ok after the rename.
NoSyncDir == /\ pc = "sync_dir"
             /\ pc' = "idle"
             /\ item' = None
             /\ promised' = {item}
             /\ UNCHANGED <<tmp, entry, synced, dir, read>>

\* sync_all() of the directory; set() returns Ok(()).
SyncDir == /\ pc = "sync_dir"
           /\ pc' = "idle"
           /\ item' = None
           /\ synced' = {entry}
           /\ promised' = {item}
           /\ UNCHANGED <<tmp, entry, dir, read>>

\* A step fails and set() returns its error; the temporary file is removed.
SetErr == /\ pc # "idle"
          /\ pc' = "idle"
          /\ item' = None
          /\ tmp' = None
          /\ UNCHANGED <<entry, synced, dir, read, promised>>

Get == /\ pc = "idle"
       /\ read' \in {Reading(entry), Corrupt}      \* or an I/O error
       /\ UNCHANGED <<pc, item, tmp, entry, synced, dir, promised>>

\* The process dies; a temporary file it leaves is never looked at again.
Die == /\ pc # "idle"
       /\ pc' = "idle"
       /\ item' = None
       /\ tmp' = None
       /\ read' = None
       /\ UNCHANGED <<entry, synced, dir, promised>>

PowerFailure == /\ pc' = "idle"
                /\ item' = None
                /\ tmp' = None
                /\ read' = None
                /\ entry' \in AfterFailure
                /\ synced' = {entry'}
                /\ dir' \in IF dir # "unsynced" THEN {dir}
                            ELSE IF entry' = None THEN {"absent", "synced"}
                            ELSE {"synced"}
                /\ UNCHANGED promised

\* Between two calls something else writes to the file.
Damage == /\ pc = "idle"
          /\ entry # None
          /\ Accepted(entry)
          /\ entry' \in Damaged(entry)
          /\ synced' = {entry'}
          /\ read' = None
          /\ promised' = {Corrupt}
          /\ UNCHANGED <<pc, item, tmp, dir>>

Next == \/ \E x \in Value : CallSet(x)
        \/ Create \/ Write \/ SyncFile \/ Rename \/ SyncDir \/ SetErr
        \/ Get
        \/ Die \/ PowerFailure \/ Damage

Spec == Init /\ [][Next]_vars

-----------------------------------------------------------------------------
(* Properties.                                                             *)

\* The type invariant; the bytes known to be on disk are bytes of the file.
TypeOK == /\ pc \in {"idle", "create", "write", "sync", "rename", "sync_dir"}
          /\ item \in Value \cup {None}
          /\ \A c \in {tmp, entry} \cup synced :
                 c # None => c \in Content /\ c.durable <= c.size
          /\ dir \in DirState
          /\ read \in Value \cup {None, Corrupt}
          /\ promised \in SUBSET (Value \cup {None, Corrupt})

\* Once set() has returned Ok, nothing but its value, or that of a later
\* call, is found after a power failure: neither an older value nor a torn
\* file (cache.rs:141-148, "atomic file operations to prevent data
\* corruption during writes", cache.rs:66-67).
PowerFailureKeepsPromise == \A c \in AfterFailure : Reading(c) \in promised

\* get() returns only what set() was given: a truncated, torn, extended or
\* altered file is an error, never a value (cache.rs:161-239).
GetIsAuthentic == read \in Value => read \in promised

Store == INSTANCE CacheStore WITH
             file <- Reading(entry),
             disk <- {Reading(c) : c \in AfterFailure}

\* The files implement the single-value store the client relies on.
ImplementsStore == Store!Spec
=============================================================================
