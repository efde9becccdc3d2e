----------------------------- MODULE CacheStore -----------------------------
(***************************************************************************)
(* What src/cache.rs promises its caller, abstracted from files and bytes: *)
(* a single-value store that survives crashes.                             *)
(*                                                                         *)
(* file is what cache.get() would read now.  disk is the set of contents   *)
(* the file may have after a power failure: it is {file} except after a    *)
(* set() that renamed the new file into place and then failed to sync the  *)
(* directory.                                                              *)
(***************************************************************************)
CONSTANTS
    Value,      \* what the caller stores
    None,       \* no cache file
    Corrupt     \* a file that some check of get() rejects

VARIABLES file, disk

vars == <<file, disk>>

Content == Value \cup {None, Corrupt}

TypeOK == /\ disk \in SUBSET Content
          /\ file \in disk

Init == /\ file = None
        /\ disk = {None}

\* get(): Ok(Some(value)) or Ok(None) of an intact file, Err of a corrupt one.
\* The caller treats an error as a missing cache, so both read as None.
Readable == IF file = Corrupt THEN None ELSE file

\* Mutant: set() returns without syncing the directory.
SetWithoutSync(x) == /\ file' = x
                     /\ disk' = disk \cup {x}

\* set() returned Ok: temp file and directory are both synced.
SetDurably(x) == /\ file' = x
                 /\ disk' = {x}

\* set() failed before the rename: the temp file is dropped.
SetAborted == UNCHANGED vars

\* Mutant: the new file is visible, and cannot be what a crash leaves.
SetUnsyncedLost(x) == /\ file' = x
                      /\ disk' = disk

\* set() failed, or was interrupted, between the rename and the directory sync.
SetUnsynced(x) == /\ file' = x
                  /\ disk' = disk \cup {x}

\* The machine goes down: what was not synced may be there or not.
PowerFailure == /\ file' \in disk
                /\ disk' = {file'}

\* Damage done from outside, which the checksums of get() detect.
Damage == /\ file # None
          /\ file' = Corrupt
          /\ disk' = {Corrupt}

Next == \/ \E x \in Value : SetDurably(x) \/ SetUnsynced(x)
        \/ SetAborted
        \/ PowerFailure
        \/ Damage

Spec == Init /\ [][Next]_vars
=============================================================================
