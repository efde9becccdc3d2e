------------------------------ MODULE MCClient ------------------------------
(***************************************************************************)
(* Small instances of Client for TLC.                                      *)
(***************************************************************************)
EXTENDS Client, TLC

CONSTANTS a, b, cloudflare, duckdns, home, office

\* Each provider entry keeps one record; office is kept by the second one.
MCOwner == [r \in Record |-> IF r = home THEN cloudflare ELSE duckdns]

Running4 == [records |-> Record, versions |-> {"v4"}, dry_run |-> FALSE]
DualStack == [records |-> Record, versions |-> IpVersion, dry_run |-> FALSE]
DryRun4 == [Running4 EXCEPT !.dry_run = TRUE]
HomeOnly == [Running4 EXCEPT !.records = {home}]
OnlyV6 == [DualStack EXCEPT !.versions = {"v6"}]

\* The configurations of the runs.
Single == {Running4}
Dual == {DualStack}
Edited == {HomeOnly, Running4, DryRun4}
EditedVersions == {DualStack, Running4, OnlyV6}
EditedRecords == {HomeOnly, Running4}
=============================================================================
