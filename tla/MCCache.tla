------------------------------ MODULE MCCache -------------------------------
(***************************************************************************)
(* Small instances of Cache for TLC.                                       *)
(***************************************************************************)
EXTENDS Cache

CONSTANTS short, long, huge

\* The payload of an IpUpdate has a few bytes; huge is just over the maximum.
MCLen(x) == CASE x = short -> 1 [] x = long -> 3 [] x = huge -> MAX_DATA_SIZE + 1
=============================================================================
