----------------------------- MODULE MCIpLookup -----------------------------
(***************************************************************************)
(* Small instances of IpLookup for TLC.                                    *)
(***************************************************************************)
EXTENDS IpLookup, TLC

CONSTANTS u1, u2, u3, u4, a, b
=============================================================================
