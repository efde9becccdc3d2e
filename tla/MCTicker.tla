------------------------------ MODULE MCTicker ------------------------------
(***************************************************************************)
(* Ticker with numbers for TLC.                                            *)
(***************************************************************************)
EXTENDS Ticker

\* Passes of up to two and a half intervals.
Overlong == (5 * Interval) \div 2
=============================================================================
