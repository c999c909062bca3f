--------------------------- MODULE MCReplayFilter ---------------------------
(***************************************************************************)
(* A ring of four blocks of two bits, so that the window is six counters   *)
(* wide; counters reach over two laps of the ring and past the limit.      *)
(***************************************************************************)
EXTENDS ReplayFilter

\* Counters presented: all below the limit, the limit and one above.
MCCounters == 0 .. Limit + 1
=============================================================================
