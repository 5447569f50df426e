----------------------------- MODULE MCSegment -----------------------------
(* A small instance of PnoxSegment for TLC.                                *)
EXTENDS PnoxSegment

CONSTANTS k1, k2, g1
=============================================================================
