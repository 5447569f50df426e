----------------------------- MODULE MCFraming -----------------------------
(* A small instance of PnoxFraming for TLC.                                *)
EXTENDS PnoxFraming
=============================================================================
