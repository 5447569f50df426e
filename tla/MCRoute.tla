------------------------------ MODULE MCRoute ------------------------------
(* A small instance of PnoxRoute for TLC.                                 *)
EXTENDS PnoxRoute
=============================================================================
