------------------------------- MODULE MCDial -------------------------------
(* A small instance of PnoxDial for TLC.                                   *)
EXTENDS PnoxDial
=============================================================================
