------------------------------ MODULE MCDaemon ------------------------------
(* Small instances of PnoxDaemon for TLC.                                  *)
EXTENDS PnoxDaemon

=============================================================================
