----------------------------- MODULE MCMessage -----------------------------
(* Small instances of PnoxMessage for TLC.                                 *)
EXTENDS PnoxMessage, TLC

Interchangeable == Permutations(Pxid) \union Permutations(Worker)
=============================================================================
