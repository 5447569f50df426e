------------------------------ MODULE MCRooms ------------------------------
(* A small instance of PnoxRooms for TLC.                                  *)
EXTENDS PnoxRooms, TLC

Interchangeable == Permutations(Pxid) \union Permutations(Worker)
=============================================================================
