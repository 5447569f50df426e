----------------------------- MODULE MCSession -----------------------------
(* A small instance of PnoxSession for TLC.                                *)
EXTENDS PnoxSession, TLC

CONSTANTS a1, a2, t1, t2, t3, c1, c2, c3

Interchangeable == Permutations(Thread) \union Permutations(Client)
=============================================================================
