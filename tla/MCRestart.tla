----------------------------- MODULE MCRestart -----------------------------
(* A small instance of PnoxRestart for TLC.                                *)
EXTENDS PnoxRestart

CONSTANTS a1, a2, t1, t2, c1, c2

\* Clients, threads and agents that have not been there yet are taken in one
\* order.  This cuts no behaviour of clients and threads but for their names:
\* liveness does not go with TLC's SYMMETRY.  Of the agents, the one that may be
\* killed is forked first.
InOrder ==
  /\ cst'[c2] # "new" => cst'[c1] # "new"
  /\ town'[t2] # NoAgent => town'[t1] # NoAgent
  /\ apc'[a2] # "none" => apc'[a1] # "none"
=============================================================================
