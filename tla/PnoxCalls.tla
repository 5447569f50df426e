----------------------------- MODULE PnoxCalls -----------------------------
(***************************************************************************)
(* What pnox promises who asks it something, without queues, threads,      *)
(* servers or sockets.  A request is asked by the client that has an id,   *)
(* and then at most one of two things happens to it, once: it is dropped,  *)
(* of which nobody is told, or its answer is given to the client that has  *)
(* the id by then.  That is the client that asked, or one that came after  *)
(* it was gone.                                                            *)
(***************************************************************************)
EXTENDS Integers, Sequences

CONSTANTS Pxid, NoPxid, MaxReq, MaxGen

Req == 1 .. MaxReq

VARIABLES
  here,   \* the ids that a client has
  gen,    \* how many clients have had the id
  by,     \* the id and the client a request came from
  fate,   \* what became of a request
  got     \* which client was given the answer to which request, in order

vars == <<here, gen, by, fate, got>>

Init ==
  /\ here = {}
  /\ gen = [p \in Pxid |-> 0]
  /\ by = [r \in Req |-> [id |-> NoPxid, gen |-> 0]]
  /\ fate = [r \in Req |-> "new"]
  /\ got = <<>>

Come(p) ==
  /\ p \notin here /\ gen[p] < MaxGen
  /\ here' = here \union {p}
  /\ gen' = [gen EXCEPT ![p] = @ + 1]
  /\ UNCHANGED <<by, fate, got>>

Go(p) ==
  /\ p \in here
  /\ here' = here \ {p}
  /\ UNCHANGED <<gen, by, fate, got>>

Turn(r, from, to) == fate[r] = from /\ fate' = [fate EXCEPT ![r] = to]

Ask(p, r) ==
  /\ p \in here
  /\ Turn(r, "new", "asked")
  /\ by' = [by EXCEPT ![r] = [id |-> p, gen |-> gen[p]]]
  /\ UNCHANGED <<here, gen, got>>

Drop(r) ==
  /\ Turn(r, "asked", "dropped")
  /\ UNCHANGED <<here, gen, by, got>>

Answer(r) ==
  LET p == by[r].id
  IN  /\ p \in here
      /\ Turn(r, "asked", "answered")
      /\ got' = Append(got, [req |-> r, id |-> p, gen |-> gen[p]])
      /\ UNCHANGED <<here, gen, by>>

Next ==
  \/ \E p \in Pxid : Come(p) \/ Go(p) \/ \E r \in Req : Ask(p, r)
  \/ \E r \in Req : Drop(r) \/ Answer(r)

Spec == Init /\ [][Next]_vars
=============================================================================
