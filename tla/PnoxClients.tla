---------------------------- MODULE PnoxClients ----------------------------
(***************************************************************************)
(* What pnox promises the clients it accepts, without gateway, agents,     *)
(* threads or sockets.  A client waits, is served under one id, and is     *)
(* gone; it never comes back under another id.  An id serves one client at *)
(* a time, and what is sent to the id reaches that client for as long as   *)
(* it is served: nobody else, and not nobody.                              *)
(*                                                                         *)
(* The promise is withdrawn for an id that is handed out a second time     *)
(* before the first hand-over has arrived: such an id is shared until it   *)
(* is handed out while nobody is served under it.                          *)
(***************************************************************************)
EXTENDS Integers

CONSTANTS Client, MaxDevn, NoClient

Ids == 1 .. MaxDevn

VARIABLES
  under,   \* pairs of a client and the id it is served under
  over,    \* the clients that are done with
  reach,   \* the client that gets what is sent to an id
  shared   \* the ids handed out twice

vars == <<under, over, reach, shared>>

Served(c) == \E p \in Ids : <<c, p>> \in under
Busy(p) == \E c \in Client : <<c, p>> \in under

Init ==
  /\ under = {}
  /\ over = {}
  /\ reach = [p \in Ids |-> NoClient]
  /\ shared = {}

\* An id is chosen for a client; the client may be lost on the way.
Offer(c, p) ==
  /\ c \notin over /\ ~Served(c)
  /\ \/ shared' = shared
     \/ shared' = shared \union {p}
     \/ shared' = shared \ {p} /\ ~Busy(p) /\ reach[p] = NoClient
  /\ over' \in {over, over \union {c}}
  /\ UNCHANGED <<under, reach>>

\* A client begins to be served, under an id nobody else is served under.
Serve(c, p) ==
  /\ c \notin over /\ ~Served(c)
  /\ p \in shared \/ ~Busy(p)
  /\ under' = under \union {<<c, p>>}
  /\ reach' = [reach EXCEPT ![p] = c]
  /\ UNCHANGED <<over, shared>>

\* Some clients are done with, served or not: what is sent to their ids
\* reaches nobody, what is sent to other ids still reaches whom it did.
End(S) ==
  /\ S # {}
  /\ over' = over \union S
  /\ under' = {u \in under : u[1] \notin S}
  /\ \A p \in Ids :
       \/ reach'[p] = IF reach[p] \in S THEN NoClient ELSE reach[p]
       \/ p \in shared /\ reach'[p] = NoClient
  /\ DOMAIN reach' = Ids
  /\ UNCHANGED shared

\* One of the two who share an id takes it from the other.
Lose(p) ==
  /\ p \in shared
  /\ reach' = [reach EXCEPT ![p] = NoClient]
  /\ UNCHANGED <<under, over, shared>>

Next ==
  \/ \E c \in Client, p \in Ids : Offer(c, p) \/ Serve(c, p)
  \/ \E S \in SUBSET (Client \ over) : End(S)
  \/ \E p \in Ids : Lose(p)

Spec == Init /\ [][Next]_vars
=============================================================================
