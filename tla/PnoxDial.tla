------------------------------ MODULE PnoxDial ------------------------------
(***************************************************************************)
(* pnoxrtc, the calling end of all routes of a host.  The process pnoxd    *)
(* starts forks one child per other host; a child opens the queue of its   *)
(* route, connects, and serves until its connection ends or its parent is  *)
(* gone, which it sees by polling.  The parent ends as soon as it misses   *)
(* one child, and pnoxd starts pnoxrtc again, which removes the names of   *)
(* all queues and begins anew: children of two pnoxrtc then live side by   *)
(* side and use the same names.                                            *)
(*                                                                         *)
(* pnoxd itself is taken to run on (PnoxDaemon), so that there is never    *)
(* more than one parent.                                                   *)
(***************************************************************************)
EXTENDS Integers

CONSTANTS
  NHost,      \* hosts with a route
  Gen,        \* identities of pnoxrtc processes, used again
  NoGen,
  MaxDown,    \* bound: how often hosts go down
  MaxFaults,  \* bound: faults
  Faults      \* which faults happen: "parent", "kid" killed, or "fork" failed

ASSUME DialAssumption ==
  /\ NHost \in Nat \ {0}
  /\ NoGen \notin Gen
  /\ MaxDown \in Nat
  /\ MaxFaults \in Nat
  /\ Faults \subseteq {"parent", "kid", "fork"}

Host == 1 .. NHost

VARIABLES
  parent,   \* where each parent is
  next,     \* the host it forks a child for next
  kid,      \* where each child is; "none" also if its fork failed
  link,     \* whether a child's connection holds
  name,     \* the child, by its parent, whose queue has the name of a route
  up,       \* hosts that can be reached
  downs,
  faults,
  crossed,  \* history: children of another pnoxrtc lived when this one began
  late      \* history: one of them had yet to open its queue

histVars == <<crossed, late>>
vars == <<parent, next, kid, link, name, up, downs, faults, histVars>>

Lives(g, h) == kid[g][h] \in {"open", "dial", "serve"}
Idle(g) == parent[g] = "none" /\ \A h \in Host : ~Lives(g, h)

Init ==
  /\ parent = [g \in Gen |-> "none"]
  /\ next = [g \in Gen |-> 1]
  /\ kid = [g \in Gen |-> [h \in Host |-> "none"]]
  /\ link = [g \in Gen |-> [h \in Host |-> FALSE]]
  /\ name = [h \in Host |-> NoGen]
  /\ up = Host
  /\ downs = 0
  /\ faults = 0
  /\ crossed = [g \in Gen |-> FALSE]
  /\ late = FALSE

Fault(kind) == kind \in Faults /\ faults < MaxFaults /\ faults' = faults + 1

-----------------------------------------------------------------------------
(* The parent.                                                             *)

\* pnoxd starts pnoxrtc, which unlinks all names and reads the configuration.
\* A second or more has passed since the last one ended.
Starts(g) ==
  /\ \A o \in Gen : parent[o] = "none"
  /\ Idle(g)
  /\ parent' = [parent EXCEPT ![g] = "fork"]
  /\ next' = [next EXCEPT ![g] = 1]
  /\ kid' = [kid EXCEPT ![g] = [h \in Host |-> "none"]]
  /\ name' = [h \in Host |-> NoGen]
  /\ crossed' = [crossed EXCEPT ![g] = \E o \in Gen : ~Idle(o)]
  /\ late' = (late \/ \E o \in Gen, h \in Host : kid[o][h] = "open")
  /\ UNCHANGED <<link, up, downs, faults>>

\* Wrong variant: the parent leaves its loop after a fork.
ForkedOnce(g) ==
  /\ next' = [next EXCEPT ![g] = @ + 1]
  /\ parent' = [parent EXCEPT ![g] = "watch"]

Forked(g) ==
  /\ next' = [next EXCEPT ![g] = @ + 1]
  /\ parent' = IF next[g] = NHost THEN [parent EXCEPT ![g] = "watch"] ELSE parent

Forks(g) ==
  /\ parent[g] = "fork"
  /\ Forked(g)
  /\ kid' = [kid EXCEPT ![g][next[g]] = "open"]
  /\ UNCHANGED <<link, name, up, downs, faults, histVars>>

\* The child's place in rtcpid stays 0, which kill takes for its own group.
ForkFails(g) ==
  /\ parent[g] = "fork"
  /\ Fault("fork")
  /\ Forked(g)
  /\ UNCHANGED <<kid, link, name, up, downs, histVars>>

\* Wrong variant: check_proc leaves out the last child.
MissesButLast(g) == \E h \in 1 .. NHost - 1 : kid[g][h] = "gone"

\* check_proc: a child of its has ended.
Misses(g) == \E h \in Host : kid[g][h] = "gone"

ParentEnds(g) ==
  /\ parent[g] = "watch"
  /\ Misses(g)
  /\ parent' = [parent EXCEPT ![g] = "none"]
  /\ UNCHANGED <<next, kid, link, name, up, downs, faults, histVars>>

ParentKilled(g) ==
  /\ parent[g] # "none"
  /\ Fault("parent")
  /\ parent' = [parent EXCEPT ![g] = "none"]
  /\ UNCHANGED <<next, kid, link, name, up, downs, histVars>>

-----------------------------------------------------------------------------
(* A child.                                                                *)

\* pxopen: if the name is taken, it removes it and fails, and the child ends.
KidOpens(g, h) ==
  /\ kid[g][h] = "open"
  /\ \/ /\ name[h] = NoGen
        /\ name' = [name EXCEPT ![h] = g]
        /\ kid' = [kid EXCEPT ![g][h] = "dial"]
     \/ /\ name[h] # NoGen
        /\ name' = [name EXCEPT ![h] = NoGen]
        /\ kid' = [kid EXCEPT ![g][h] = "gone"]
  /\ UNCHANGED <<parent, next, link, up, downs, faults, histVars>>

KidConnects(g, h) ==
  /\ kid[g][h] = "dial" /\ h \in up
  /\ kid' = [kid EXCEPT ![g][h] = "serve"]
  /\ link' = [link EXCEPT ![g][h] = TRUE]
  /\ UNCHANGED <<parent, next, name, up, downs, faults, histVars>>

\* After three seconds without a connection it exits, its queue still named.
KidGivesUp(g, h) ==
  /\ kid[g][h] = "dial" /\ h \notin up
  /\ kid' = [kid EXCEPT ![g][h] = "gone"]
  /\ UNCHANGED <<parent, next, link, name, up, downs, faults, histVars>>

\* Wrong variant: the name of the next route is made from the index.
ClosesNext(h) == name' = [o \in Host |-> IF o = h + 1 THEN NoGen ELSE name[o]]

\* pxclose removes the name of the route, whoever has it.
Closes(h) == name' = [name EXCEPT ![h] = NoGen]

\* Its connection has ended, or its parent has.
KidEnds(g, h) ==
  /\ kid[g][h] = "serve"
  /\ ~link[g][h] \/ parent[g] = "none"
  /\ Closes(h)
  /\ kid' = [kid EXCEPT ![g][h] = "gone"]
  /\ link' = [link EXCEPT ![g][h] = FALSE]
  /\ UNCHANGED <<parent, next, up, downs, faults, histVars>>

KidKilled(g, h) ==
  /\ Lives(g, h)
  /\ Fault("kid")
  /\ kid' = [kid EXCEPT ![g][h] = "gone"]
  /\ link' = [link EXCEPT ![g][h] = FALSE]
  /\ UNCHANGED <<parent, next, name, up, downs, histVars>>

-----------------------------------------------------------------------------
(* The other hosts.                                                        *)

HostDown(h) ==
  /\ h \in up
  /\ downs < MaxDown /\ downs' = downs + 1
  /\ up' = up \ {h}
  /\ link' = [g \in Gen |-> [link[g] EXCEPT ![h] = FALSE]]
  /\ UNCHANGED <<parent, next, kid, name, faults, histVars>>

HostUp(h) ==
  /\ h \notin up
  /\ up' = up \union {h}
  /\ UNCHANGED <<parent, next, kid, link, name, downs, faults, histVars>>

-----------------------------------------------------------------------------
GenStep(g) == Starts(g) \/ Forks(g) \/ ParentEnds(g)
KidStep(g, h) ==
  KidOpens(g, h) \/ KidConnects(g, h) \/ KidGivesUp(g, h) \/ KidEnds(g, h)

Next ==
  \/ \E g \in Gen : GenStep(g) \/ ForkFails(g) \/ ParentKilled(g)
  \/ \E g \in Gen, h \in Host : KidStep(g, h) \/ KidKilled(g, h)
  \/ \E h \in Host : HostDown(h) \/ HostUp(h)

Spec == Init /\ [][Next]_vars

\* Every process goes on: pnoxd looks every second, a parent every three, and
\* a child's select and its dialling end by themselves.
FairSpec ==
  /\ Spec
  /\ WF_vars(\E g \in Gen : Starts(g))
  /\ \A g \in Gen : WF_vars(Forks(g)) /\ WF_vars(ParentEnds(g))
  /\ \A g \in Gen, h \in Host : WF_vars(KidStep(g, h))

-----------------------------------------------------------------------------
(* Properties.                                                             *)

\* Every variable has its type; a parent watches when it has gone through all
\* hosts; a connection that holds has both its ends.
TypeOK ==
  /\ parent \in [Gen -> {"none", "fork", "watch"}]
  /\ next \in [Gen -> 1 .. NHost + 1]
  /\ kid \in [Gen -> [Host -> {"none", "open", "dial", "serve", "gone"}]]
  /\ link \in [Gen -> [Host -> BOOLEAN]]
  /\ name \in [Host -> Gen \union {NoGen}]
  /\ up \subseteq Host
  /\ downs \in 0 .. MaxDown
  /\ faults \in 0 .. MaxFaults
  /\ crossed \in [Gen -> BOOLEAN]
  /\ late \in BOOLEAN
  /\ \A g \in Gen : parent[g] = "watch" => next[g] = NHost + 1
  /\ \A g \in Gen, h \in Host : link[g][h] => kid[g][h] = "serve" /\ h \in up

\* The children of a pnoxrtc that began when all children of earlier ones had
\* ended keep the names of their queues as long as it runs.
NameKept ==
  \A g \in Gen, h \in Host :
    /\ parent[g] # "none" /\ ~crossed[g]
    /\ kid[g][h] \in {"dial", "serve"}
    => name[h] = g

\* There is a connection to a host, of a child whose parent runs.
Connected(h) == \E g \in Gen : parent[g] # "none" /\ link[g][h]

\* All hosts are up, and the parent that watches has forked a child for each.
Undisturbed ==
  /\ up = Host
  /\ \A g \in Gen, h \in Host : parent[g] = "watch" => kid[g][h] # "none"

\* When in the end all hosts stay up and forks succeed, every route is connected
\* in the end, whatever died before: unless a child took longer to open its queue
\* than pnoxd to start the next pnoxrtc, for the two then go on to remove each
\* other's names.
EveryRouteConnected ==
  []~late /\ <>[]Undisturbed => \A h \in Host : <>[]Connected(h)
=============================================================================
