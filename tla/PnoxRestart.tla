---------------------------- MODULE PnoxRestart ----------------------------
(***************************************************************************)
(* PnoxSession with a gateway that may die and is started again by pnoxd.  *)
(*                                                                         *)
(* The agents of a dead gateway see at the top of their loop that their    *)
(* parent is gone, and end with all their sessions.  The new gateway       *)
(* clears the tables of the segment, whoever is still using them, and      *)
(* binds its ports.  Everything the old gateway forked has inherited its   *)
(* listening sockets, so while an agent or a pnoxrta of it lives the bind  *)
(* fails.  main does not look at what initial_sock returns, and waits for  *)
(* ever on a socket it has closed: the gateway is deaf until it is killed. *)
(***************************************************************************)
EXTENDS PnoxSession

CONSTANT MaxRestart   \* bound: deaths of a gateway that is not deaf

ASSUME RestartAssumption == MaxRestart \in Nat

VARIABLES
  gw,       \* the gateway: "up" (it listens), "dead", "cleared", "deaf"
  mine,     \* the agents forked by the gateway that runs
  deaths

newVars == <<gw, mine, deaths>>
rvars == <<vars, newVars>>

RInit ==
  /\ Init
  /\ gw = "up"
  /\ mine = {}
  /\ deaths = 0

\* getppid() <= 1: the gateway that forked the agent is gone.
Orphaned(a) == Alive(a) /\ a \notin mine

-----------------------------------------------------------------------------
(* The gateway.                                                            *)

GatewayServes ==
  /\ gw = "up"
  /\ Gateway
  /\ mine' = mine \union {a \in Agent : apc[a] = "none" /\ apc'[a] = "boot"}
  /\ UNCHANGED <<gw, deaths>>

\* It is killed, by SIGTERM (shut_listen) or a fault, a deaf one as often as it
\* takes; the connection it was working on is closed unless an agent has
\* inherited it.
GatewayDies ==
  /\ \/ gw \in {"up", "cleared"} /\ deaths < MaxRestart /\ deaths' = deaths + 1
     \/ gw = "deaf" /\ deaths' = deaths
  /\ gw' = "dead"
  /\ mine' = {}
  /\ GatewayDone
  /\ cst' = IF gpc = "idle" THEN cst ELSE [cst EXCEPT ![gcl] = Dropped(gcl)]
  /\ UNCHANGED <<devi, devn, slot, agVars, inbox, thVars, path, usr, cown,
                 histVars>>

\* Wrong variant: the loop over devn is missing.
GatewayKeepsIds ==
  /\ gw = "dead" /\ gw' = "cleared"
  /\ devi' = 0
  /\ slot' = [s \in Slots |-> EmptySlot]
  /\ usr' = [p \in Pxid |-> FALSE]
  /\ orphan' = {}
  /\ UNCHANGED <<gpc, gcl, gidx, devn, agVars, inbox, thVars, path, clVars, leak,
                 dup, spoilt, mine, deaths>>

\* pnoxd starts it again; initial clears users, ids, agents and routing slots.
GatewayClears ==
  /\ gw = "dead" /\ gw' = "cleared"
  /\ devi' = 0
  /\ devn' = [p \in Pxid |-> FALSE]
  /\ slot' = [s \in Slots |-> EmptySlot]
  /\ usr' = [p \in Pxid |-> FALSE]
  /\ orphan' = {}
  /\ UNCHANGED <<gpc, gcl, gidx, agVars, inbox, thVars, path, clVars, leak, dup,
                 spoilt, mine, deaths>>

\* Who has the listening sockets of an earlier gateway: its agents, and any
\* pnoxrta it has forked that still has its connection (routed, an input: a
\* pnoxrta does not look for its parent).
PortTaken(routed) == routed \/ \E a \in Agent : Orphaned(a)

\* Wrong variant: two sockets may listen on the port.
GatewayBindsAnyway ==
  /\ gw = "cleared"
  /\ gw' = "up"
  /\ UNCHANGED <<vars, mine, deaths>>

GatewayBinds ==
  /\ gw = "cleared"
  /\ \E routed \in BOOLEAN : gw' = IF PortTaken(routed) THEN "deaf" ELSE "up"
  /\ UNCHANGED <<vars, mine, deaths>>

-----------------------------------------------------------------------------
(* Agents and their threads.                                               *)

\* The rest of the top of the loop, for those whose parent is there.
AgentGoesOn(a) ==
  /\ a \in mine
  /\ AgentTop(a) \/ AgentLeave(a)
  /\ UNCHANGED newVars

\* Wrong variant: the test for the parent comes after that for a free thread.
AgentOrphanLeavesIdle(a) ==
  /\ apc[a] = "top" /\ Orphaned(a)
  /\ Utrd(a) < NTrd /\ uflg[a]
  /\ slot' = [slot EXCEPT ![aslot[a]].used = FALSE]
  /\ apc' = [apc EXCEPT ![a] = "left"]
  /\ UNCHANGED <<gwVars, devn, aslot, uflg, inbox, thVars, path, usr, clVars,
                 histVars, newVars>>

\* The parent is gone: out of the loop, whatever the agent still serves.
AgentOrphanLeaves(a) ==
  /\ apc[a] = "top" /\ Orphaned(a)
  /\ slot' = [slot EXCEPT ![aslot[a]].used = FALSE]
  /\ apc' = [apc EXCEPT ![a] = "left"]
  /\ UNCHANGED <<gwVars, devn, aslot, uflg, inbox, thVars, path, usr, clVars,
                 histVars, newVars>>

\* The other end of the socketpair is closed: select reports that as something
\* to read, and a thread is counted and created for it.
AgentSpawnAtEnd(a, t) ==
  /\ apc[a] = "select" /\ Orphaned(a) /\ inbox[a] = <<>>
  /\ tpc[t] = "none"
  /\ slot' = [slot EXCEPT ![aslot[a]].utrd = @ + 1]
  /\ tpc' = [tpc EXCEPT ![t] = "recv"]
  /\ town' = [town EXCEPT ![t] = a]
  /\ apc' = [apc EXCEPT ![a] = "top"]
  /\ UNCHANGED <<gwVars, devn, aslot, uflg, inbox, tpxid, tcl, path, usr, clVars,
                 histVars, newVars>>

\* ... and counted even if it cannot be created.
AgentSpawnFailsAtEnd(a) ==
  /\ CreateFails
  /\ apc[a] = "select" /\ Orphaned(a) /\ inbox[a] = <<>>
  /\ slot' = [slot EXCEPT ![aslot[a]].utrd = @ + 1]
  /\ leak' = [leak EXCEPT ![a] = @ + 1]
  /\ apc' = [apc EXCEPT ![a] = "top"]
  /\ UNCHANGED <<gwVars, devn, aslot, uflg, inbox, thVars, path, usr, clVars,
                 dup, orphan, spoilt, newVars>>

\* pxrcvfd returns 0 and leaves pxid as it was on the thread's stack: zero, or
\* what an earlier thread of the agent had there.  With such an id the thread
\* goes on as for a client, on the descriptor 0.
StaleIds(a) == {0} \union {tpxid[u] : u \in {v \in Thread : town[v] = a}}

ThreadReceivesEnd(t) ==
  LET a == town[t]
  IN  /\ tpc[t] = "recv" /\ inbox[a] = <<>> /\ a \notin mine
      /\ \E p \in StaleIds(a) :
           /\ tpxid' = [tpxid EXCEPT ![t] = p]
           /\ tpc' = [tpc EXCEPT ![t] = IF p = 0 THEN "dec" ELSE "got"]
           /\ dup' = IF p = 0 THEN dup ELSE dup \union {p}
      /\ tcl' = [tcl EXCEPT ![t] = NoClient]
      /\ UNCHANGED <<gwVars, devn, slot, agVars, inbox, town, path, usr, clVars,
                     leak, orphan, spoilt, newVars>>

AgentRuns(a) ==
  \/ AgentGoesOn(a)
  \/ AgentOrphanLeaves(a)
  \/ \E t \in Thread : AgentSpawnAtEnd(a, t)
  \/ /\ \/ AgentAttach(a) \/ AgentGiveUp(a) \/ AgentExit(a)
        \/ AgentSelectTimeout(a) \/ \E t \in Thread : AgentSpawn(a, t)
     /\ UNCHANGED newVars

AgentFails(a) ==
  \/ AgentSpawnFailsAtEnd(a)
  \/ /\ \/ AgentExecFails(a) \/ AgentSpawnFails(a)
        \/ AgentTerm(a) \/ AgentCrash(a)
     /\ UNCHANGED newVars

ThreadRuns(t) ==
  \/ ThreadStep(t) /\ UNCHANGED newVars
  \/ ThreadReceivesEnd(t)

-----------------------------------------------------------------------------
RNext ==
  \/ GatewayServes \/ GatewayDies \/ GatewayClears \/ GatewayBinds
  \/ \E a \in Agent : AgentRuns(a) \/ AgentFails(a)
  \/ \E t \in Thread : ThreadRuns(t)

RSpec == RInit /\ [][RNext]_rvars

\* Every process and thread that can run does run, pnoxd starts the gateway
\* again, and sessions end some time, for clients leave or do not answer polls.
\* A pnoxrta may keep its connection for ever.
RFairSpec ==
  /\ RSpec
  /\ WF_rvars(GatewayServes)
  /\ WF_rvars(GatewayClears \/ GatewayBinds)
  /\ \A a \in Agent : WF_rvars(AgentRuns(a))
  /\ \A t \in Thread : WF_rvars(ThreadRuns(t))

-----------------------------------------------------------------------------
(* Properties.                                                             *)

\* The listening sockets that agents inherit work as a lock: a gateway that
\* accepts clients, and hands out the ids its start has cleared, never meets an
\* agent or a session of its predecessor.
OneGeneration ==
  gw = "up" => \A a \in Agent : Alive(a) => a \in mine

\* What sessions owe each other holds again as soon as the new gateway listens,
\* although its predecessor's sessions wrote into the tables after the clearing:
\* counts are exact, no id is busy for nothing but those a late thread has
\* marked, and ids have one holder.
CleanStart ==
  gw = "up" => /\ UtrdExact /\ NeverOver
               /\ NoSessionAbandoned
               /\ BusyHasSession
               /\ SoleOwner

\* Agents whose gateway is gone end in the end, and so do all sessions they had.
OrphansGone == <>[](\A a \in Agent : ~Orphaned(a))
=============================================================================
