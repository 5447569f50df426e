---------------------------- MODULE PnoxSession ----------------------------
(***************************************************************************)
(* The session side of pnox: the gateway pnoxsgw accepts a client, chooses *)
(* a session agent (pnoxsca) and a session id (pxid), and passes the       *)
(* client's descriptor to the agent over a socketpair.  The agent runs one *)
(* thread per client; the thread owns the id's slot in the shared segment, *)
(* the queue file u<pxid> and the user entry while it serves the client.   *)
(*                                                                         *)
(* One gateway lives throughout (its loss and restart are added by         *)
(* PnoxRestart).  Agents may be killed, forks, execs and thread creations  *)
(* may fail, and every step of the gateway, of an agent's main loop and of *)
(* a session thread interleaves with every other at the accesses to the    *)
(* state they share.                                                       *)
(***************************************************************************)
EXTENDS Integers, Sequences, FiniteSets

CONSTANTS
  MaxDevn,     \* number of session ids (MAX_DEVN)
  MaxSca,      \* number of agent slots in the segment (MAX_PNOX_SCA)
  NTrd,        \* sessions an agent may run at once (pxmon->ntrd)
  Agent,       \* process ids the pnoxsca processes get, each used once
  Thread,      \* identities for the threads of all agents
  Client,      \* client connections, each accepted at most once
  Mortal,      \* agents that an operator or a fault may kill
  CreateFails, \* whether pthread_create may fail
  NoAgent, NoThread, NoClient,
  Stale        \* a queue file whose listening process is gone

ASSUME SizeAssumption ==
  /\ MaxDevn \in Nat \ {0}
  /\ MaxSca \in Nat \ {0}
  /\ NTrd \in Nat \ {0}
  /\ CreateFails \in BOOLEAN

ASSUME SetAssumption ==
  /\ IsFiniteSet(Thread)
  /\ Mortal \subseteq Agent
  /\ NoAgent \notin Agent
  /\ NoClient \notin Client
  /\ NoThread \notin Thread
  /\ Stale \notin Thread
  /\ Stale # NoThread

Pxid == 1 .. MaxDevn
Slots == 1 .. MaxSca

VARIABLES
  gpc,     \* where the gateway is in exec_sca
  gcl,     \* the connection it is working on
  gidx,    \* the agent slot it chose
  devi,    \* pxmon->devi, the cursor for the next id, counted from 0
  devn,    \* pxmon->devn: TRUE for SET_ON
  slot,    \* pxmon->scamng
  apc,     \* where the main thread of each agent is
  aslot,   \* the slot an agent found for itself
  uflg,    \* the agent has had a session
  inbox,   \* descriptors in flight on each agent's socketpair
  tpc,     \* where each thread is in exec_thread
  town,    \* the agent a thread belongs to
  tpxid,   \* the id the thread received
  tcl,     \* the connection the thread received
  path,    \* whose listening socket the name u<pxid> is bound to
  usr,     \* pxmon->usrmng[].used
  cst,     \* what has become of each connection
  cown,    \* the agent that holds a descriptor of the connection
  leak,    \* history: thread creations of an agent that failed
  dup,     \* history: ids handed out again while still in flight
  orphan,  \* history: ids whose agent died while it held them
  spoilt   \* history: slots cleared by a process that no longer owned them

gwVars   == <<gpc, gcl, gidx, devi>>
agVars   == <<apc, aslot, uflg>>
thVars   == <<tpc, town, tpxid, tcl>>
clVars   == <<cst, cown>>
histVars == <<leak, dup, orphan, spoilt>>
vars == <<gwVars, devn, slot, agVars, inbox, thVars, path, usr, clVars,
          histVars>>

-----------------------------------------------------------------------------
(* Shared notions.                                                         *)

Alive(a) == apc[a] \notin {"none", "dead"}

LiveThread(t) == tpc[t] # "none"
ThreadsOf(a) == {t \in Thread : town[t] = a /\ LiveThread(t)}

\* The thread has set devn[pxid] and has not yet cleared it.
Marked(t) == tpc[t] \in {"open", "fail", "serve", "fin", "free"}

\* The id is on its way to a thread: no reader of devn can see that.
InInbox(p) == \E a \in Agent : \E i \in DOMAIN inbox[a] : inbox[a][i].pxid = p
InFlight(p) == InInbox(p) \/ \E t \in Thread : tpc[t] = "got" /\ tpxid[t] = p
Held(p) == InFlight(p) \/ \E t \in Thread : Marked(t) /\ tpxid[t] = p

SlotEntry == [used : BOOLEAN, spid : Agent \union {NoAgent},
              sock : Agent \union {NoAgent}, utrd : Int]
EmptySlot == [used |-> FALSE, spid |-> NoAgent, sock |-> NoAgent, utrd |-> 0]

Init ==
  /\ gpc = "idle" /\ gcl = NoClient /\ gidx = 0
  /\ devi = 0
  /\ devn = [p \in Pxid |-> FALSE]
  /\ slot = [s \in Slots |-> EmptySlot]
  /\ apc = [a \in Agent |-> "none"]
  /\ aslot = [a \in Agent |-> 0]
  /\ uflg = [a \in Agent |-> FALSE]
  /\ inbox = [a \in Agent |-> <<>>]
  /\ tpc = [t \in Thread |-> "none"]
  /\ town = [t \in Thread |-> NoAgent]
  /\ tpxid = [t \in Thread |-> 0]
  /\ tcl = [t \in Thread |-> NoClient]
  /\ path = [p \in Pxid |-> NoThread]
  /\ usr = [p \in Pxid |-> FALSE]
  /\ cst = [c \in Client |-> "new"]
  /\ cown = [c \in Client |-> NoAgent]
  /\ leak = [a \in Agent |-> 0]
  /\ dup = {}
  /\ orphan = {}
  /\ spoilt = {}

-----------------------------------------------------------------------------
(* The gateway: exec_sca, one call per accepted connection.                *)

\* The first element of S in the order of a scan, if S has one.
First(S) == {x \in S : \A y \in S : x <= y}

RoomySlots == {s \in Slots : slot[s].used /\ slot[s].utrd < NTrd}
OffSlots   == {s \in Slots : ~slot[s].used}

\* The gateway closes its descriptor of the connection.  An agent forked for
\* this connection inherited a copy, so the client may stay connected.
Dropped(c) ==
  IF cown[c] # NoAgent /\ Alive(cown[c]) THEN "lingering" ELSE "closed"

GatewayDone ==
  /\ gpc' = "idle" /\ gcl' = NoClient /\ gidx' = 0

\* chck_empty_thread returns the first slot in use with room.
GatewayAccept(c) ==
  /\ gpc = "idle" /\ cst[c] = "new"
  /\ gpc' = "pick" /\ gcl' = c
  /\ \E s \in First(RoomySlots) : gidx' = s
  /\ cst' = [cst EXCEPT ![c] = "held"]
  /\ UNCHANGED <<devi, devn, slot, agVars, inbox, thVars, path, usr, cown,
                 histVars>>

\* chck_empty_thread returns -2: the connection is dropped.
GatewayFull(c) ==
  /\ gpc = "idle" /\ cst[c] = "new"
  /\ RoomySlots = {} /\ OffSlots = {}
  /\ cst' = [cst EXCEPT ![c] = "closed"]
  /\ UNCHANGED <<gwVars, devn, slot, agVars, inbox, thVars, path, usr, cown,
                 histVars>>

\* chck_empty_thread returns -1 and _exec_sca forks; the new process inherits
\* the descriptor of the connection.
GatewayFork(c, a) ==
  /\ gpc = "idle" /\ cst[c] = "new"
  /\ RoomySlots = {} /\ OffSlots # {}
  /\ apc[a] = "none"
  /\ apc' = [apc EXCEPT ![a] = "boot"]
  /\ gpc' = "forked" /\ gcl' = c /\ gidx' = 0
  /\ cst' = [cst EXCEPT ![c] = "held"]
  /\ cown' = [cown EXCEPT ![c] = a]
  /\ UNCHANGED <<devi, devn, slot, aslot, uflg, inbox, thVars, path, usr,
                 histVars>>

\* socketpair or fork fails: _exec_sca returns -1 and the client is dropped.
GatewayForkFails(c) ==
  /\ gpc = "idle" /\ cst[c] = "new"
  /\ RoomySlots = {} /\ OffSlots # {}
  /\ cst' = [cst EXCEPT ![c] = "closed"]
  /\ UNCHANGED <<gwVars, devn, slot, agVars, inbox, thVars, path, usr, cown,
                 histVars>>

\* The parent branch of _exec_sca enters the child in the first slot not in
\* use; it does not touch utrd.  The child may already have looked for itself.
GatewayRecord ==
  /\ gpc = "forked"
  /\ \E s \in First(OffSlots) :
       /\ slot' = [slot EXCEPT ![s].used = TRUE,
                               ![s].spid = cown[gcl],
                               ![s].sock = cown[gcl]]
       /\ gidx' = s
  /\ gpc' = "pick"
  /\ UNCHANGED <<gcl, devi, devn, agVars, inbox, thVars, path, usr, clVars,
                 histVars>>

\* exec_sca probes devi, devi+1, devi+1+2, ...: the local index accumulates.
Probe(d, i) == (d + ((i * (i + 1)) \div 2)) % MaxDevn
FreeProbes == {i \in 0 .. MaxDevn - 1 : ~devn[Probe(devi, i) + 1]}

CursorFree == ~devn[devi + 1]

AdvanceNoWrap(d) == d + 1
Advance(d) == IF d + 1 >= MaxDevn THEN 0 ELSE d + 1

\* The ids whose history of double hand-out is over or begins with this pick.
DupAfter(p) ==
  IF InFlight(p) THEN dup \union {p} ELSE IF Held(p) THEN dup ELSE dup \ {p}

\* pxsndfd on the slot's socket.  Its result is ignored and the gateway closes
\* its copy of the descriptor: if the agent is gone the connection is lost.
HandOver(p) ==
  LET a == slot[gidx].sock
  IN  /\ GatewayDone
      /\ dup' = DupAfter(p)
      /\ IF a # NoAgent /\ Alive(a)
         THEN /\ inbox' = [inbox EXCEPT ![a] =
                             Append(@, [pxid |-> p, cl |-> gcl])]
              /\ cst' = [cst EXCEPT ![gcl] = "queued"]
              /\ cown' = [cown EXCEPT ![gcl] = a]
         ELSE /\ cst' = [cst EXCEPT ![gcl] = Dropped(gcl)]
              /\ UNCHANGED <<inbox, cown>>

\* The id under the cursor is free: take it and advance the cursor.
GatewayPickCursor ==
  /\ gpc = "pick" /\ CursorFree
  /\ HandOver(devi + 1)
  /\ devi' = Advance(devi)
  /\ UNCHANGED <<devn, slot, agVars, thVars, path, usr, leak, orphan,
                 spoilt>>

\* It is not: take the first free id of the probe sequence, cursor unmoved.
GatewayPickScan ==
  /\ gpc = "pick" /\ ~CursorFree
  /\ \E i \in First(FreeProbes) : HandOver(Probe(devi, i) + 1)
  /\ UNCHANGED <<devi, devn, slot, agVars, thVars, path, usr, leak, orphan,
                 spoilt>>

\* No probe found a free id: exec_sca returns -1, the connection is dropped.
GatewayNoPxid ==
  /\ gpc = "pick" /\ ~CursorFree /\ FreeProbes = {}
  /\ GatewayDone
  /\ cst' = [cst EXCEPT ![gcl] = Dropped(gcl)]
  /\ UNCHANGED <<devi, devn, slot, agVars, inbox, thVars, path, usr, cown,
                 histVars>>

Gateway ==
  \/ \E c \in Client :
       \/ GatewayAccept(c)
       \/ GatewayFull(c)
       \/ GatewayForkFails(c)
       \/ \E a \in Agent : GatewayFork(c, a)
  \/ GatewayRecord
  \/ GatewayPickCursor
  \/ GatewayPickScan
  \/ GatewayNoPxid

-----------------------------------------------------------------------------
(* The main thread of an agent.                                            *)

OwnSlots(a) == {s \in Slots : slot[s].used /\ slot[s].spid = a}
Utrd(a) == slot[aslot[a]].utrd

\* The process is gone: its threads vanish where they are, its end of the
\* socketpair and its descriptors close, and the names its threads had bound
\* outlive them, except those in gone, which it unlinked first.
ProcessGone(a, gone) ==
  LET lost == {tpxid[t] : t \in {u \in ThreadsOf(a) : Marked(u)}}
  IN  /\ apc' = [apc EXCEPT ![a] = "dead"]
      /\ inbox' = [inbox EXCEPT ![a] = <<>>]
      /\ tpc' = [t \in Thread |-> IF town[t] = a THEN "none" ELSE tpc[t]]
      /\ path' = [p \in Pxid |->
                    IF p \in gone THEN NoThread
                    ELSE IF path[p] \in Thread /\ town[path[p]] = a
                         THEN Stale ELSE path[p]]
      /\ cst' = [c \in Client |->
                   IF cown[c] = a /\ cst[c] \in {"queued", "session", "lingering"}
                   THEN "closed" ELSE cst[c]]
      /\ orphan' = orphan \union lost

\* main finds the slot that holds its own pid and resets its thread count.
AgentAttach(a) ==
  /\ apc[a] = "boot"
  /\ \E s \in First(OwnSlots(a)) :
       /\ aslot' = [aslot EXCEPT ![a] = s]
       /\ slot' = [slot EXCEPT ![s].utrd = 0]
  /\ apc' = [apc EXCEPT ![a] = "top"]
  /\ UNCHANGED <<gwVars, devn, uflg, inbox, thVars, path, usr, clVars, histVars>>

\* Three looks, a millisecond apart, before the gateway recorded it: exit.
AgentGiveUp(a) ==
  /\ apc[a] = "boot" /\ OwnSlots(a) = {}
  /\ ProcessGone(a, {})
  /\ UNCHANGED <<gwVars, devn, slot, aslot, uflg, town, tpxid, tcl, usr, cown,
                 leak, dup, spoilt>>

\* execl failed: the child clears the slot if it is already recorded.
AgentExecFails(a) ==
  /\ apc[a] = "boot"
  /\ slot' = [s \in Slots |->
                 IF s \in First({r \in Slots : slot[r].spid = a})
                 THEN [slot[s] EXCEPT !.used = FALSE, !.spid = NoAgent]
                 ELSE slot[s]]
  /\ ProcessGone(a, {})
  /\ UNCHANGED <<gwVars, devn, aslot, uflg, town, tpxid, tcl, usr, cown, leak,
                 dup, spoilt>>

\* Wrong variant: an off-by-one in the test against ntrd.
AgentTopOneMore(a) ==
  /\ apc[a] = "top"
  /\ ~(uflg[a] /\ Utrd(a) = 0)
  /\ uflg' = [uflg EXCEPT ![a] = @ \/ Utrd(a) > 0]
  /\ apc' = IF Utrd(a) <= NTrd THEN [apc EXCEPT ![a] = "select"] ELSE apc
  /\ UNCHANGED <<gwVars, devn, slot, aslot, inbox, thVars, path, usr, clVars,
                 histVars>>

\* The top of the loop: the agent notes that it has had a thread, and waits for
\* the next descriptor, or, with all threads in use, sleeps and looks again.
AgentTop(a) ==
  /\ apc[a] = "top"
  /\ ~(uflg[a] /\ Utrd(a) = 0)
  /\ uflg' = [uflg EXCEPT ![a] = @ \/ Utrd(a) > 0]
  /\ apc' = IF Utrd(a) < NTrd THEN [apc EXCEPT ![a] = "select"] ELSE apc
  /\ UNCHANGED <<gwVars, devn, slot, aslot, inbox, thVars, path, usr, clVars,
                 histVars>>

\* Wrong variant: leaves when nothing is queued, without looking at utrd.
AgentLeaveWhenQuiet(a) ==
  /\ apc[a] = "top"
  /\ uflg[a] /\ inbox[a] = <<>>
  /\ slot' = [slot EXCEPT ![aslot[a]].used = FALSE]
  /\ apc' = [apc EXCEPT ![a] = "left"]
  /\ UNCHANGED <<gwVars, devn, aslot, uflg, inbox, thVars, path, usr, clVars,
                 histVars>>

\* It had sessions and has none now: it releases its slot ...
AgentLeave(a) ==
  /\ apc[a] = "top"
  /\ uflg[a] /\ Utrd(a) = 0
  /\ slot' = [slot EXCEPT ![aslot[a]].used = FALSE]
  /\ apc' = [apc EXCEPT ![a] = "left"]
  /\ UNCHANGED <<gwVars, devn, aslot, uflg, inbox, thVars, path, usr, clVars,
                 histVars>>

\* ... then unlinks the names of sessions it still runs, and exits.
MyprocUsr(a) == {tpxid[t] : t \in {u \in ThreadsOf(a) : tpc[u] = "serve"}}

AgentExit(a) ==
  /\ apc[a] = "left"
  /\ ProcessGone(a, MyprocUsr(a))
  /\ UNCHANGED <<gwVars, devn, slot, aslot, uflg, town, tpxid, tcl, usr, cown,
                 leak, dup, spoilt>>

\* select times out with nothing to read.
AgentSelectTimeout(a) ==
  /\ apc[a] = "select" /\ inbox[a] = <<>>
  /\ apc' = [apc EXCEPT ![a] = "top"]
  /\ UNCHANGED <<gwVars, devn, slot, aslot, uflg, inbox, thVars, path, usr,
                 clVars, histVars>>

\* addutrd, pthread_create and the 10 ms pause.  The descriptor may still be
\* on the socketpair when the loop comes round, so one descriptor can start
\* several threads.
AgentSpawn(a, t) ==
  /\ apc[a] = "select" /\ inbox[a] # <<>>
  /\ tpc[t] = "none"
  /\ slot' = [slot EXCEPT ![aslot[a]].utrd = @ + 1]
  /\ tpc' = [tpc EXCEPT ![t] = "recv"]
  /\ town' = [town EXCEPT ![t] = a]
  /\ apc' = [apc EXCEPT ![a] = "top"]
  /\ UNCHANGED <<gwVars, devn, aslot, uflg, inbox, tpxid, tcl, path, usr,
                 clVars, histVars>>

\* pthread_create reports failure with a positive number, main tests for a
\* negative one: the thread is counted though there is none.
AgentSpawnFails(a) ==
  /\ CreateFails
  /\ apc[a] = "select" /\ inbox[a] # <<>>
  /\ slot' = [slot EXCEPT ![aslot[a]].utrd = @ + 1]
  /\ leak' = [leak EXCEPT ![a] = @ + 1]
  /\ apc' = [apc EXCEPT ![a] = "top"]
  /\ UNCHANGED <<gwVars, devn, aslot, uflg, inbox, thVars, path, usr, clVars,
                 dup, orphan, spoilt>>

\* SIGTERM: sig_exit clears the slot but neither devn nor the queue names.
\* A process on its way out has released the slot, and the gateway may have
\* given it to the next agent: sig_exit clears it all the same.
AgentTerm(a) ==
  /\ a \in Mortal /\ apc[a] \in {"top", "select", "left"}
  /\ slot' = [slot EXCEPT ![aslot[a]] = EmptySlot]
  /\ spoilt' = IF slot[aslot[a]].used /\ slot[aslot[a]].spid # a
               THEN spoilt \union {aslot[a]} ELSE spoilt
  /\ ProcessGone(a, {})
  /\ UNCHANGED <<gwVars, devn, aslot, uflg, town, tpxid, tcl, usr, cown, leak,
                 dup>>

\* SIGKILL or a fault: nothing is cleared.
AgentCrash(a) ==
  /\ a \in Mortal /\ Alive(a)
  /\ ProcessGone(a, {})
  /\ UNCHANGED <<gwVars, devn, slot, aslot, uflg, town, tpxid, tcl, usr, cown,
                 leak, dup, spoilt>>

AgentStep(a) ==
  \/ AgentAttach(a) \/ AgentGiveUp(a) \/ AgentExecFails(a)
  \/ AgentTop(a) \/ AgentLeave(a) \/ AgentExit(a)
  \/ AgentSelectTimeout(a) \/ AgentSpawnFails(a)
  \/ \E t \in Thread : AgentSpawn(a, t)
  \/ AgentTerm(a) \/ AgentCrash(a)

-----------------------------------------------------------------------------
(* A session thread: exec_thread.                                          *)

Goto(t, from, to) ==
  /\ tpc[t] = from
  /\ tpc' = [tpc EXCEPT ![t] = to]

\* pxrcvfd takes the next descriptor, whichever thread gets there first.
ThreadReceive(t) ==
  LET a == town[t]
  IN  /\ Goto(t, "recv", "got")
      /\ inbox[a] # <<>>
      /\ tpxid' = [tpxid EXCEPT ![t] = Head(inbox[a]).pxid]
      /\ tcl' = [tcl EXCEPT ![t] = Head(inbox[a]).cl]
      /\ inbox' = [inbox EXCEPT ![a] = Tail(@)]
      /\ cst' = [cst EXCEPT ![Head(inbox[a]).cl] = "session"]
      /\ UNCHANGED <<gwVars, devn, slot, agVars, town, path, usr, cown, histVars>>

\* Wrong variant: the id is not marked busy.
ThreadMarkNothing(t) ==
  /\ Goto(t, "got", "open")
  /\ path' = [path EXCEPT ![tpxid[t]] = NoThread]
  /\ UNCHANGED <<gwVars, devn, slot, agVars, inbox, town, tpxid, tcl, usr,
                 clVars, histVars>>

\* devn[pxid] = SET_ON, then the old queue name is removed.
ThreadMark(t) ==
  /\ Goto(t, "got", "open")
  /\ devn' = [devn EXCEPT ![tpxid[t]] = TRUE]
  /\ path' = [path EXCEPT ![tpxid[t]] = NoThread]
  /\ UNCHANGED <<gwVars, slot, agVars, inbox, town, tpxid, tcl, usr, clVars,
                 histVars>>

\* pxopen binds the name; the user entry is filled in.
ThreadOpen(t) ==
  /\ Goto(t, "open", "serve")
  /\ path[tpxid[t]] = NoThread
  /\ path' = [path EXCEPT ![tpxid[t]] = t]
  /\ usr' = [usr EXCEPT ![tpxid[t]] = TRUE]
  /\ UNCHANGED <<gwVars, devn, slot, agVars, inbox, town, tpxid, tcl, clVars,
                 histVars>>

\* pxopen fails, on a name already bound or for want of a socket, and removes
\* the name, whoever bound it.
ThreadOpenFails(t) ==
  /\ Goto(t, "open", "fail")
  /\ path' = [path EXCEPT ![tpxid[t]] = NoThread]
  /\ UNCHANGED <<gwVars, devn, slot, agVars, inbox, town, tpxid, tcl, usr,
                 clVars, histVars>>

\* Wrong variant: the id is given back before the queue is closed.
ThreadEndFreesFirst(t) ==
  /\ Goto(t, "serve", "fin")
  /\ usr' = [usr EXCEPT ![tpxid[t]] = FALSE]
  /\ devn' = [devn EXCEPT ![tpxid[t]] = FALSE]
  /\ \E end \in {"lingering", "closed"} : cst' = [cst EXCEPT ![tcl[t]] = end]
  /\ UNCHANGED <<gwVars, slot, agVars, inbox, town, tpxid, tcl, path, cown,
                 histVars>>

\* The serving loop ends: the client left or logged off, a poll went
\* unanswered, a read or write failed.  The socket is closed only after a
\* format error; otherwise it stays open until the agent exits.
ThreadEnd(t) ==
  /\ Goto(t, "serve", "fin")
  /\ usr' = [usr EXCEPT ![tpxid[t]] = FALSE]
  /\ \E end \in {"lingering", "closed"} : cst' = [cst EXCEPT ![tcl[t]] = end]
  /\ UNCHANGED <<gwVars, devn, slot, agVars, inbox, town, tpxid, tcl, path,
                 cown, histVars>>

\* Wrong variant: pxclose without its unlink.
ThreadCloseKeepsName(t) ==
  /\ Goto(t, "fin", "free")
  /\ UNCHANGED <<gwVars, devn, slot, agVars, inbox, town, tpxid, tcl, path, usr,
                 clVars, histVars>>

\* pxclose removes the name, whoever bound it.
ThreadClose(t) ==
  /\ Goto(t, "fin", "free")
  /\ path' = [path EXCEPT ![tpxid[t]] = NoThread]
  /\ UNCHANGED <<gwVars, devn, slot, agVars, inbox, town, tpxid, tcl, usr,
                 clVars, histVars>>

\* Wrong variants: after a failed pxopen, devn stays set; or delutrd is missed.
ThreadFreeKeepsDevn(t) ==
  /\ tpc[t] \in {"free", "fail"}
  /\ tpc' = [tpc EXCEPT ![t] = "dec"]
  /\ devn' = [devn EXCEPT ![tpxid[t]] = @ /\ tpc[t] = "fail"]
  /\ cst' = [cst EXCEPT ![tcl[t]] = IF tpc[t] = "fail" THEN "lingering" ELSE @]
  /\ UNCHANGED <<gwVars, slot, agVars, inbox, town, tpxid, tcl, path, usr, cown,
                 histVars>>

ThreadFreeSkipsDelutrd(t) ==
  /\ tpc[t] \in {"free", "fail"}
  /\ tpc' = [tpc EXCEPT ![t] = IF @ = "fail" THEN "none" ELSE "dec"]
  /\ devn' = [devn EXCEPT ![tpxid[t]] = FALSE]
  /\ cst' = [cst EXCEPT ![tcl[t]] = IF tpc[t] = "fail" THEN "lingering" ELSE @]
  /\ UNCHANGED <<gwVars, slot, agVars, inbox, town, tpxid, tcl, path, usr, cown,
                 histVars>>

\* devn[pxid] = SET_OFF, after pxclose or after a failed pxopen.
ThreadFree(t) ==
  /\ tpc[t] \in {"free", "fail"}
  /\ tpc' = [tpc EXCEPT ![t] = "dec"]
  /\ devn' = [devn EXCEPT ![tpxid[t]] = FALSE]
  /\ cst' = [cst EXCEPT ![tcl[t]] = IF tpc[t] = "fail" THEN "lingering" ELSE @]
  /\ UNCHANGED <<gwVars, slot, agVars, inbox, town, tpxid, tcl, path, usr, cown,
                 histVars>>

\* Wrong variant: pthread_exit without delutrd.
ThreadExitUncounted(t) ==
  /\ Goto(t, "dec", "none")
  /\ UNCHANGED <<gwVars, devn, slot, agVars, inbox, town, tpxid, tcl, path, usr,
                 clVars, histVars>>

\* delutrd and pthread_exit.
ThreadExit(t) ==
  /\ Goto(t, "dec", "none")
  /\ slot' = [slot EXCEPT ![aslot[town[t]]].utrd = @ - 1]
  /\ UNCHANGED <<gwVars, devn, agVars, inbox, town, tpxid, tcl, path, usr,
                 clVars, histVars>>

ThreadStep(t) ==
  \/ ThreadReceive(t) \/ ThreadMark(t) \/ ThreadOpen(t) \/ ThreadOpenFails(t)
  \/ ThreadEnd(t) \/ ThreadClose(t) \/ ThreadFree(t) \/ ThreadExit(t)

-----------------------------------------------------------------------------
Next ==
  \/ Gateway
  \/ \E a \in Agent : AgentStep(a)
  \/ \E t \in Thread : ThreadStep(t)

Spec == Init /\ [][Next]_vars

-----------------------------------------------------------------------------
(* Properties.                                                             *)

InboxEntry == [pxid : Pxid, cl : Client]

\* Every variable has its type.
TypeOK ==
  /\ gpc \in {"idle", "forked", "pick"}
  /\ gcl \in Client \union {NoClient}
  /\ gidx \in Slots \union {0}
  /\ devi \in 0 .. MaxDevn - 1
  /\ devn \in [Pxid -> BOOLEAN]
  /\ slot \in [Slots -> SlotEntry]
  /\ apc \in [Agent -> {"none", "boot", "top", "select", "left", "dead"}]
  /\ aslot \in [Agent -> Slots \union {0}]
  /\ uflg \in [Agent -> BOOLEAN]
  /\ inbox \in [Agent -> Seq(InboxEntry)]
  /\ tpc \in [Thread -> {"none", "recv", "got", "open", "fail", "serve", "fin",
                         "free", "dec"}]
  /\ town \in [Thread -> Agent \union {NoAgent}]
  /\ tpxid \in [Thread -> Pxid \union {0}]
  /\ tcl \in [Thread -> Client \union {NoClient}]
  /\ path \in [Pxid -> Thread \union {NoThread, Stale}]
  /\ usr \in [Pxid -> BOOLEAN]
  /\ cst \in [Client -> {"new", "held", "queued", "session", "lingering",
                         "closed"}]
  /\ cown \in [Client -> Agent \union {NoAgent}]
  /\ leak \in [Agent -> Nat]
  /\ dup \subseteq Pxid
  /\ orphan \subseteq Pxid
  /\ spoilt \subseteq Slots

Working(a) == apc[a] \in {"top", "select"}

\* scamng.utrd counts the agent's threads, and nothing else but creations that
\* failed, whatever the slot held before the agent took it over.
UtrdExact ==
  \A a \in Agent :
    Working(a) /\ aslot[a] \notin spoilt =>
      Utrd(a) = Cardinality(ThreadsOf(a)) + leak[a]

\* An agent never counts more threads than ntrd: the branch of main that logs
\* "utrd OVER" is dead code, although the gateway may queue more descriptors.
NeverOver ==
  \A a \in Agent : Working(a) /\ aslot[a] \notin spoilt => Utrd(a) <= NTrd

\* An agent that leaves its loop takes no session with it.
NoSessionAbandoned ==
  \A a \in Agent :
    apc[a] = "left" /\ aslot[a] \notin spoilt => ThreadsOf(a) = {}

\* An id is marked busy only while a thread works for it, unless its agent was
\* killed: no other path through exec_thread leaves devn set behind it.
BusyHasSession ==
  \A p \in Pxid :
    devn[p] => p \in orphan \/ \E t \in Thread : Marked(t) /\ tpxid[t] = p

\* Once nobody holds an id any more, nothing of its last session is left: the
\* queue name is gone and the user entry is off.
CleanWhenUnheld ==
  \A p \in Pxid :
    ~Held(p) /\ p \notin orphan => path[p] = NoThread /\ ~usr[p]

InboxPlaces(p) ==
  {e \in UNION {{a} \X DOMAIN inbox[a] : a \in Agent} :
     inbox[e[1]][e[2]].pxid = p}
HoldingThreads(p) ==
  {t \in Thread : (tpc[t] = "got" \/ Marked(t)) /\ tpxid[t] = p}

\* The only way two sessions come to share an id is that the gateway chose it
\* while an earlier hand-over of it was in flight.  Otherwise an id has one
\* holder, and a session in service owns its devn, its queue and its user entry.
SoleOwner ==
  \A p \in Pxid \ dup :
    /\ \A x, y \in InboxPlaces(p) : x = y
    /\ \A t, u \in HoldingThreads(p) : t = u
    /\ InboxPlaces(p) = {} \/ HoldingThreads(p) = {}
    /\ \A t \in Thread :
         tpc[t] = "serve" /\ tpxid[t] = p => devn[p] /\ usr[p] /\ path[p] = t

\* What PnoxClients calls: who is served, who is done with, whom an id reaches.
Serving == {t \in Thread : tpc[t] = "serve"}
Under == {<<tcl[t], tpxid[t]>> : t \in Serving}
Over == {c \in Client : cst[c] \in {"lingering", "closed"}}
Reach == [p \in Pxid |-> IF path[p] \in Serving THEN tcl[path[p]] ELSE NoClient]

Clients == INSTANCE PnoxClients WITH
  under <- Under, over <- Over, reach <- Reach, shared <- dup

\* Gateway, agents and threads together keep what PnoxClients promises: a client
\* is served under one id that nobody else has, its queue name leads to it from
\* pxopen to the end of its session, and when it is done with, it stays so.
ClientsPromise == Clients!Spec

\* A connection passed to an agent is taken up by a thread or closed in the end,
\* though the agent may have promised more than ntrd: it is not left on the
\* socketpair, unless ntrd thread creations of the agent have failed, which
\* count as threads for ever, or SIGTERM to another process cleared its slot.
\* That the connection of a full or vanished agent is closed without a word to
\* the client is not excluded.
QueuedResolved ==
  <>[](\A c \in Client :
         cst[c] = "queued" => leak[cown[c]] >= NTrd \/ aslot[cown[c]] \in spoilt)


\* pxmon.h says of scamng.used "1:use, 0:not": a slot in use has a process.
UsedSlotHasProcess ==
  \A s \in Slots : slot[s].used => Alive(slot[s].spid)
=============================================================================
