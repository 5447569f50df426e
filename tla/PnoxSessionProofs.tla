------------------------- MODULE PnoxSessionProofs -------------------------
(***************************************************************************)
(* Theorems about PnoxSession, for every number of ids, slots, agents,     *)
(* threads and clients: the counts agents keep, what an id leaves behind,  *)
(* that an id has one holder and a client is in one place, and so that the *)
(* system of gateway, agents and threads implements PnoxClients; then what *)
(* the search for an id finds.  The last part is about PnoxRestart, where  *)
(* the gateway may die.                                                    *)
(***************************************************************************)
EXTENDS PnoxRestart, FiniteSetTheorems, WellFoundedInduction, TLAPS

\* What the program counters say of the other variables.
Shape ==
  /\ gpc # "idle" => gcl \in Client
  /\ gpc = "forked" => cown[gcl] \in Agent
  /\ gpc = "pick" => gidx \in Slots
  /\ \A a \in Agent : apc[a] \in {"top", "select", "left"} => aslot[a] \in Slots
  /\ \A t \in Thread :
       /\ tpc[t] # "none" => town[t] \in Agent
       /\ tpc[t] \notin {"none", "recv"} => tpxid[t] \in Pxid /\ tcl[t] \in Client

TypeInv == TypeOK /\ Shape

LEMMA ProbeType ==
  ASSUME NEW d \in 0 .. MaxDevn - 1, NEW i \in 0 .. MaxDevn - 1
  PROVE  Probe(d, i) + 1 \in Pxid
<1> DEFINE k == (i * (i + 1)) \div 2
<1>1. k \in Int
  BY SMT
<1>2. MaxDevn \in Nat /\ MaxDevn > 0
  BY SizeAssumption
<1> HIDE DEF k
<1>3. (d + k) % MaxDevn \in 0 .. MaxDevn - 1
  BY <1>1, <1>2, SMT
<1>4. Probe(d, i) = (d + k) % MaxDevn
  BY DEF Probe, k
<1> QED
  BY <1>2, <1>3, <1>4 DEF Pxid

\* The updates of a slot keep its type.
LEMMA SlotEntryUpdate ==
  ASSUME NEW r \in SlotEntry, NEW a \in Agent
  PROVE  [r EXCEPT !.used = TRUE, !.spid = a, !.sock = a] \in SlotEntry
BY DEF SlotEntry

LEMMA SlotUtrdType ==
  ASSUME slot \in [Slots -> SlotEntry], NEW s,
         \/ slot' = [slot EXCEPT ![s].utrd = 0]
         \/ slot' = [slot EXCEPT ![s].utrd = @ + 1]
         \/ slot' = [slot EXCEPT ![s].utrd = @ - 1]
  PROVE  slot' \in [Slots -> SlotEntry]
<1>1. CASE s \notin Slots
  BY <1>1
<1>2. CASE s \in Slots
  <2>1. \/ slot' = [slot EXCEPT ![s] = [slot[s] EXCEPT !.utrd = 0]]
        \/ slot' = [slot EXCEPT ![s] = [slot[s] EXCEPT !.utrd = @ + 1]]
        \/ slot' = [slot EXCEPT ![s] = [slot[s] EXCEPT !.utrd = @ - 1]]
    BY <1>2
  <2>2. /\ [slot[s] EXCEPT !.utrd = 0] \in SlotEntry
        /\ [slot[s] EXCEPT !.utrd = @ + 1] \in SlotEntry
        /\ [slot[s] EXCEPT !.utrd = @ - 1] \in SlotEntry
    BY <1>2 DEF SlotEntry
  <2> QED
    BY <2>1, <2>2
<1> QED
  BY <1>1, <1>2

LEMMA SlotUsedType ==
  ASSUME slot \in [Slots -> SlotEntry], NEW s, slot' = [slot EXCEPT ![s].used = FALSE]
  PROVE  slot' \in [Slots -> SlotEntry]
BY DEF SlotEntry

LEMMA SlotClearType ==
  ASSUME slot \in [Slots -> SlotEntry], NEW S,
         slot' = [s \in Slots |->
                    IF s \in S THEN [slot[s] EXCEPT !.used = FALSE, !.spid = NoAgent]
                    ELSE slot[s]]
  PROVE  slot' \in [Slots -> SlotEntry]
<1>1. \A s \in Slots : [slot[s] EXCEPT !.used = FALSE, !.spid = NoAgent] \in SlotEntry
  BY DEF SlotEntry
<1> QED
  BY <1>1

\* A process that ends leaves the types alone, whatever became of its slot.
LEMMA ProcessGoneShape ==
  ASSUME TypeInv, NEW a \in Agent, NEW gone, ProcessGone(a, gone),
         slot' \in [Slots -> SlotEntry], spoilt' \subseteq Slots,
         UNCHANGED <<gwVars, devn, aslot, uflg, town, tpxid, tcl, usr, cown, leak,
                     dup>>
  PROVE  TypeInv'
<1> USE DEF TypeInv, TypeOK, Shape
<1>1. apc' = [apc EXCEPT ![a] = "dead"]
  BY DEF ProcessGone
<1>2. inbox' \in [Agent -> Seq(InboxEntry)]
  BY DEF ProcessGone
<1>3. tpc' = [t \in Thread |-> IF town[t] = a THEN "none" ELSE tpc[t]]
  BY DEF ProcessGone
<1>4. path' \in [Pxid -> Thread \union {NoThread, Stale}]
  BY DEF ProcessGone
<1>5. cst' \in [Client -> {"new", "held", "queued", "session", "lingering", "closed"}]
  BY DEF ProcessGone
<1>6. orphan' \subseteq Pxid
  <2>1. \A t \in Thread : Marked(t) => tpxid[t] \in Pxid
    BY DEF Marked
  <2>2. \A p \in orphan' : p \in orphan \/ \E t \in Thread : Marked(t) /\ p = tpxid[t]
    BY DEF ProcessGone, ThreadsOf
  <2> QED
    BY <2>1, <2>2
<1> QED
  BY <1>1, <1>2, <1>3, <1>4, <1>5, <1>6 DEF gwVars

LEMMA HandOverType ==
  ASSUME TypeInv, gpc = "pick", NEW p \in Pxid, HandOver(p)
  PROVE  /\ gpc' = "idle" /\ gcl' = NoClient /\ gidx' = 0
         /\ dup' \subseteq Pxid
         /\ inbox' \in [Agent -> Seq(InboxEntry)]
         /\ cst' \in [Client -> {"new", "held", "queued", "session",
                                 "lingering", "closed"}]
         /\ cown' \in [Client -> Agent \union {NoAgent}]
<1> DEFINE a == slot[gidx].sock
           e == [pxid |-> p, cl |-> gcl]
<1>1. gcl \in Client /\ gidx \in Slots
  BY DEF TypeInv, Shape
<1>2. a \in Agent \union {NoAgent}
  BY <1>1 DEF TypeInv, TypeOK, SlotEntry
<1>3. e \in InboxEntry
  BY <1>1 DEF InboxEntry
<1>4. gpc' = "idle" /\ gcl' = NoClient /\ gidx' = 0
  BY DEF HandOver, GatewayDone
<1>5. dup' \subseteq Pxid
  BY DEF HandOver, DupAfter, TypeInv, TypeOK
<1>6. CASE a # NoAgent /\ Alive(a)
  <2>1. inbox' = [inbox EXCEPT ![a] = Append(@, e)]
    BY <1>6 DEF HandOver
  <2>2. inbox' \in [Agent -> Seq(InboxEntry)]
    BY <1>2, <1>3, <1>6, <2>1 DEF TypeInv, TypeOK
  <2> QED
    BY <1>1, <1>2, <1>4, <1>5, <1>6, <2>2 DEF HandOver, TypeInv, TypeOK
<1>7. CASE ~(a # NoAgent /\ Alive(a))
  BY <1>1, <1>4, <1>5, <1>7 DEF HandOver, Dropped, TypeInv, TypeOK
<1> QED
  BY <1>6, <1>7

LEMMA InitType == Init => TypeInv
BY SizeAssumption
   DEF Init, TypeInv, TypeOK, Shape, EmptySlot, SlotEntry, Slots, Pxid, InboxEntry

LEMMA GatewayType == ASSUME TypeInv, Gateway PROVE TypeInv'
<1> USE SizeAssumption DEF TypeInv, TypeOK, Shape
<1>1. ASSUME NEW c \in Client, GatewayAccept(c) PROVE TypeInv'
  BY <1>1 DEF GatewayAccept, First, RoomySlots, agVars, thVars, histVars
<1>2. ASSUME NEW c \in Client, GatewayFull(c) PROVE TypeInv'
  BY <1>2 DEF GatewayFull, gwVars, agVars, thVars, histVars
<1>3. ASSUME NEW c \in Client, GatewayForkFails(c) PROVE TypeInv'
  BY <1>3 DEF GatewayForkFails, gwVars, agVars, thVars, histVars
<1>4. ASSUME NEW c \in Client, NEW a \in Agent, GatewayFork(c, a) PROVE TypeInv'
  BY <1>4 DEF GatewayFork, thVars, histVars
<1>5. ASSUME GatewayRecord PROVE TypeInv'
  <2>1. PICK s \in Slots :
           /\ gidx' = s
           /\ slot' = [slot EXCEPT ![s].used = TRUE, ![s].spid = cown[gcl],
                                  ![s].sock = cown[gcl]]
    BY <1>5 DEF GatewayRecord, First, OffSlots
  <2>2. slot' \in [Slots -> SlotEntry]
    <3>1. cown[gcl] \in Agent
      BY <1>5 DEF GatewayRecord
    <3>2. slot' = [slot EXCEPT ![s] = [slot[s] EXCEPT
             !.used = TRUE, !.spid = cown[gcl], !.sock = cown[gcl]]]
      BY <2>1
    <3>3. [slot[s] EXCEPT !.used = TRUE, !.spid = cown[gcl], !.sock = cown[gcl]]
            \in SlotEntry
      BY <3>1, SlotEntryUpdate
    <3> QED
      BY <3>2, <3>3
  <2> QED
    BY <1>5, <2>1, <2>2
       DEF GatewayRecord, agVars, thVars, clVars, histVars
<1>6. ASSUME GatewayPickCursor PROVE TypeInv'
  <2>1. devi + 1 \in Pxid /\ Advance(devi) \in 0 .. MaxDevn - 1
    BY DEF Pxid, Advance
  <2>2. gcl \in Client /\ gidx \in Slots
    BY <1>6 DEF GatewayPickCursor
  <2> QED
    BY <1>6, <2>1, <2>2, HandOverType
       DEF GatewayPickCursor, agVars, thVars
<1>7. ASSUME GatewayPickScan PROVE TypeInv'
  <2>1. PICK i \in 0 .. MaxDevn - 1 : HandOver(Probe(devi, i) + 1)
    BY <1>7 DEF GatewayPickScan, First, FreeProbes
  <2>2. Probe(devi, i) + 1 \in Pxid
    BY ProbeType
  <2> QED
    BY <1>7, <2>1, <2>2, HandOverType
       DEF GatewayPickScan, agVars, thVars
<1>8. ASSUME GatewayNoPxid PROVE TypeInv'
  BY <1>8 DEF GatewayNoPxid, GatewayDone, Dropped, agVars, thVars, histVars
<1> QED
  BY <1>1, <1>2, <1>3, <1>4, <1>5, <1>6, <1>7, <1>8 DEF Gateway

LEMMA AgentType == ASSUME TypeInv, NEW a \in Agent, AgentStep(a) PROVE TypeInv'
<1> USE SizeAssumption DEF TypeInv, TypeOK, Shape
<1>1. CASE AgentAttach(a)
  <2>1. PICK s \in Slots : /\ aslot' = [aslot EXCEPT ![a] = s]
                           /\ slot' = [slot EXCEPT ![s].utrd = 0]
    BY <1>1 DEF AgentAttach, First, OwnSlots
  <2>2. slot' \in [Slots -> SlotEntry]
    BY <2>1, SlotUtrdType
  <2> QED
    BY <1>1, <2>1, <2>2 DEF AgentAttach, gwVars, thVars, clVars, histVars
<1>2. CASE AgentGiveUp(a)
  BY <1>2, ProcessGoneShape DEF AgentGiveUp
<1>3. CASE AgentExecFails(a)
  <2>1. slot' \in [Slots -> SlotEntry]
    BY <1>3, SlotClearType DEF AgentExecFails
  <2> QED
    BY <1>3, <2>1, ProcessGoneShape DEF AgentExecFails
<1>4. CASE AgentTop(a)
  BY <1>4 DEF AgentTop, gwVars, thVars, clVars, histVars
<1>6. CASE AgentLeave(a)
  <2>1. slot' \in [Slots -> SlotEntry]
    BY <1>6, SlotUsedType DEF AgentLeave
  <2> QED
    BY <1>6, <2>1 DEF AgentLeave, gwVars, thVars, clVars, histVars
<1>7. CASE AgentExit(a)
  BY <1>7, ProcessGoneShape DEF AgentExit
<1>8. CASE AgentSelectTimeout(a)
  BY <1>8 DEF AgentSelectTimeout, gwVars, thVars, clVars, histVars
<1>9. CASE AgentSpawnFails(a)
  <2>1. slot' \in [Slots -> SlotEntry]
    BY <1>9, SlotUtrdType DEF AgentSpawnFails
  <2> QED
    BY <1>9, <2>1 DEF AgentSpawnFails, gwVars, thVars, clVars
<1>10. ASSUME NEW t \in Thread, AgentSpawn(a, t) PROVE TypeInv'
  <2>1. slot' \in [Slots -> SlotEntry]
    BY <1>10, SlotUtrdType DEF AgentSpawn
  <2> QED
    BY <1>10, <2>1 DEF AgentSpawn, gwVars, clVars, histVars
<1>11. CASE AgentTerm(a)
  <2>1. slot' \in [Slots -> SlotEntry]
    BY <1>11 DEF AgentTerm, EmptySlot, SlotEntry
  <2>2. spoilt' \subseteq Slots
    BY <1>11 DEF AgentTerm
  <2> QED
    BY <1>11, <2>1, <2>2, ProcessGoneShape DEF AgentTerm
<1>12. CASE AgentCrash(a)
  BY <1>12, ProcessGoneShape DEF AgentCrash
<1> QED
  BY <1>1, <1>2, <1>3, <1>4, <1>6, <1>7, <1>8, <1>9, <1>10, <1>11, <1>12
     DEF AgentStep

LEMMA ThreadType == ASSUME TypeInv, NEW t \in Thread, ThreadStep(t) PROVE TypeInv'
<1> USE SizeAssumption DEF TypeInv, TypeOK, Shape, Goto
<1>1. CASE ThreadReceive(t)
  <2> DEFINE a == town[t]
             e == Head(inbox[a])
  <2>1. a \in Agent
    BY <1>1 DEF ThreadReceive
  <2>2. e \in InboxEntry /\ Tail(inbox[a]) \in Seq(InboxEntry)
    BY <1>1, <2>1 DEF ThreadReceive
  <2>3. e.pxid \in Pxid /\ e.cl \in Client
    BY <2>2 DEF InboxEntry
  <2> QED
    BY <1>1, <2>1, <2>2, <2>3 DEF ThreadReceive, gwVars, agVars, histVars
<1>2. CASE ThreadMark(t)
  BY <1>2 DEF ThreadMark, gwVars, agVars, clVars, histVars
<1>3. CASE ThreadOpen(t)
  BY <1>3 DEF ThreadOpen, gwVars, agVars, clVars, histVars
<1>4. CASE ThreadOpenFails(t)
  BY <1>4 DEF ThreadOpenFails, gwVars, agVars, clVars, histVars
<1>5. CASE ThreadEnd(t)
  <2>1. PICK end \in {"lingering", "closed"} : cst' = [cst EXCEPT ![tcl[t]] = end]
    BY <1>5 DEF ThreadEnd
  <2> QED
    BY <1>5, <2>1 DEF ThreadEnd, gwVars, agVars, histVars
<1>6. CASE ThreadClose(t)
  BY <1>6 DEF ThreadClose, gwVars, agVars, clVars, histVars
<1>7. CASE ThreadFree(t)
  BY <1>7 DEF ThreadFree, gwVars, agVars, histVars
<1>8. CASE ThreadExit(t)
  <2>1. slot' \in [Slots -> SlotEntry]
    BY <1>8, SlotUtrdType DEF ThreadExit
  <2> QED
    BY <1>8, <2>1 DEF ThreadExit, gwVars, agVars, clVars, histVars
<1> QED
  BY <1>1, <1>2, <1>3, <1>4, <1>5, <1>6, <1>7, <1>8 DEF ThreadStep

LEMMA NextType == TypeInv /\ [Next]_vars => TypeInv'
<1>1. CASE UNCHANGED vars
  BY <1>1 DEF vars, gwVars, agVars, thVars, clVars, histVars, TypeInv, TypeOK, Shape
<1> QED
  BY <1>1, GatewayType, AgentType, ThreadType DEF Next

\* Every variable keeps its type.
THEOREM Typing == Spec => []TypeOK
<1>1. Init => TypeInv
  BY InitType
<1>2. TypeInv /\ [Next]_vars => TypeInv'
  BY NextType
<1>3. TypeInv => TypeOK
  BY DEF TypeInv
<1> QED
  BY <1>1, <1>2, <1>3, PTL DEF Spec

-----------------------------------------------------------------------------
(* The thread count.  An agent that works in a slot nobody else cleared is   *)
(* the slot's owner, so only its own main thread and its own session threads *)
(* change the count.                                                         *)

Acc(a) ==
  /\ apc[a] \in {"none", "boot"} => leak[a] = 0 /\ ThreadsOf(a) = {}
  /\ Working(a) /\ aslot[a] \notin spoilt =>
       /\ slot[aslot[a]].used /\ slot[aslot[a]].spid = a
       /\ Utrd(a) = Cardinality(ThreadsOf(a)) + leak[a]
       /\ Utrd(a) <= NTrd
       /\ apc[a] = "select" => Utrd(a) < NTrd
  /\ apc[a] = "left" /\ aslot[a] \notin spoilt => ThreadsOf(a) = {}
  /\ apc[a] = "dead" => ThreadsOf(a) = {}

AccInv == \A a \in Agent : Acc(a)

LEMMA ThreadsFinite ==
  ASSUME NEW a
  PROVE  IsFiniteSet(ThreadsOf(a)) /\ Cardinality(ThreadsOf(a)) \in Nat
BY SetAssumption, FS_Subset, FS_CardinalityType DEF ThreadsOf

\* A step that leaves an agent's counter, slot and threads alone keeps Acc.
LEMMA AccKept ==
  ASSUME NEW a \in Agent, Acc(a), spoilt \subseteq spoilt',
         apc'[a] = apc[a], aslot'[a] = aslot[a], leak'[a] = leak[a],
         \A t \in Thread : /\ tpc'[t] = "none" <=> tpc[t] = "none"
                           /\ town'[t] = town[t],
         Working(a) /\ aslot[a] \notin spoilt' => slot'[aslot[a]] = slot[aslot[a]]
  PROVE  Acc(a)'
<1>1. ThreadsOf(a)' = ThreadsOf(a)
  BY DEF ThreadsOf, LiveThread
<1> QED
  BY <1>1 DEF Acc, Working, Utrd

LEMMA GatewayAcc == ASSUME TypeInv, AccInv, Gateway PROVE AccInv'
<1> SUFFICES ASSUME NEW b \in Agent PROVE Acc(b)'
  BY DEF AccInv
<1>0. Acc(b)
  BY DEF AccInv
<1>1. ASSUME NEW c \in Client, GatewayAccept(c) PROVE Acc(b)'
  BY <1>0, <1>1, AccKept DEF GatewayAccept, agVars, thVars, histVars
<1>2. ASSUME NEW c \in Client, GatewayFull(c) PROVE Acc(b)'
  BY <1>0, <1>2, AccKept DEF GatewayFull, agVars, thVars, histVars
<1>3. ASSUME NEW c \in Client, GatewayForkFails(c) PROVE Acc(b)'
  BY <1>0, <1>3, AccKept DEF GatewayForkFails, agVars, thVars, histVars
<1>4. ASSUME NEW c \in Client, NEW a \in Agent, GatewayFork(c, a) PROVE Acc(b)'
  <2>1. CASE a = b
    <3>1. ThreadsOf(b)' = ThreadsOf(b)
      BY <1>4 DEF GatewayFork, thVars, ThreadsOf, LiveThread
    <3> QED
      BY <1>0, <1>4, <2>1, <3>1
         DEF GatewayFork, Acc, Working, histVars, TypeInv, TypeOK
  <2>2. CASE a # b
    BY <1>0, <1>4, <2>2, AccKept DEF GatewayFork, thVars, histVars, TypeInv, TypeOK
  <2> QED
    BY <2>1, <2>2
<1>5. ASSUME GatewayRecord PROVE Acc(b)'
  <2>1. PICK s \in Slots :
           /\ ~slot[s].used
           /\ slot' = [slot EXCEPT ![s].used = TRUE, ![s].spid = cown[gcl],
                                  ![s].sock = cown[gcl]]
    BY <1>5 DEF GatewayRecord, First, OffSlots
  <2>2. Working(b) /\ aslot[b] \notin spoilt => slot'[aslot[b]] = slot[aslot[b]]
    BY <1>0, <2>1 DEF Acc, TypeInv, TypeOK, Shape, Working
  <2> QED
    BY <1>0, <1>5, <2>2, AccKept DEF GatewayRecord, agVars, thVars, histVars
<1>6. CASE GatewayPickCursor
  BY <1>0, <1>6, AccKept DEF GatewayPickCursor, agVars, thVars
<1>7. CASE GatewayPickScan
  BY <1>0, <1>7, AccKept DEF GatewayPickScan, agVars, thVars
<1>8. CASE GatewayNoPxid
  BY <1>0, <1>8, AccKept DEF GatewayNoPxid, agVars, thVars, histVars
<1> QED
  BY <1>1, <1>2, <1>3, <1>4, <1>5, <1>6, <1>7, <1>8 DEF Gateway

\* When a process ends, the counts of the others stay right.
LEMMA ProcessGoneAcc ==
  ASSUME TypeInv, AccInv, NEW a \in Agent, NEW gone, ProcessGone(a, gone),
         spoilt \subseteq spoilt', UNCHANGED <<aslot, town, leak>>,
         \A b \in Agent \ {a} : Working(b) /\ aslot[b] \notin spoilt' =>
            slot'[aslot[b]] = slot[aslot[b]]
  PROVE  AccInv'
<1> SUFFICES ASSUME NEW b \in Agent PROVE Acc(b)'
  BY DEF AccInv
<1>1. CASE b = a
  <2>1. ThreadsOf(b)' = {} /\ apc'[b] = "dead"
    BY <1>1 DEF ProcessGone, ThreadsOf, LiveThread, TypeInv, TypeOK
  <2> QED
    BY <2>1 DEF Acc, Working
<1>2. CASE b # a
  <2>1. ThreadsOf(b)' = ThreadsOf(b)
    BY <1>2 DEF ProcessGone, ThreadsOf, LiveThread, TypeInv, TypeOK
  <2>2. apc'[b] = apc[b]
    BY <1>2 DEF ProcessGone, TypeInv, TypeOK
  <2>3. Acc(b)
    BY DEF AccInv
  <2> QED
    BY <1>2, <2>1, <2>2, <2>3 DEF Acc, Working, Utrd
<1> QED
  BY <1>1, <1>2

\* Two agents at work in slots not spoilt are in different slots.
LEMMA SlotsApart ==
  ASSUME AccInv, NEW a \in Agent, NEW b \in Agent, a # b,
         Working(a), Working(b), aslot[b] \notin spoilt
  PROVE  aslot[a] # aslot[b]
<1>1. Acc(a) /\ Acc(b)
  BY DEF AccInv
<1> QED
  BY <1>1 DEF Acc

LEMMA AgentAcc ==
  ASSUME TypeInv, AccInv, NEW a \in Agent, AgentStep(a) PROVE AccInv'
<1>0. \A b \in Agent : Acc(b)
  BY DEF AccInv
<1>a. \A b \in Agent : apc[b] \in {"top", "select", "left"} => aslot[b] \in Slots
  BY DEF TypeInv, Shape
<1>1. CASE AgentAttach(a)
  <2>1. PICK s \in Slots : /\ slot[s].used /\ slot[s].spid = a
                           /\ aslot' = [aslot EXCEPT ![a] = s]
                           /\ slot' = [slot EXCEPT ![s].utrd = 0]
    BY <1>1 DEF AgentAttach, First, OwnSlots
  <2>2. ThreadsOf(a) = {} /\ leak[a] = 0 /\ ThreadsOf(a)' = ThreadsOf(a)
    BY <1>0, <1>1 DEF AgentAttach, Acc, thVars, ThreadsOf, LiveThread
  <2>3. /\ aslot'[a] = s /\ apc'[a] = "top" /\ leak' = leak
        /\ slot'[s].used /\ slot'[s].spid = a /\ slot'[s].utrd = 0
    BY <1>1, <2>1 DEF AgentAttach, TypeInv, TypeOK, SlotEntry, histVars
  <2>4. Cardinality({}) = 0
    BY FS_EmptySet
  <2>5. Acc(a)'
    BY <2>2, <2>3, <2>4, SizeAssumption DEF Acc, Working, Utrd
  <2>6. ASSUME NEW b \in Agent, b # a PROVE Acc(b)'
    <3>1. Working(b) /\ aslot[b] \notin spoilt => slot'[aslot[b]] = slot[aslot[b]]
      BY <1>0, <2>1, <2>6 DEF Acc
    <3> QED
      BY <1>0, <1>1, <2>1, <2>6, <3>1, AccKept
         DEF AgentAttach, thVars, histVars, TypeInv, TypeOK
  <2> QED
    BY <2>5, <2>6 DEF AccInv
<1>2. CASE AgentGiveUp(a)
  BY <1>2, ProcessGoneAcc DEF AgentGiveUp
<1>3. CASE AgentExecFails(a)
  <2>1. \A b \in Agent \ {a} : Working(b) /\ aslot[b] \notin spoilt =>
           slot'[aslot[b]] = slot[aslot[b]]
    BY <1>0, <1>a, <1>3 DEF AgentExecFails, First, Acc, Working
  <2> QED
    BY <1>3, <2>1, ProcessGoneAcc DEF AgentExecFails
<1>4. CASE AgentTop(a)
  <2>1. ThreadsOf(a)' = ThreadsOf(a)
    BY <1>4 DEF AgentTop, thVars, ThreadsOf, LiveThread
  <2>2. Acc(a)'
    BY <1>0, <1>4, <2>1 DEF AgentTop, Acc, Working, Utrd, histVars, TypeInv, TypeOK
  <2>3. ASSUME NEW b \in Agent, b # a PROVE Acc(b)'
    BY <1>0, <1>4, <2>3, AccKept DEF AgentTop, thVars, histVars, TypeInv, TypeOK
  <2> QED
    BY <2>2, <2>3 DEF AccInv
<1>6. CASE AgentLeave(a)
  <2>1. ThreadsOf(a)' = ThreadsOf(a)
    BY <1>6 DEF AgentLeave, thVars, ThreadsOf, LiveThread
  <2>2. aslot[a] \notin spoilt => ThreadsOf(a) = {}
    <3>1. leak[a] \in Nat
      BY DEF TypeInv, TypeOK
    <3>2. aslot[a] \notin spoilt => Cardinality(ThreadsOf(a)) = 0
      BY <1>0, <1>6, <3>1, ThreadsFinite DEF AgentLeave, Acc, Working
    <3> QED
      BY <3>2, ThreadsFinite, FS_EmptySet
  <2>3. Acc(a)'
    BY <1>6, <2>1, <2>2 DEF AgentLeave, Acc, Working, histVars, TypeInv, TypeOK
  <2>4. ASSUME NEW b \in Agent, b # a PROVE Acc(b)'
    <3>1. Working(b) /\ aslot[b] \notin spoilt => slot'[aslot[b]] = slot[aslot[b]]
      BY <1>6, <2>4, SlotsApart DEF AgentLeave, Working, TypeInv, TypeOK
    <3> QED
      BY <1>0, <1>6, <2>4, <3>1, AccKept
         DEF AgentLeave, thVars, histVars, TypeInv, TypeOK
  <2> QED
    BY <2>3, <2>4 DEF AccInv
<1>7. CASE AgentExit(a)
  BY <1>7, ProcessGoneAcc DEF AgentExit
<1>8. CASE AgentSelectTimeout(a)
  <2>1. ThreadsOf(a)' = ThreadsOf(a)
    BY <1>8 DEF AgentSelectTimeout, thVars, ThreadsOf, LiveThread
  <2>2. Acc(a)'
    BY <1>0, <1>8, <2>1
       DEF AgentSelectTimeout, Acc, Working, Utrd, histVars, TypeInv, TypeOK
  <2>3. ASSUME NEW b \in Agent, b # a PROVE Acc(b)'
    BY <1>0, <1>8, <2>3, AccKept
       DEF AgentSelectTimeout, thVars, histVars, TypeInv, TypeOK
  <2> QED
    BY <2>2, <2>3 DEF AccInv
<1>9. CASE AgentSpawnFails(a)
  <2>1. ThreadsOf(a)' = ThreadsOf(a)
    BY <1>9 DEF AgentSpawnFails, thVars, ThreadsOf, LiveThread
  <2>2. /\ apc'[a] = "top" /\ aslot' = aslot /\ spoilt' = spoilt
        /\ leak'[a] = leak[a] + 1 /\ leak[a] \in Nat
        /\ slot'[aslot[a]].used = slot[aslot[a]].used
        /\ slot'[aslot[a]].spid = slot[aslot[a]].spid
        /\ slot'[aslot[a]].utrd = slot[aslot[a]].utrd + 1
        /\ slot[aslot[a]].utrd \in Int
    BY <1>a, <1>9 DEF AgentSpawnFails, TypeInv, TypeOK, SlotEntry
  <2>3. Acc(a)'
    <3>1. Cardinality(ThreadsOf(a)) \in Nat /\ ThreadsOf(a)' = ThreadsOf(a)
      BY <2>1, ThreadsFinite
    <3>2. Acc(a) /\ apc[a] = "select"
      BY <1>0, <1>9 DEF AgentSpawnFails
    <3> QED
      BY <2>2, <3>1, <3>2, SizeAssumption DEF Acc, Working, Utrd
  <2>4. ASSUME NEW b \in Agent, b # a PROVE Acc(b)'
    <3>1. Working(b) /\ aslot[b] \notin spoilt => slot'[aslot[b]] = slot[aslot[b]]
      BY <1>9, <2>4, SlotsApart DEF AgentSpawnFails, Working, TypeInv, TypeOK
    <3> QED
      BY <1>0, <1>9, <2>4, <3>1, AccKept
         DEF AgentSpawnFails, thVars, TypeInv, TypeOK
  <2> QED
    BY <2>3, <2>4 DEF AccInv
<1>10. ASSUME NEW t \in Thread, AgentSpawn(a, t) PROVE AccInv'
  <2>1. ThreadsOf(a)' = ThreadsOf(a) \union {t} /\ t \notin ThreadsOf(a)
    BY <1>10 DEF AgentSpawn, ThreadsOf, LiveThread, TypeInv, TypeOK
  <2>2. Cardinality(ThreadsOf(a)') = Cardinality(ThreadsOf(a)) + 1
    BY <2>1, ThreadsFinite, FS_AddElement
  <2>3. /\ apc'[a] = "top" /\ aslot' = aslot /\ spoilt' = spoilt
        /\ leak' = leak /\ leak[a] \in Nat
        /\ slot'[aslot[a]].used = slot[aslot[a]].used
        /\ slot'[aslot[a]].spid = slot[aslot[a]].spid
        /\ slot'[aslot[a]].utrd = slot[aslot[a]].utrd + 1
        /\ slot[aslot[a]].utrd \in Int
    BY <1>a, <1>10 DEF AgentSpawn, TypeInv, TypeOK, SlotEntry, histVars
  <2>4. Acc(a)'
    <3>1. Cardinality(ThreadsOf(a)) \in Nat
      BY ThreadsFinite
    <3>2. Acc(a) /\ apc[a] = "select"
      BY <1>0, <1>10 DEF AgentSpawn
    <3> QED
      BY <2>2, <2>3, <3>1, <3>2, SizeAssumption DEF Acc, Working, Utrd
  <2>5. ASSUME NEW b \in Agent, b # a PROVE Acc(b)'
    <3>1. Working(b) /\ aslot[b] \notin spoilt => slot'[aslot[b]] = slot[aslot[b]]
      BY <1>10, <2>5, SlotsApart DEF AgentSpawn, Working, TypeInv, TypeOK
    <3>2. ThreadsOf(b)' = ThreadsOf(b)
      BY <1>10, <2>5 DEF AgentSpawn, ThreadsOf, LiveThread, TypeInv, TypeOK
    <3>3. apc'[b] = apc[b]
      BY <1>10, <2>5 DEF AgentSpawn, TypeInv, TypeOK
    <3> QED
      BY <1>0, <2>3, <3>1, <3>2, <3>3 DEF Acc, Working, Utrd
  <2> QED
    BY <2>4, <2>5 DEF AccInv
<1>11. CASE AgentTerm(a)
  <2>1. \A b \in Agent \ {a} : Working(b) /\ aslot[b] \notin spoilt' =>
           slot'[aslot[b]] = slot[aslot[b]]
    BY <1>0, <1>11 DEF AgentTerm, Acc, TypeInv, TypeOK
  <2>2. spoilt \subseteq spoilt'
    BY <1>11 DEF AgentTerm
  <2> QED
    BY <1>11, <2>1, <2>2, ProcessGoneAcc DEF AgentTerm
<1>12. CASE AgentCrash(a)
  BY <1>12, ProcessGoneAcc DEF AgentCrash
<1> QED
  BY <1>1, <1>2, <1>3, <1>4, <1>6, <1>7, <1>8, <1>9, <1>10, <1>11, <1>12
     DEF AgentStep

LEMMA ThreadAcc ==
  ASSUME TypeInv, AccInv, NEW t \in Thread, ThreadStep(t) PROVE AccInv'
<1>0. \A b \in Agent : Acc(b)
  BY DEF AccInv
<1>1. CASE ~ThreadExit(t)
  <2>1. /\ UNCHANGED <<slot, agVars, leak, spoilt, town>>
        /\ \A u \in Thread : tpc'[u] = "none" <=> tpc[u] = "none"
    BY <1>1 DEF ThreadStep, ThreadReceive, ThreadMark, ThreadOpen, ThreadOpenFails,
         ThreadEnd, ThreadClose, ThreadFree, Goto, histVars, TypeInv, TypeOK
  <2> QED
    BY <1>0, <2>1, AccKept DEF AccInv, agVars
<1>2. CASE ThreadExit(t)
  <2>0. PICK a \in Agent : a = town[t]
    BY <1>2 DEF ThreadExit, Goto, TypeInv, Shape
  <2>1. ThreadsOf(a)' = ThreadsOf(a) \ {t} /\ t \in ThreadsOf(a)
    BY <1>2, <2>0 DEF ThreadExit, Goto, ThreadsOf, LiveThread, TypeInv, TypeOK
  <2>2. Cardinality(ThreadsOf(a)') = Cardinality(ThreadsOf(a)) - 1
    BY <2>1, ThreadsFinite, FS_RemoveElement
  <2>3. UNCHANGED <<apc, aslot, leak, spoilt>>
    BY <1>2 DEF ThreadExit, agVars, histVars
  <2>a. Working(a) \/ (apc[a] = "left" /\ aslot[a] \in spoilt)
    <3>1. ThreadsOf(a) # {}
      BY <2>1
    <3>2. apc[a] \in {"none", "boot", "top", "select", "left", "dead"}
      BY <2>0 DEF TypeInv, TypeOK
    <3>3. Acc(a)
      BY <1>0, <2>0
    <3> QED
      BY <3>1, <3>2, <3>3 DEF Acc, Working
  <2>4. Acc(a)'
    <3>1. Working(a) => /\ slot'[aslot[a]].used = slot[aslot[a]].used
                        /\ slot'[aslot[a]].spid = slot[aslot[a]].spid
                        /\ slot'[aslot[a]].utrd = slot[aslot[a]].utrd - 1
                        /\ slot[aslot[a]].utrd \in Int
      BY <1>2, <2>0 DEF ThreadExit, TypeInv, TypeOK, Shape, SlotEntry, Working
    <3>2. leak[a] \in Nat
      BY <2>0 DEF TypeInv, TypeOK
    <3> QED
      <4>1. Cardinality(ThreadsOf(a)) \in Nat
        BY ThreadsFinite
      <4>2. Acc(a)
        BY <1>0, <2>0
      <4> QED
        BY <2>a, <2>2, <2>3, <3>1, <3>2, <4>1, <4>2, SizeAssumption
           DEF Acc, Working, Utrd
  <2>5. ASSUME NEW b \in Agent, b # a PROVE Acc(b)'
    <3>1. ThreadsOf(b)' = ThreadsOf(b)
      BY <1>2, <2>0, <2>5 DEF ThreadExit, Goto, ThreadsOf, LiveThread, TypeInv, TypeOK
    <3>2. Working(b) /\ aslot[b] \notin spoilt => slot'[aslot[b]] = slot[aslot[b]]
      <4>1. Working(b) /\ aslot[b] \notin spoilt => aslot[b] # aslot[a]
        BY <2>a, <2>0, <2>5, SlotsApart
      <4> QED
        BY <1>2, <2>0, <2>5, <4>1 DEF ThreadExit, TypeInv, TypeOK, Shape, Working
    <3> QED
      BY <1>0, <2>3, <3>1, <3>2 DEF Acc, Working, Utrd
  <2>6. \A b \in Agent : Acc(b)'
    BY <2>4, <2>5
  <2> QED
    BY <2>6 DEF AccInv
<1> QED
  BY <1>1, <1>2

LEMMA AccInductive ==
  /\ Init => AccInv
  /\ TypeInv /\ AccInv /\ [Next]_vars => AccInv'
<1>1. Init => AccInv
  BY DEF Init, AccInv, Acc, Working, ThreadsOf, LiveThread
<1>2. ASSUME TypeInv, AccInv, [Next]_vars PROVE AccInv'
  <2>1. CASE UNCHANGED vars
    BY <1>2, <2>1, AccKept DEF vars, agVars, thVars, histVars, AccInv
  <2> QED
    BY <1>2, <2>1, GatewayAcc, AgentAcc, ThreadAcc DEF Next
<1> QED
  BY <1>1, <1>2

LEMMA AccAlways == Spec => [](TypeInv /\ AccInv)
<1>1. Init => TypeInv /\ AccInv
  BY InitType, AccInductive
<1>2. TypeInv /\ AccInv /\ [Next]_vars => (TypeInv /\ AccInv)'
  BY NextType, AccInductive
<1> QED
  BY <1>1, <1>2, PTL DEF Spec

\* The slot's thread count is the number of the agent's threads, plus the
\* thread creations whose failure main did not notice.
THEOREM UtrdCounts == Spec => []UtrdExact
<1>1. AccInv => UtrdExact
  BY DEF AccInv, Acc, UtrdExact
<1> QED
  BY <1>1, AccAlways, PTL

\* An agent never has more threads than ntrd.
THEOREM UtrdBounded == Spec => []NeverOver
<1>1. AccInv => NeverOver
  BY DEF AccInv, Acc, NeverOver
<1> QED
  BY <1>1, AccAlways, PTL

\* An agent that gave up its slot has no thread left.
THEOREM LeavesEmpty == Spec => []NoSessionAbandoned
<1>1. AccInv => NoSessionAbandoned
  BY DEF AccInv, Acc, NoSessionAbandoned
<1> QED
  BY <1>1, AccAlways, PTL

-----------------------------------------------------------------------------
(* What an id leaves behind.  Every thread that sets devn[p], binds the name *)
(* of p or fills its user entry is, until it has undone all three, at a step  *)
(* that still holds p.                                                        *)

Traces(p) ==
  /\ devn[p] => p \in orphan \/ \E t \in Thread : Marked(t) /\ tpxid[t] = p
  /\ path[p] \in Thread => tpc[path[p]] \in {"serve", "fin"} /\ tpxid[path[p]] = p
  /\ path[p] = Stale => p \in orphan
  /\ usr[p] => p \in orphan
                 \/ \E t \in Thread : tpc[t] = "serve" /\ tpxid[t] = p

TracesInv == \A p \in Pxid : Traces(p)

LEMMA TracesGive == TypeInv /\ TracesInv => BusyHasSession /\ CleanWhenUnheld
<1> SUFFICES ASSUME TypeInv, TracesInv PROVE BusyHasSession /\ CleanWhenUnheld
  OBVIOUS
<1>1. BusyHasSession
  BY DEF TracesInv, Traces, BusyHasSession
<1>2. ASSUME NEW p \in Pxid, ~Held(p), p \notin orphan
      PROVE  path[p] = NoThread /\ ~usr[p]
  <2>1. ~ \E t \in Thread : Marked(t) /\ tpxid[t] = p
    BY <1>2 DEF Held
  <2>2. Traces(p)
    BY DEF TracesInv
  <2>3. path[p] \in Thread \union {NoThread, Stale}
    BY DEF TypeInv, TypeOK
  <2> QED
    BY <1>2, <2>1, <2>2, <2>3 DEF Traces, Marked
<1> QED
  BY <1>1, <1>2 DEF CleanWhenUnheld

\* When a process ends, the ids of its marked threads become orphans.
LEMMA ProcessGoneTraces ==
  ASSUME TypeInv, TracesInv, NEW a \in Agent, NEW gone, ProcessGone(a, gone),
         UNCHANGED <<devn, usr, town, tpxid>>
  PROVE  TracesInv'
<1> SUFFICES ASSUME NEW p \in Pxid PROVE Traces(p)'
  BY DEF TracesInv
<1>0. Traces(p)
  BY DEF TracesInv
<1>1. tpc' = [t \in Thread |-> IF town[t] = a THEN "none" ELSE tpc[t]]
  BY DEF ProcessGone
<1>2. orphan \subseteq orphan'
  BY DEF ProcessGone
<1>3. \A t \in Thread : Marked(t) => tpxid[t] \in orphan' \/ (tpc'[t] = tpc[t])
  BY <1>1 DEF ProcessGone, ThreadsOf, LiveThread, Marked
<1>4. path'[p] \in Thread => path'[p] = path[p] /\ town[path[p]] # a
  BY SetAssumption DEF ProcessGone
<1>5. path'[p] = Stale => path[p] = Stale \/ (path[p] \in Thread /\ town[path[p]] = a)
  BY SetAssumption DEF ProcessGone
<1>6. (devn[p] => p \in orphan \/ \E t \in Thread : Marked(t) /\ tpxid[t] = p)'
  BY <1>0, <1>2, <1>3 DEF Traces, Marked
<1>7. (path[p] \in Thread => tpc[path[p]] \in {"serve", "fin"} /\ tpxid[path[p]] = p)'
  BY <1>0, <1>1, <1>4 DEF Traces
<1>8. (path[p] = Stale => p \in orphan)'
  <2>1. CASE path[p] \in Thread /\ town[path[p]] = a
    BY <1>0, <1>1, <1>3, <2>1 DEF Traces, Marked
  <2> QED
    BY <1>0, <1>2, <1>5, <2>1 DEF Traces
<1>9. (usr[p] => p \in orphan \/ \E t \in Thread : tpc[t] = "serve" /\ tpxid[t] = p)'
  BY <1>0, <1>2, <1>3 DEF Traces, Marked
<1> QED
  BY <1>6, <1>7, <1>8, <1>9 DEF Traces

LEMMA TracesKept ==
  ASSUME TracesInv, UNCHANGED <<devn, usr, path, orphan>>,
         \A t \in Thread : Marked(t) => tpc'[t] = tpc[t] /\ tpxid'[t] = tpxid[t]
  PROVE  TracesInv'
<1> SUFFICES ASSUME NEW p \in Pxid PROVE Traces(p)'
  BY DEF TracesInv
<1>0. Traces(p)
  BY DEF TracesInv
<1> QED
  BY <1>0 DEF Traces, Marked

LEMMA AgentTraces ==
  ASSUME TypeInv, TracesInv, NEW a \in Agent, AgentStep(a) PROVE TracesInv'
<1>1. CASE AgentAttach(a) \/ AgentTop(a) \/ AgentLeave(a)
           \/ AgentSelectTimeout(a) \/ AgentSpawnFails(a)
  BY <1>1, TracesKept
     DEF AgentAttach, AgentTop, AgentLeave, AgentSelectTimeout,
         AgentSpawnFails, thVars, histVars
<1>2. ASSUME NEW t \in Thread, AgentSpawn(a, t) PROVE TracesInv'
  BY <1>2, TracesKept DEF AgentSpawn, Marked, histVars, TypeInv, TypeOK
<1>3. CASE AgentGiveUp(a) \/ AgentExecFails(a) \/ AgentExit(a) \/ AgentTerm(a)
           \/ AgentCrash(a)
  BY <1>3, ProcessGoneTraces
     DEF AgentGiveUp, AgentExecFails, AgentExit, AgentTerm, AgentCrash
<1> QED
  BY <1>1, <1>2, <1>3 DEF AgentStep

LEMMA ThreadTraces ==
  ASSUME TypeInv, TracesInv, NEW t \in Thread, ThreadStep(t) PROVE TracesInv'
<1> SUFFICES ASSUME NEW p \in Pxid PROVE Traces(p)'
  BY DEF TracesInv
<1>0. /\ Traces(p)
      /\ tpc[t] \notin {"none", "recv"} => tpxid[t] \in Pxid
  BY DEF TracesInv, TypeInv, Shape
<1> USE SetAssumption DEF Goto, TypeInv, TypeOK
<1>1. CASE ThreadReceive(t)
  BY <1>0, <1>1 DEF ThreadReceive, Traces, Marked, histVars
<1>2. CASE ThreadMark(t)
  BY <1>0, <1>2 DEF ThreadMark, Traces, Marked, histVars
<1>3. CASE ThreadOpen(t)
  BY <1>0, <1>3 DEF ThreadOpen, Traces, Marked, histVars
<1>4. CASE ThreadOpenFails(t)
  BY <1>0, <1>4 DEF ThreadOpenFails, Traces, Marked, histVars
<1>5. CASE ThreadEnd(t)
  BY <1>0, <1>5 DEF ThreadEnd, Traces, Marked, histVars
<1>6. CASE ThreadClose(t)
  BY <1>0, <1>6 DEF ThreadClose, Traces, Marked, histVars
<1>7. CASE ThreadFree(t)
  BY <1>0, <1>7 DEF ThreadFree, Traces, Marked, histVars
<1>8. CASE ThreadExit(t)
  BY <1>0, <1>8 DEF ThreadExit, Traces, Marked, histVars
<1> QED
  BY <1>1, <1>2, <1>3, <1>4, <1>5, <1>6, <1>7, <1>8 DEF ThreadStep

LEMMA TracesInductive ==
  /\ Init => TracesInv
  /\ TypeInv /\ TracesInv /\ [Next]_vars => TracesInv'
<1>1. Init => TracesInv
  BY SetAssumption DEF Init, TracesInv, Traces
<1>2. ASSUME TypeInv, TracesInv, [Next]_vars PROVE TracesInv'
  <2>1. CASE UNCHANGED vars
    BY <1>2, <2>1, TracesKept DEF vars, thVars, histVars
  <2>2. CASE Gateway
    BY <1>2, <2>2, TracesKept
       DEF Gateway, GatewayAccept, GatewayFull, GatewayForkFails, GatewayFork,
           GatewayRecord, GatewayPickCursor, GatewayPickScan, GatewayNoPxid,
           thVars, histVars
  <2> QED
    BY <1>2, <2>1, <2>2, AgentTraces, ThreadTraces DEF Next
<1> QED
  BY <1>1, <1>2

LEMMA TracesAlways == Spec => [](BusyHasSession /\ CleanWhenUnheld)
<1>1. Init => TypeInv /\ TracesInv
  BY InitType, TracesInductive
<1>2. TypeInv /\ TracesInv /\ [Next]_vars => (TypeInv /\ TracesInv)'
  BY NextType, TracesInductive
<1> QED
  BY <1>1, <1>2, TracesGive, PTL DEF Spec

\* An id is marked busy only on account of a session, living or killed.
THEOREM BusyJustified == Spec => []BusyHasSession
BY TracesAlways, PTL

\* An id that nobody holds has no queue name and no user entry left over.
THEOREM UnheldClean == Spec => []CleanWhenUnheld
BY TracesAlways, PTL

-----------------------------------------------------------------------------
(* Ids.  The invariant is SoleOwner with the places of inboxes spelled out,  *)
(* and with what ties an id to devn from its marking to its freeing: only    *)
(* that makes the gateway see that a marked id is taken.                     *)

Holder(t, p) == (tpc[t] = "got" \/ Marked(t)) /\ tpxid[t] = p

OneWaits(p) ==
  \A a, b \in Agent : \A i \in 1 .. Len(inbox[a]), j \in 1 .. Len(inbox[b]) :
    inbox[a][i].pxid = p /\ inbox[b][j].pxid = p => a = b /\ i = j

OneHolds(p) == \A t, u \in Thread : Holder(t, p) /\ Holder(u, p) => t = u

WaitsOrHolds(p) ==
  \A a \in Agent : \A i \in 1 .. Len(inbox[a]) : \A t \in Thread :
    inbox[a][i].pxid = p => ~Holder(t, p)

Keeps(p) ==
  \A t \in Thread : tpxid[t] = p =>
    /\ Marked(t) => devn[p]
    /\ tpc[t] = "serve" => usr[p] /\ path[p] = t

Own(p) == OneWaits(p) /\ OneHolds(p) /\ WaitsOrHolds(p) /\ Keeps(p)

OwnInv == \A p \in Pxid \ dup : Own(p)

LEMMA OwnGives == TypeInv /\ OwnInv => SoleOwner
<1> SUFFICES ASSUME TypeInv, OwnInv, NEW p \in Pxid \ dup
             PROVE  /\ \A x, y \in InboxPlaces(p) : x = y
                    /\ \A t, u \in HoldingThreads(p) : t = u
                    /\ InboxPlaces(p) = {} \/ HoldingThreads(p) = {}
                    /\ \A t \in Thread : tpc[t] = "serve" /\ tpxid[t] = p =>
                         devn[p] /\ usr[p] /\ path[p] = t
  BY DEF SoleOwner
<1>0. Own(p)
  BY DEF OwnInv
<1>1. \A a \in Agent : inbox[a] \in Seq(InboxEntry)
  BY DEF TypeInv, TypeOK
<1>2. ASSUME NEW x \in InboxPlaces(p)
      PROVE  /\ x = <<x[1], x[2]>> /\ x[1] \in Agent
             /\ x[2] \in 1 .. Len(inbox[x[1]]) /\ inbox[x[1]][x[2]].pxid = p
  <2>1. PICK a \in Agent : x \in {a} \X DOMAIN inbox[a]
    BY <1>2 DEF InboxPlaces
  <2>2. DOMAIN inbox[a] = 1 .. Len(inbox[a])
    BY <1>1
  <2> QED
    BY <1>2, <2>1, <2>2 DEF InboxPlaces
<1>3. \A x, y \in InboxPlaces(p) : x = y
  BY <1>0, <1>2 DEF Own, OneWaits
<1>4. \A t \in HoldingThreads(p) : t \in Thread /\ Holder(t, p)
  BY DEF HoldingThreads, Holder
<1>5. \A t, u \in HoldingThreads(p) : t = u
  BY <1>0, <1>4 DEF Own, OneHolds
<1>6. InboxPlaces(p) = {} \/ HoldingThreads(p) = {}
  BY <1>0, <1>2, <1>4 DEF Own, WaitsOrHolds
<1>7. \A t \in Thread : tpc[t] = "serve" /\ tpxid[t] = p =>
        devn[p] /\ usr[p] /\ path[p] = t
  BY <1>0 DEF Own, Keeps, Marked
<1> QED
  BY <1>3, <1>5, <1>6, <1>7

\* A step that moves no descriptor and starts to hold no id, and leaves alone
\* what those who hold one rely on.
LEMMA OwnCalm ==
  ASSUME OwnInv, UNCHANGED <<inbox, devn, usr, path, tpxid, dup>>,
         \A t \in Thread : tpc'[t] = tpc[t] \/ tpc'[t] \in {"none", "recv", "dec"}
  PROVE  OwnInv'
<1> SUFFICES ASSUME NEW p \in Pxid, p \notin dup PROVE Own(p)'
  BY DEF OwnInv
<1>0. Own(p)
  BY DEF OwnInv
<1>1. \A t \in Thread : Holder(t, p)' => Holder(t, p)
  BY DEF Holder, Marked
<1>2. OneWaits(p)' /\ OneHolds(p)' /\ WaitsOrHolds(p)'
  BY <1>0, <1>1 DEF Own, OneWaits, OneHolds, WaitsOrHolds
<1>3. Keeps(p)'
  BY <1>0 DEF Own, Keeps, Marked
<1> QED
  BY <1>2, <1>3 DEF Own

\* A process that ends takes descriptors and threads away, and unlinks only the
\* names of its own threads.
LEMMA ProcessGoneOwn ==
  ASSUME TypeInv, OwnInv, NEW a \in Agent, NEW gone, ProcessGone(a, gone),
         gone \subseteq MyprocUsr(a),
         UNCHANGED <<devn, usr, town, tpxid, dup>>
  PROVE  OwnInv'
<1> SUFFICES ASSUME NEW p \in Pxid, p \notin dup PROVE Own(p)'
  BY DEF OwnInv
<1>0. Own(p)
  BY DEF OwnInv
<1>1. inbox' = [inbox EXCEPT ![a] = <<>>] /\ inbox \in [Agent -> Seq(InboxEntry)]
  BY DEF ProcessGone, TypeInv, TypeOK
<1>2. \A b \in Agent : \A i \in 1 .. Len(inbox'[b]) :
        inbox'[b] = inbox[b] /\ i \in 1 .. Len(inbox[b])
  BY <1>1
<1>3. \A t \in Thread : tpc'[t] = IF town[t] = a THEN "none" ELSE tpc[t]
  BY DEF ProcessGone
<1>4. \A t \in Thread : Holder(t, p)' => Holder(t, p)
  BY <1>3 DEF Holder, Marked
<1>5. OneWaits(p)'
  BY <1>0, <1>2 DEF Own, OneWaits
<1>6. OneHolds(p)' /\ WaitsOrHolds(p)'
  BY <1>0, <1>2, <1>4 DEF Own, OneHolds, WaitsOrHolds
<1>7. ASSUME NEW t \in Thread, tpxid[t] = p PROVE
        /\ Marked(t)' => devn[p]
        /\ tpc'[t] = "serve" => usr[p] /\ path'[p] = t
  <2>1. Marked(t)' => devn[p]
    BY <1>0, <1>3, <1>7 DEF Own, Keeps, Marked
  <2>2. ASSUME tpc'[t] = "serve" PROVE usr[p] /\ path'[p] = t
    <3>1. tpc[t] = "serve" /\ town[t] # a
      BY <1>3, <2>2
    <3>2. usr[p] /\ path[p] = t
      BY <1>0, <1>7, <3>1 DEF Own, Keeps
    <3>3. p \notin gone
      <4>1. ASSUME p \in MyprocUsr(a) PROVE FALSE
        <5>1. PICK u \in Thread : town[u] = a /\ tpc[u] = "serve" /\ tpxid[u] = p
          BY <4>1 DEF MyprocUsr, ThreadsOf
        <5>2. Holder(u, p) /\ Holder(t, p)
          BY <1>7, <3>1, <5>1 DEF Holder, Marked
        <5> QED
          BY <1>0, <3>1, <5>1, <5>2 DEF Own, OneHolds
      <4> QED
        BY <4>1
    <3> QED
      BY <3>1, <3>2, <3>3 DEF ProcessGone
  <2> QED
    BY <2>1, <2>2
<1>8. Keeps(p)'
  BY <1>7 DEF Keeps
<1> QED
  BY <1>5, <1>6, <1>8 DEF Own

\* HandOver leaves the inboxes alone or appends the id to one of them.
LEMMA HandOverInbox ==
  ASSUME TypeInv, gpc = "pick", NEW p \in Pxid, HandOver(p),
         NEW b \in Agent, NEW i \in 1 .. Len(inbox'[b])
  PROVE  \/ i \in 1 .. Len(inbox[b]) /\ inbox'[b][i] = inbox[b][i]
         \/ /\ b = slot[gidx].sock /\ i = Len(inbox[b]) + 1 /\ cst' = [cst EXCEPT ![gcl] = "queued"]
            /\ inbox'[b][i] = [pxid |-> p, cl |-> gcl]
            /\ cown' = [cown EXCEPT ![gcl] = b]
<1> DEFINE a == slot[gidx].sock
           e == [pxid |-> p, cl |-> gcl]
<1>1. inbox \in [Agent -> Seq(InboxEntry)] /\ gidx \in Slots /\ gcl \in Client
  BY DEF TypeInv, TypeOK, Shape
<1>2. a \in Agent \union {NoAgent} /\ e \in InboxEntry
  BY <1>1 DEF TypeInv, TypeOK, SlotEntry, InboxEntry
<1>3. CASE a # NoAgent /\ Alive(a)
  <2>1. /\ inbox' = [inbox EXCEPT ![a] = Append(@, e)]
        /\ cst' = [cst EXCEPT ![gcl] = "queued"]
        /\ cown' = [cown EXCEPT ![gcl] = a]
    BY <1>3 DEF HandOver
  <2>2. CASE b # a
    BY <1>1, <2>1, <2>2
  <2>3. CASE b = a
    <3>1. inbox'[b] = Append(inbox[b], e) /\ inbox[b] \in Seq(InboxEntry)
      BY <1>1, <2>1, <2>3
    <3>2. /\ i \in 1 .. Len(inbox[b]) + 1
          /\ i \in 1 .. Len(inbox[b]) => inbox'[b][i] = inbox[b][i]
          /\ i = Len(inbox[b]) + 1 => inbox'[b][i] = e
      BY <1>2, <3>1
    <3> QED
      BY <2>1, <2>3, <3>1, <3>2
  <2> QED
    BY <2>2, <2>3
<1>4. CASE ~(a # NoAgent /\ Alive(a))
  BY <1>4 DEF HandOver
<1> QED
  BY <1>3, <1>4

\* An id that is picked and not shared by that was held by nobody: whoever has
\* marked it shows in devn.
LEMMA HandOverOwn ==
  ASSUME TypeInv, OwnInv, gpc = "pick", NEW p \in Pxid, ~devn[p], HandOver(p),
         UNCHANGED <<devn, usr, path, thVars>>
  PROVE  OwnInv'
<1> SUFFICES ASSUME NEW q \in Pxid, q \notin dup' PROVE Own(q)'
  BY DEF OwnInv
<1>0. \A b \in Agent : inbox[b] \in Seq(InboxEntry)
  BY DEF TypeInv, TypeOK
<1>1. UNCHANGED <<tpc, tpxid>> /\ \A t \in Thread : Holder(t, q)' <=> Holder(t, q)
  BY DEF thVars, Holder, Marked
<1>2. \A b \in Agent : \A i \in 1 .. Len(inbox'[b]) :
        \/ i \in 1 .. Len(inbox[b]) /\ inbox'[b][i] = inbox[b][i]
        \/ b = slot[gidx].sock /\ i = Len(inbox[b]) + 1 /\ inbox'[b][i].pxid = p
  <2>1. ASSUME NEW b \in Agent, NEW i \in 1 .. Len(inbox'[b])
        PROVE  \/ i \in 1 .. Len(inbox[b]) /\ inbox'[b][i] = inbox[b][i]
               \/ /\ b = slot[gidx].sock /\ i = Len(inbox[b]) + 1
                  /\ inbox'[b][i] = [pxid |-> p, cl |-> gcl]
    BY <2>1, HandOverInbox
  <2> QED
    BY <2>1
<1>3. CASE q # p
  <2>1. Own(q)
    BY <1>3 DEF HandOver, DupAfter, OwnInv
  <2>2. \A b \in Agent : \A i \in 1 .. Len(inbox'[b]) : inbox'[b][i].pxid = q =>
          i \in 1 .. Len(inbox[b]) /\ inbox[b][i].pxid = q
    BY <1>2, <1>3
  <2>3. OneWaits(q)'
    BY <2>1, <2>2 DEF Own, OneWaits
  <2>4. OneHolds(q)' /\ WaitsOrHolds(q)'
    BY <1>1, <2>1, <2>2 DEF Own, OneHolds, WaitsOrHolds
  <2>5. Keeps(q)'
    BY <1>1, <2>1 DEF Own, Keeps, Marked
  <2> QED
    BY <2>3, <2>4, <2>5 DEF Own
<1>4. CASE q = p
  <2>1. ~InFlight(p)
    BY <1>4 DEF HandOver, DupAfter
  <2>2. \A t \in Thread : ~(Marked(t) /\ tpxid[t] = p)
    <3>1. ASSUME NEW t \in Thread, Marked(t), tpxid[t] = p PROVE FALSE
      <4>1. p \notin dup
        BY <1>4, <2>1, <3>1 DEF HandOver, DupAfter, Held
      <4> QED
        BY <3>1, <4>1 DEF OwnInv, Own, Keeps
    <3> QED
      BY <3>1
  <2>3. \A t \in Thread : ~Holder(t, p)
    BY <2>1, <2>2 DEF Holder, InFlight
  <2>4. \A b \in Agent : \A i \in 1 .. Len(inbox[b]) : inbox[b][i].pxid # p
    <3>1. \A b \in Agent : DOMAIN inbox[b] = 1 .. Len(inbox[b])
      BY <1>0
    <3> QED
      BY <2>1, <3>1 DEF InFlight, InInbox
  <2>5. \A b \in Agent : \A i \in 1 .. Len(inbox'[b]) : inbox'[b][i].pxid = p =>
          b = slot[gidx].sock /\ i = Len(inbox[b]) + 1
    BY <1>2, <2>4
  <2>6. OneWaits(q)'
    BY <1>4, <2>5 DEF OneWaits
  <2>7. OneHolds(q)' /\ WaitsOrHolds(q)'
    BY <1>1, <1>4, <2>3 DEF OneHolds, WaitsOrHolds
  <2>8. Keeps(q)'
    BY <1>1, <1>4, <2>3 DEF Keeps, Holder, Marked
  <2> QED
    BY <2>6, <2>7, <2>8 DEF Own
<1> QED
  BY <1>3, <1>4

LEMMA GatewayOwn == ASSUME TypeInv, OwnInv, Gateway PROVE OwnInv'
<1>1. CASE GatewayPickCursor
  <2>1. devi + 1 \in Pxid
    BY SizeAssumption DEF TypeInv, TypeOK, Pxid
  <2> QED
    BY <1>1, <2>1, HandOverOwn DEF GatewayPickCursor, CursorFree
<1>2. CASE GatewayPickScan
  <2>1. PICK i \in FreeProbes : HandOver(Probe(devi, i) + 1)
    BY <1>2 DEF GatewayPickScan, First
  <2>2. Probe(devi, i) + 1 \in Pxid /\ ~devn[Probe(devi, i) + 1]
    BY <2>1, ProbeType DEF FreeProbes, TypeInv, TypeOK
  <2> QED
    BY <1>2, <2>1, <2>2, HandOverOwn DEF GatewayPickScan
<1> QED
  BY <1>1, <1>2, OwnCalm
     DEF Gateway, GatewayAccept, GatewayFull, GatewayForkFails, GatewayFork,
         GatewayRecord, GatewayNoPxid, thVars, histVars

LEMMA AgentOwn ==
  ASSUME TypeInv, OwnInv, NEW a \in Agent, AgentStep(a) PROVE OwnInv'
<1>1. CASE AgentAttach(a) \/ AgentTop(a) \/ AgentLeave(a)
           \/ AgentSelectTimeout(a) \/ AgentSpawnFails(a)
  BY <1>1, OwnCalm
     DEF AgentAttach, AgentTop, AgentLeave, AgentSelectTimeout,
         AgentSpawnFails, thVars, histVars
<1>2. ASSUME NEW t \in Thread, AgentSpawn(a, t) PROVE OwnInv'
  BY <1>2, OwnCalm DEF AgentSpawn, histVars, TypeInv, TypeOK
<1>3. CASE AgentGiveUp(a) \/ AgentExecFails(a) \/ AgentExit(a) \/ AgentTerm(a)
           \/ AgentCrash(a)
  <2>1. PICK gone \in {{}, MyprocUsr(a)} : ProcessGone(a, gone)
    BY <1>3 DEF AgentGiveUp, AgentExecFails, AgentExit, AgentTerm, AgentCrash
  <2>2. UNCHANGED <<devn, usr, town, tpxid, dup>>
    BY <1>3 DEF AgentGiveUp, AgentExecFails, AgentExit, AgentTerm, AgentCrash
  <2> QED
    BY <2>1, <2>2, ProcessGoneOwn
<1> QED
  BY <1>1, <1>2, <1>3 DEF AgentStep

\* What a receiving thread takes, and what stays on its agent's socketpair.
LEMMA ReceiveInbox ==
  ASSUME TypeInv, NEW t \in Thread, ThreadReceive(t)
  PROVE  LET a == town[t]
             e == inbox[a][1]
         IN  /\ a \in Agent /\ 1 \in 1 .. Len(inbox[a]) /\ e \in InboxEntry
             /\ tpxid' = [tpxid EXCEPT ![t] = e.pxid]
             /\ tcl' = [tcl EXCEPT ![t] = e.cl]
             /\ cst' = [cst EXCEPT ![e.cl] = "session"]
             /\ \A b \in Agent : \A i \in 1 .. Len(inbox'[b]) :
                  IF b = a THEN i + 1 \in 1 .. Len(inbox[b]) /\ inbox'[b][i] = inbox[b][i + 1]
                           ELSE i \in 1 .. Len(inbox[b]) /\ inbox'[b][i] = inbox[b][i]
<1> DEFINE a == town[t]
<1>1. a \in Agent
  BY DEF ThreadReceive, Goto, TypeInv, Shape
<1>2. inbox \in [Agent -> Seq(InboxEntry)]
  BY DEF TypeInv, TypeOK
<1>3. inbox[a] \in Seq(InboxEntry) /\ inbox[a] # <<>>
  BY <1>1, <1>2 DEF ThreadReceive
<1>4. /\ Head(inbox[a]) = inbox[a][1] /\ 1 \in 1 .. Len(inbox[a])
      /\ inbox[a][1] \in InboxEntry
  BY <1>3
<1>5. inbox' = [inbox EXCEPT ![a] = Tail(inbox[a])]
  BY DEF ThreadReceive
<1>6. \A i \in 1 .. Len(Tail(inbox[a])) :
        i + 1 \in 1 .. Len(inbox[a]) /\ Tail(inbox[a])[i] = inbox[a][i + 1]
  BY <1>3
<1>7. \A b \in Agent : \A i \in 1 .. Len(inbox'[b]) :
        IF b = a THEN i + 1 \in 1 .. Len(inbox[b]) /\ inbox'[b][i] = inbox[b][i + 1]
                 ELSE i \in 1 .. Len(inbox[b]) /\ inbox'[b][i] = inbox[b][i]
  BY <1>1, <1>2, <1>5, <1>6
<1>8. /\ tpxid' = [tpxid EXCEPT ![t] = inbox[a][1].pxid]
      /\ tcl' = [tcl EXCEPT ![t] = inbox[a][1].cl]
      /\ cst' = [cst EXCEPT ![inbox[a][1].cl] = "session"]
  BY <1>4 DEF ThreadReceive
<1> QED
  BY <1>1, <1>4, <1>7, <1>8

LEMMA ReceiveOwn ==
  ASSUME TypeInv, OwnInv, NEW t \in Thread, ThreadReceive(t) PROVE OwnInv'
<1> DEFINE a == town[t]
           e == inbox[a][1]
<1> SUFFICES ASSUME NEW p \in Pxid, p \notin dup PROVE Own(p)'
  BY DEF OwnInv, ThreadReceive, histVars
<1>0. Own(p)
  BY DEF OwnInv
<1>1. /\ a \in Agent /\ 1 \in 1 .. Len(inbox[a])
      /\ tpxid' = [tpxid EXCEPT ![t] = e.pxid]
      /\ \A b \in Agent : \A i \in 1 .. Len(inbox'[b]) :
           IF b = a THEN i + 1 \in 1 .. Len(inbox[b]) /\ inbox'[b][i] = inbox[b][i + 1]
                    ELSE i \in 1 .. Len(inbox[b]) /\ inbox'[b][i] = inbox[b][i]
  BY ReceiveInbox
<1>2. /\ tpc[t] = "recv" /\ tpc' = [tpc EXCEPT ![t] = "got"]
      /\ UNCHANGED <<devn, path, usr>>
      /\ tpc \in [Thread -> {"none", "recv", "got", "open", "fail", "serve", "fin",
                             "free", "dec"}]
      /\ tpxid \in [Thread -> Pxid \union {0}]
  BY DEF ThreadReceive, Goto, TypeInv, TypeOK
<1>3. \A u \in Thread : u # t => (Holder(u, p)' <=> Holder(u, p))
  BY <1>1, <1>2 DEF Holder, Marked
<1>4. Holder(t, p)' <=> e.pxid = p
  BY <1>1, <1>2 DEF Holder, Marked
<1>5. \A i, j \in Int : i + 1 = j + 1 => i = j
  OBVIOUS
<1>6. OneWaits(p)'
  <2>1. ASSUME NEW b \in Agent, NEW c \in Agent, NEW i \in 1 .. Len(inbox'[b]),
               NEW j \in 1 .. Len(inbox'[c]),
               inbox'[b][i].pxid = p, inbox'[c][j].pxid = p
        PROVE  b = c /\ i = j
    <3>1. /\ IF b = a THEN i + 1 \in 1 .. Len(inbox[b]) /\ inbox[b][i + 1].pxid = p
                     ELSE i \in 1 .. Len(inbox[b]) /\ inbox[b][i].pxid = p
          /\ IF c = a THEN j + 1 \in 1 .. Len(inbox[c]) /\ inbox[c][j + 1].pxid = p
                     ELSE j \in 1 .. Len(inbox[c]) /\ inbox[c][j].pxid = p
      BY <1>1, <2>1
    <3>2. OneWaits(p)
      BY <1>0 DEF Own
    <3>3. b = c
      BY <3>1, <3>2 DEF OneWaits
    <3>4. CASE b = a
      <4>1. i + 1 = j + 1
        BY <3>1, <3>2, <3>3, <3>4 DEF OneWaits
      <4> QED
        BY <3>3, <4>1, <1>5
    <3>5. CASE b # a
      BY <3>1, <3>2, <3>3, <3>5 DEF OneWaits
    <3> QED
      BY <3>3, <3>4, <3>5
  <2> QED
    BY <2>1 DEF OneWaits
<1>7. ASSUME e.pxid = p
      PROVE  /\ \A u \in Thread : ~Holder(u, p)
             /\ \A b \in Agent : \A i \in 1 .. Len(inbox'[b]) : inbox'[b][i].pxid # p
  <2>1. \A u \in Thread : ~Holder(u, p)
    BY <1>0, <1>1, <1>7 DEF Own, WaitsOrHolds
  <2>2. ASSUME NEW b \in Agent, NEW i \in 1 .. Len(inbox'[b]), inbox'[b][i].pxid = p
        PROVE  FALSE
    <3>1. CASE b = a
      BY <1>0, <1>1, <1>7, <2>2, <3>1 DEF Own, OneWaits
    <3>2. CASE b # a
      BY <1>0, <1>1, <1>7, <2>2, <3>2 DEF Own, OneWaits
    <3> QED
      BY <3>1, <3>2
  <2> QED
    BY <2>1, <2>2
<1>8. OneHolds(p)'
  BY <1>0, <1>3, <1>4, <1>7 DEF Own, OneHolds
<1>9. WaitsOrHolds(p)'
  <2>1. ASSUME NEW b \in Agent, NEW i \in 1 .. Len(inbox'[b]), inbox'[b][i].pxid = p,
               NEW u \in Thread
        PROVE  ~Holder(u, p)'
    BY <1>0, <1>1, <1>3, <1>4, <1>7, <2>1 DEF Own, WaitsOrHolds
  <2> QED
    BY <2>1 DEF WaitsOrHolds
<1>10. Keeps(p)'
  BY <1>0, <1>1, <1>2 DEF Own, Keeps, Marked
<1> QED
  BY <1>6, <1>8, <1>9, <1>10 DEF Own

LEMMA ThreadOwn ==
  ASSUME TypeInv, OwnInv, NEW t \in Thread, ThreadStep(t) PROVE OwnInv'
<1>1. CASE ThreadReceive(t)
  BY <1>1, ReceiveOwn
<1>2. CASE ThreadMark(t) \/ ThreadOpen(t) \/ ThreadOpenFails(t) \/ ThreadEnd(t)
           \/ ThreadClose(t) \/ ThreadFree(t)
  <2> SUFFICES ASSUME NEW p \in Pxid, p \notin dup PROVE Own(p)'
    BY <1>2 DEF OwnInv, ThreadMark, ThreadOpen, ThreadOpenFails, ThreadEnd, ThreadClose,
                ThreadFree, histVars
  <2>0. Own(p)
    BY DEF OwnInv
  <2>1. /\ tpc \in [Thread -> {"none", "recv", "got", "open", "fail", "serve", "fin",
                               "free", "dec"}]
        /\ devn \in [Pxid -> BOOLEAN] /\ usr \in [Pxid -> BOOLEAN]
        /\ path \in [Pxid -> Thread \union {NoThread, Stale}]
    BY DEF TypeInv, TypeOK
  <2>2. UNCHANGED <<inbox, tpxid>>
    BY <1>2 DEF ThreadMark, ThreadOpen, ThreadOpenFails, ThreadEnd, ThreadClose,
                ThreadFree
  <2>3. /\ tpc[t] = "got" \/ Marked(t)
        /\ \A u \in Thread : u # t => tpc'[u] = tpc[u]
    BY <1>2, <2>1 DEF ThreadMark, ThreadOpen, ThreadOpenFails, ThreadEnd, ThreadClose,
                ThreadFree, Goto, Marked
  <2>4. \A u \in Thread : Holder(u, p)' => Holder(u, p)
    BY <2>2, <2>3 DEF Holder, Marked
  <2>5. OneWaits(p)' /\ OneHolds(p)' /\ WaitsOrHolds(p)'
    BY <2>0, <2>2, <2>4 DEF Own, OneWaits, OneHolds, WaitsOrHolds
  <2>6. Keeps(p)'
    <3>1. CASE tpxid[t] # p
      <4>1. devn'[p] = devn[p] /\ usr'[p] = usr[p] /\ path'[p] = path[p]
        BY <1>2, <2>1, <3>1 DEF ThreadMark, ThreadOpen, ThreadOpenFails, ThreadEnd,
                ThreadClose, ThreadFree
      <4> QED
        BY <2>0, <2>2, <2>3, <3>1, <4>1 DEF Own, Keeps, Marked
    <3>2. CASE tpxid[t] = p
      <4>1. \A u \in Thread : u # t /\ tpxid[u] = p => ~(tpc'[u] = "got" \/ Marked(u)')
        BY <2>0, <2>3, <3>2 DEF Own, OneHolds, Holder, Marked
      <4>2. /\ Marked(t)' => devn'[p]
            /\ tpc'[t] = "serve" => usr'[p] /\ path'[p] = t
        <5> USE DEF Own, Keeps, Marked, Goto
        <5>1. CASE ThreadMark(t)
          BY <2>0, <2>1, <3>2, <5>1 DEF ThreadMark
        <5>2. CASE ThreadOpen(t)
          BY <2>0, <2>1, <3>2, <5>2 DEF ThreadOpen
        <5>3. CASE ThreadOpenFails(t)
          BY <2>0, <2>1, <3>2, <5>3 DEF ThreadOpenFails
        <5>4. CASE ThreadEnd(t)
          BY <2>0, <2>1, <3>2, <5>4 DEF ThreadEnd
        <5>5. CASE ThreadClose(t)
          BY <2>0, <2>1, <3>2, <5>5 DEF ThreadClose
        <5>6. CASE ThreadFree(t)
          BY <2>0, <2>1, <3>2, <5>6 DEF ThreadFree
        <5> QED
          BY <1>2, <5>1, <5>2, <5>3, <5>4, <5>5, <5>6
      <4> QED
        BY <2>2, <4>1, <4>2 DEF Keeps, Marked
    <3> QED
      BY <3>1, <3>2
  <2> QED
    BY <2>5, <2>6 DEF Own
<1>3. CASE ThreadExit(t)
  BY <1>3, OwnCalm DEF ThreadExit, Goto, histVars, TypeInv, TypeOK
<1> QED
  BY <1>1, <1>2, <1>3 DEF ThreadStep

LEMMA OwnInductive ==
  /\ Init => OwnInv
  /\ TypeInv /\ OwnInv /\ [Next]_vars => OwnInv'
<1>1. Init => OwnInv
  BY DEF Init, OwnInv, Own, OneWaits, OneHolds, WaitsOrHolds, Keeps, Holder, Marked
<1>2. ASSUME TypeInv, OwnInv, [Next]_vars PROVE OwnInv'
  <2>1. CASE UNCHANGED vars
    BY <1>2, <2>1, OwnCalm DEF vars, thVars, histVars
  <2> QED
    BY <1>2, <2>1, GatewayOwn, AgentOwn, ThreadOwn DEF Next
<1> QED
  BY <1>1, <1>2

\* An id has one holder, unless the gateway chose it while it was in flight.
THEOREM IdsHaveOneHolder == Spec => []SoleOwner
<1>1. Init => TypeInv /\ OwnInv
  BY InitType, OwnInductive
<1>2. TypeInv /\ OwnInv /\ [Next]_vars => (TypeInv /\ OwnInv)'
  BY NextType, OwnInductive
<1> QED
  BY <1>1, <1>2, OwnGives, PTL DEF Spec

-----------------------------------------------------------------------------
(* Clients.  The state of a connection tells where it is: with the gateway,  *)
(* on one socketpair, or with one thread, and which agent has it.            *)

\* The thread has a connection that is not done with.
Uses(t) == tpc[t] \in {"got", "open", "fail", "serve"}

QueuedOnce ==
  \A a \in Agent : \A i \in 1 .. Len(inbox[a]) :
    /\ cst[inbox[a][i].cl] = "queued" /\ cown[inbox[a][i].cl] = a
    /\ \A j \in 1 .. Len(inbox[a]) : inbox[a][i].cl = inbox[a][j].cl => i = j

UsedOnce ==
  \A t \in Thread : Uses(t) =>
    /\ cst[tcl[t]] = "session" /\ cown[tcl[t]] = town[t]
    /\ \A u \in Thread : Uses(u) /\ tcl[t] = tcl[u] => t = u

HeldOnce == gpc # "idle" => cst[gcl] = "held"

PlaceInv == QueuedOnce /\ UsedOnce /\ HeldOnce

LEMMA InboxClients ==
  ASSUME TypeInv, NEW a \in Agent, NEW i \in 1 .. Len(inbox[a])
  PROVE  inbox[a][i].cl \in Client
<1>1. inbox[a] \in Seq(InboxEntry)
  BY DEF TypeInv, TypeOK
<1>2. inbox[a][i] \in InboxEntry
  BY <1>1
<1> QED
  BY <1>2 DEF InboxEntry

\* A step that changes a connection which is neither queued nor with a thread.
LEMMA PlaceCalm ==
  ASSUME TypeInv, PlaceInv, UNCHANGED <<inbox, tcl>>,
         \A t \in Thread : Uses(t)' => Uses(t) /\ town'[t] = town[t],
         \A c \in Client : cst[c] = "queued" \/ (cst[c] = "session" /\ \E t \in Thread : Uses(t)' /\ tcl[t] = c)
                           => cst'[c] = cst[c] /\ cown'[c] = cown[c],
         HeldOnce'
  PROVE  PlaceInv'
<1>2. \A a \in Agent : \A i \in 1 .. Len(inbox[a]) : inbox[a][i].cl \in Client
  BY InboxClients
<1>3. \A t \in Thread : Uses(t) => tcl[t] \in Client
  BY DEF TypeInv, Shape, Uses
<1>4. QueuedOnce'
  BY <1>2 DEF PlaceInv, QueuedOnce
<1>5. UsedOnce'
  BY <1>3 DEF PlaceInv, UsedOnce
<1> QED
  BY <1>4, <1>5 DEF PlaceInv

LEMMA HandOverPlace ==
  ASSUME TypeInv, PlaceInv, gpc = "pick", NEW p \in Pxid, HandOver(p), UNCHANGED thVars
  PROVE  PlaceInv'
<1>0. gcl \in Client /\ cst \in [Client -> {"new", "held", "queued", "session",
                                            "lingering", "closed"}]
      /\ cown \in [Client -> Agent \union {NoAgent}]
      /\ \A a \in Agent : inbox[a] \in Seq(InboxEntry)
  BY DEF TypeInv, TypeOK, Shape
<1>1. cst[gcl] = "held"
  BY DEF PlaceInv, HeldOnce
<1>2. \A c \in Client : c # gcl => cst'[c] = cst[c] /\ cown'[c] = cown[c]
  BY <1>0 DEF HandOver
<1>3. \A a \in Agent : \A i \in 1 .. Len(inbox[a]) :
        inbox[a][i].cl \in Client /\ inbox[a][i].cl # gcl
  BY <1>1, InboxClients DEF PlaceInv, QueuedOnce
<1>4. QueuedOnce'
  <2>1. ASSUME NEW a \in Agent, NEW i \in 1 .. Len(inbox'[a])
        PROVE  \/ i \in 1 .. Len(inbox[a]) /\ inbox'[a][i] = inbox[a][i]
               \/ /\ i = Len(inbox[a]) + 1 /\ inbox'[a][i].cl = gcl
                  /\ cst'[gcl] = "queued" /\ cown'[gcl] = a
    <3>1. CASE i \in 1 .. Len(inbox[a]) /\ inbox'[a][i] = inbox[a][i]
      BY <3>1
    <3>2. CASE /\ i = Len(inbox[a]) + 1 /\ cst' = [cst EXCEPT ![gcl] = "queued"]
               /\ inbox'[a][i] = [pxid |-> p, cl |-> gcl]
               /\ cown' = [cown EXCEPT ![gcl] = a]
      <4>1. inbox'[a][i].cl = gcl
        BY <3>2
      <4>2. cst'[gcl] = "queued" /\ cown'[gcl] = a
        BY <1>0, <3>2
      <4> QED
        BY <3>2, <4>1, <4>2
    <3> QED
      BY <2>1, <3>1, <3>2, HandOverInbox
  <2>2. ASSUME NEW a \in Agent, NEW i \in 1 .. Len(inbox'[a])
        PROVE  cst'[inbox'[a][i].cl] = "queued" /\ cown'[inbox'[a][i].cl] = a
    BY <1>2, <1>3, <2>1 DEF PlaceInv, QueuedOnce
  <2>3. ASSUME NEW a \in Agent, NEW i \in 1 .. Len(inbox'[a]),
               NEW j \in 1 .. Len(inbox'[a]), inbox'[a][i].cl = inbox'[a][j].cl
        PROVE  i = j
    BY <1>3, <2>1, <2>3 DEF PlaceInv, QueuedOnce
  <2> QED
    BY <2>2, <2>3 DEF QueuedOnce
<1>5. UsedOnce'
  <2>1. \A t \in Thread : Uses(t) => tcl[t] \in Client /\ tcl[t] # gcl
    BY <1>1 DEF PlaceInv, UsedOnce, TypeInv, Shape, Uses
  <2> QED
    BY <1>2, <2>1 DEF PlaceInv, UsedOnce, Uses, thVars
<1>6. HeldOnce'
  BY DEF HandOver, GatewayDone, HeldOnce
<1> QED
  BY <1>4, <1>5, <1>6 DEF PlaceInv

LEMMA ProcessGonePlace ==
  ASSUME TypeInv, PlaceInv, NEW a \in Agent, NEW gone, ProcessGone(a, gone),
         UNCHANGED <<gwVars, town, tcl, cown>>
  PROVE  PlaceInv'
<1>0. /\ inbox \in [Agent -> Seq(InboxEntry)]
      /\ \A t \in Thread : Uses(t) => tcl[t] \in Client
      /\ gpc # "idle" => gcl \in Client
  BY DEF TypeInv, TypeOK, Shape, Uses
<1>1. /\ inbox' = [inbox EXCEPT ![a] = <<>>]
      /\ \A t \in Thread : tpc'[t] = IF town[t] = a THEN "none" ELSE tpc[t]
      /\ \A c \in Client : cst'[c] # cst[c] =>
           cown[c] = a /\ cst[c] \in {"queued", "session", "lingering"}
  BY DEF ProcessGone
<1>2. \A b \in Agent : \A i \in 1 .. Len(inbox'[b]) :
        b # a /\ inbox'[b] = inbox[b] /\ inbox[b][i].cl \in Client
  <2>1. \A b \in Agent : \A i \in 1 .. Len(inbox'[b]) : b # a /\ inbox'[b] = inbox[b]
    BY <1>0, <1>1
  <2> QED
    BY <2>1, InboxClients
<1>3. QueuedOnce'
  BY <1>1, <1>2 DEF PlaceInv, QueuedOnce
<1>4. \A t \in Thread : Uses(t)' => Uses(t) /\ town[t] # a
  BY <1>1 DEF Uses
<1>5. UsedOnce'
  BY <1>0, <1>1, <1>4 DEF PlaceInv, UsedOnce
<1>6. HeldOnce'
  BY <1>0, <1>1 DEF PlaceInv, HeldOnce, gwVars
<1> QED
  BY <1>3, <1>5, <1>6 DEF PlaceInv

LEMMA ReceivePlace ==
  ASSUME TypeInv, PlaceInv, NEW t \in Thread, ThreadReceive(t) PROVE PlaceInv'
<1> DEFINE a == town[t]
           e == inbox[a][1]
<1>0. /\ cst \in [Client -> {"new", "held", "queued", "session", "lingering", "closed"}]
      /\ \A u \in Thread : Uses(u) => tcl[u] \in Client
      /\ gpc # "idle" => gcl \in Client
      /\ tpc \in [Thread -> {"none", "recv", "got", "open", "fail", "serve", "fin",
                             "free", "dec"}]
      /\ tcl \in [Thread -> Client \union {NoClient}]
  BY DEF TypeInv, TypeOK, Shape, Uses
<1>1. /\ a \in Agent /\ 1 \in 1 .. Len(inbox[a]) /\ e \in InboxEntry
      /\ tcl' = [tcl EXCEPT ![t] = e.cl]
      /\ cst' = [cst EXCEPT ![e.cl] = "session"]
      /\ \A b \in Agent : \A i \in 1 .. Len(inbox'[b]) :
           IF b = a THEN i + 1 \in 1 .. Len(inbox[b]) /\ inbox'[b][i] = inbox[b][i + 1]
                    ELSE i \in 1 .. Len(inbox[b]) /\ inbox'[b][i] = inbox[b][i]
  BY ReceiveInbox
<1>2. UNCHANGED <<gwVars, town, cown>> /\ tpc[t] = "recv" /\ tpc' = [tpc EXCEPT ![t] = "got"]
  BY DEF ThreadReceive, Goto
<1>3. e.cl \in Client /\ cst[e.cl] = "queued" /\ cown[e.cl] = a
  BY <1>1 DEF PlaceInv, QueuedOnce, InboxEntry
<1>4. \A b \in Agent : \A i \in 1 .. Len(inbox[b]) : inbox[b][i].cl \in Client
  BY InboxClients
<1>5. QueuedOnce'
  <2>1. ASSUME NEW b \in Agent, NEW i \in 1 .. Len(inbox'[b])
        PROVE  /\ cst'[inbox'[b][i].cl] = "queued" /\ cown'[inbox'[b][i].cl] = b
               /\ \A j \in 1 .. Len(inbox'[b]) : inbox'[b][i].cl = inbox'[b][j].cl => i = j
    <3> DEFINE d(i_) == IF b = a THEN i_ + 1 ELSE i_
    <3>1. \A k \in 1 .. Len(inbox'[b]) :
            d(k) \in 1 .. Len(inbox[b]) /\ inbox'[b][k] = inbox[b][d(k)]
      BY <1>1
    <3>2. \A j, k \in 1 .. Len(inbox'[b]) : d(j) = d(k) => j = k
      OBVIOUS
    <3>3. inbox[b][d(i)].cl # e.cl
      <4>1. CASE b = a
        <5>1. d(i) # 1
          BY <4>1
        <5> QED
          BY <1>1, <3>1, <4>1, <5>1 DEF PlaceInv, QueuedOnce
      <4>2. CASE b # a
        BY <1>3, <3>1, <4>2 DEF PlaceInv, QueuedOnce
      <4> QED
        BY <4>1, <4>2
    <3> HIDE DEF d
    <3>4. cst'[inbox'[b][i].cl] = "queued" /\ cown'[inbox'[b][i].cl] = b
      BY <1>0, <1>1, <1>2, <1>4, <3>1, <3>3 DEF PlaceInv, QueuedOnce
    <3>5. ASSUME NEW j \in 1 .. Len(inbox'[b]), inbox'[b][i].cl = inbox'[b][j].cl
          PROVE  i = j
      <4>1. /\ d(i) \in 1 .. Len(inbox[b]) /\ d(j) \in 1 .. Len(inbox[b])
            /\ inbox[b][d(i)].cl = inbox[b][d(j)].cl
        BY <3>1, <3>5
      <4>2. d(i) = d(j)
        BY <4>1 DEF PlaceInv, QueuedOnce
      <4> QED
        BY <3>2, <4>2
    <3> QED
      BY <3>4, <3>5
  <2> QED
    BY <2>1 DEF QueuedOnce
<1>6. UsedOnce'
  <2>1. \A u \in Thread : Uses(u) => u # t /\ tcl[u] \in Client /\ tcl[u] # e.cl
    BY <1>0, <1>2, <1>3 DEF PlaceInv, UsedOnce, Uses
  <2>2. \A u \in Thread : u # t => (Uses(u)' <=> Uses(u)) /\ tcl'[u] = tcl[u]
    BY <1>0, <1>1, <1>2 DEF Uses
  <2>3. tcl'[t] = e.cl /\ cst'[e.cl] = "session"
    BY <1>0, <1>1, <1>3
  <2>4. \A u \in Thread : Uses(u)' =>
          cst'[tcl'[u]] = "session" /\ cown'[tcl'[u]] = town'[u]
    BY <1>0, <1>1, <1>2, <1>3, <2>1, <2>2, <2>3 DEF PlaceInv, UsedOnce
  <2>5. \A u, v \in Thread : Uses(u)' /\ Uses(v)' /\ tcl'[u] = tcl'[v] => u = v
    BY <2>1, <2>2, <2>3 DEF PlaceInv, UsedOnce
  <2> QED
    BY <2>4, <2>5 DEF UsedOnce
<1>7. HeldOnce'
  BY <1>0, <1>1, <1>2, <1>3 DEF PlaceInv, HeldOnce, gwVars
<1> QED
  BY <1>5, <1>6, <1>7 DEF PlaceInv

LEMMA GatewayPlace == ASSUME TypeInv, PlaceInv, Gateway PROVE PlaceInv'
<1>0. /\ cst \in [Client -> {"new", "held", "queued", "session", "lingering", "closed"}]
      /\ cown \in [Client -> Agent \union {NoAgent}]
      /\ gpc # "idle" => gcl \in Client
  BY DEF TypeInv, TypeOK, Shape
<1>1. CASE GatewayPickCursor
  <2>1. devi + 1 \in Pxid
    BY SizeAssumption DEF TypeInv, TypeOK, Pxid
  <2> QED
    BY <1>1, <2>1, HandOverPlace DEF GatewayPickCursor
<1>2. CASE GatewayPickScan
  <2>1. PICK i \in FreeProbes : HandOver(Probe(devi, i) + 1)
    BY <1>2 DEF GatewayPickScan, First
  <2>2. Probe(devi, i) + 1 \in Pxid
    BY <2>1, ProbeType DEF FreeProbes, TypeInv, TypeOK
  <2> QED
    BY <1>2, <2>1, <2>2, HandOverPlace DEF GatewayPickScan
<1>3. ASSUME NEW c \in Client,
             \/ GatewayAccept(c) \/ GatewayFull(c) \/ GatewayForkFails(c)
             \/ \E a \in Agent : GatewayFork(c, a)
      PROVE  PlaceInv'
  <2>1. cst[c] = "new" /\ gpc = "idle" /\ UNCHANGED <<inbox, thVars>>
    BY <1>3 DEF GatewayAccept, GatewayFull, GatewayForkFails, GatewayFork
  <2>2. \A d \in Client : d # c => cst'[d] = cst[d] /\ cown'[d] = cown[d]
    BY <1>0, <1>3 DEF GatewayAccept, GatewayFull, GatewayForkFails, GatewayFork
  <2>3. HeldOnce'
    BY <1>0, <1>3 DEF GatewayAccept, GatewayFull, GatewayForkFails, GatewayFork, HeldOnce,
                      gwVars
  <2> QED
    BY <2>1, <2>2, <2>3, PlaceCalm DEF thVars, Uses
<1>4. CASE GatewayRecord
  <2>1. HeldOnce'
    BY <1>4 DEF GatewayRecord, clVars, PlaceInv, HeldOnce
  <2> QED
    BY <1>4, <2>1, PlaceCalm DEF GatewayRecord, clVars, thVars, Uses
<1>5. CASE GatewayNoPxid
  <2>1. cst[gcl] = "held" /\ gcl \in Client
    BY <1>0, <1>5 DEF GatewayNoPxid, PlaceInv, HeldOnce
  <2>2. \A d \in Client : d # gcl => cst'[d] = cst[d]
    BY <1>0, <1>5, <2>1 DEF GatewayNoPxid
  <2>3. HeldOnce'
    BY <1>5 DEF GatewayNoPxid, GatewayDone, HeldOnce
  <2> QED
    BY <1>5, <2>1, <2>2, <2>3, PlaceCalm DEF GatewayNoPxid, thVars, Uses
<1> QED
  BY <1>1, <1>2, <1>3, <1>4, <1>5 DEF Gateway

LEMMA AgentPlace ==
  ASSUME TypeInv, PlaceInv, NEW a \in Agent, AgentStep(a) PROVE PlaceInv'
<1>1. CASE AgentAttach(a) \/ AgentTop(a) \/ AgentLeave(a)
           \/ AgentSelectTimeout(a) \/ AgentSpawnFails(a)
  <2>1. UNCHANGED <<gwVars, inbox, thVars, clVars>>
    BY <1>1 DEF AgentAttach, AgentTop, AgentLeave, AgentSelectTimeout, AgentSpawnFails
  <2>2. HeldOnce'
    BY <2>1 DEF PlaceInv, HeldOnce, gwVars, clVars
  <2> QED
    BY <2>1, <2>2, PlaceCalm DEF thVars, clVars, Uses
<1>2. ASSUME NEW t \in Thread, AgentSpawn(a, t) PROVE PlaceInv'
  <2>1. HeldOnce'
    BY <1>2 DEF AgentSpawn, PlaceInv, HeldOnce, gwVars, clVars
  <2>2. \A u \in Thread : Uses(u)' => Uses(u) /\ town'[u] = town[u]
    BY <1>2 DEF AgentSpawn, Uses, TypeInv, TypeOK
  <2> QED
    BY <1>2, <2>1, <2>2, PlaceCalm DEF AgentSpawn, clVars
<1>3. CASE AgentGiveUp(a) \/ AgentExecFails(a) \/ AgentExit(a) \/ AgentTerm(a)
           \/ AgentCrash(a)
  <2>1. PICK gone \in {{}, MyprocUsr(a)} : ProcessGone(a, gone)
    BY <1>3 DEF AgentGiveUp, AgentExecFails, AgentExit, AgentTerm, AgentCrash
  <2>2. UNCHANGED <<gwVars, town, tcl, cown>>
    BY <1>3 DEF AgentGiveUp, AgentExecFails, AgentExit, AgentTerm, AgentCrash
  <2> QED
    BY <2>1, <2>2, ProcessGonePlace
<1> QED
  BY <1>1, <1>2, <1>3 DEF AgentStep

LEMMA ThreadPlace ==
  ASSUME TypeInv, PlaceInv, NEW t \in Thread, ThreadStep(t) PROVE PlaceInv'
<1>0. /\ cst \in [Client -> {"new", "held", "queued", "session", "lingering", "closed"}]
      /\ tpc \in [Thread -> {"none", "recv", "got", "open", "fail", "serve", "fin",
                             "free", "dec"}]
      /\ gpc # "idle" => gcl \in Client
      /\ \A u \in Thread : Uses(u) => tcl[u] \in Client
  BY DEF TypeInv, TypeOK, Shape, Uses
<1>1. CASE ThreadReceive(t)
  BY <1>1, ReceivePlace
<1>2. CASE ThreadMark(t) \/ ThreadOpen(t) \/ ThreadOpenFails(t) \/ ThreadClose(t)
           \/ ThreadExit(t)
  <2>1. UNCHANGED <<gwVars, inbox, town, tcl, clVars>>
    BY <1>2 DEF ThreadMark, ThreadOpen, ThreadOpenFails, ThreadClose, ThreadExit
  <2>2. HeldOnce'
    BY <2>1 DEF PlaceInv, HeldOnce, gwVars, clVars
  <2>3. \A u \in Thread : Uses(u)' => Uses(u)
    BY <1>0, <1>2 DEF ThreadMark, ThreadOpen, ThreadOpenFails, ThreadClose, ThreadExit,
                      Goto, Uses
  <2> QED
    BY <2>1, <2>2, <2>3, PlaceCalm DEF clVars
<1>3. CASE ThreadEnd(t) \/ ThreadFree(t)
  <2>1. UNCHANGED <<gwVars, inbox, town, tcl, cown>>
    BY <1>3 DEF ThreadEnd, ThreadFree
  <2>2. \A u \in Thread : Uses(u)' => Uses(u) /\ u # t
    BY <1>0, <1>3 DEF ThreadEnd, ThreadFree, Goto, Uses
  <2>3. CASE Uses(t)
    <3>1. tcl[t] \in Client /\ cst[tcl[t]] = "session"
      BY <1>0, <2>3 DEF PlaceInv, UsedOnce
    <3>2. \A c \in Client : c # tcl[t] => cst'[c] = cst[c]
      BY <1>0, <1>3, <3>1 DEF ThreadEnd, ThreadFree
    <3>3. HeldOnce'
      BY <1>0, <2>1, <3>1, <3>2 DEF PlaceInv, HeldOnce, gwVars
    <3>4. \A u \in Thread : Uses(u)' => tcl[u] # tcl[t]
      BY <2>2, <2>3 DEF PlaceInv, UsedOnce
    <3> QED
      BY <2>1, <2>2, <3>1, <3>2, <3>3, <3>4, PlaceCalm
  <2>4. CASE ~Uses(t)
    <3>1. \A c \in Client : cst'[c] = cst[c]
      BY <1>0, <1>3, <2>4 DEF ThreadEnd, ThreadFree, Goto, Uses
    <3>2. HeldOnce'
      BY <1>0, <2>1, <3>1 DEF PlaceInv, HeldOnce, gwVars
    <3> QED
      BY <2>1, <2>2, <3>1, <3>2, PlaceCalm
  <2> QED
    BY <2>3, <2>4
<1> QED
  BY <1>1, <1>2, <1>3 DEF ThreadStep

LEMMA PlaceInductive ==
  /\ Init => PlaceInv
  /\ TypeInv /\ PlaceInv /\ [Next]_vars => PlaceInv'
<1>1. Init => PlaceInv
  BY DEF Init, PlaceInv, QueuedOnce, UsedOnce, HeldOnce, Uses
<1>2. ASSUME TypeInv, PlaceInv, [Next]_vars PROVE PlaceInv'
  <2>1. CASE UNCHANGED vars
    <3>1. HeldOnce'
      BY <1>2, <2>1 DEF vars, gwVars, clVars, PlaceInv, HeldOnce
    <3> QED
      BY <1>2, <2>1, <3>1, PlaceCalm DEF vars, thVars, clVars, Uses
  <2> QED
    BY <1>2, <2>1, GatewayPlace, AgentPlace, ThreadPlace DEF Next
<1> QED
  BY <1>1, <1>2

-----------------------------------------------------------------------------
(* The refinement.  Every step is a step of PnoxClients, or changes nothing  *)
(* it knows of.                                                              *)

Ready == TypeInv /\ TracesInv /\ OwnInv /\ PlaceInv

LEMMA ReadyAlways == Spec => []Ready
<1>1. Init => Ready
  BY InitType, TracesInductive, OwnInductive, PlaceInductive DEF Ready
<1>2. Ready /\ [Next]_vars => Ready'
  BY NextType, TracesInductive, OwnInductive, PlaceInductive DEF Ready
<1> QED
  BY <1>1, <1>2, PTL DEF Spec

\* The mapping, one element at a time.
LEMMA UnderIs ==
  \A c, p : <<c, p>> \in Under <=>
    \E t \in Thread : tpc[t] = "serve" /\ tcl[t] = c /\ tpxid[t] = p
BY DEF Under, Serving

LEMMA UnderPairs ==
  /\ \A x \in Under : \E t \in Thread :
       tpc[t] = "serve" /\ x = <<tcl[t], tpxid[t]>> /\ x[1] = tcl[t] /\ x[2] = tpxid[t]
  /\ \A t \in Thread : tpc[t] = "serve" => <<tcl[t], tpxid[t]>> \in Under
BY DEF Under, Serving

\* Whom an id reaches is served under it, and is not done with.
LEMMA ReachIs ==
  ASSUME Ready, NEW p \in Pxid
  PROVE  \/ Reach[p] = NoClient
         \/ \E t \in Thread : /\ path[p] = t /\ tpc[t] = "serve" /\ tpxid[t] = p
                              /\ Reach[p] = tcl[t] /\ tcl[t] \in Client
                              /\ cst[tcl[t]] = "session" /\ cown[tcl[t]] = town[t]
<1>1. CASE path[p] \in Serving
  <2>1. PICK t \in Thread : path[p] = t /\ tpc[t] = "serve"
    BY <1>1 DEF Serving
  <2>2. Reach[p] = tcl[t]
    BY <1>1, <2>1 DEF Reach
  <2>3. tpxid[t] = p
    BY <2>1 DEF Ready, TracesInv, Traces
  <2>4. tcl[t] \in Client
    BY <2>1 DEF Ready, TypeInv, Shape
  <2>5. cst[tcl[t]] = "session" /\ cown[tcl[t]] = town[t]
    BY <2>1 DEF Ready, PlaceInv, UsedOnce, Uses
  <2> QED
    BY <2>1, <2>2, <2>3, <2>4, <2>5
<1>2. CASE path[p] \notin Serving
  BY <1>2 DEF Reach
<1> QED
  BY <1>1, <1>2

\* A step that leaves alone who is served under what id.
SameService ==
  /\ \A t \in Thread : tpc'[t] = "serve" <=> tpc[t] = "serve"
  /\ \A t \in Thread : tpc[t] = "serve" => tcl'[t] = tcl[t] /\ tpxid'[t] = tpxid[t]

LEMMA SameServiceUnder == ASSUME SameService PROVE Under' = Under /\ Serving' = Serving
<1>1. Serving' = Serving
  BY DEF SameService, Serving
<1>2. \A x : x \in Under' <=> x \in Under
  BY <1>1 DEF SameService, Under, Serving
<1> QED
  BY <1>1, <1>2

LEMMA SameServiceReach == ASSUME SameService, path' = path PROVE Reach' = Reach
<1>1. Serving' = Serving
  BY SameServiceUnder
<1>2. \A p \in Pxid : path[p] \in Serving => tcl'[path[p]] = tcl[path[p]]
  BY DEF SameService, Serving
<1> QED
  BY <1>1, <1>2 DEF Reach

Done(c) == cst[c] \in {"lingering", "closed"}
SameOver == \A c \in Client : Done(c)' <=> Done(c)

LEMMA SameOverOver == ASSUME SameOver PROVE Over' = Over
BY DEF SameOver, Done, Over

Stutter == UNCHANGED Clients!vars

LEMMA StutterWhen ==
  ASSUME SameService, SameOver, UNCHANGED <<path, dup>> PROVE Stutter
BY SameServiceUnder, SameServiceReach, SameOverOver DEF Stutter, Clients!vars

\* One connection is done with and its thread, if it had one, serves no more.
LEMMA EndOne ==
  ASSUME Ready, NEW c \in Client, ~Done(c), Done(c)',
         \A d \in Client : d # c => cst'[d] = cst[d],
         \A t \in Thread : tpc'[t] = "serve" <=> tpc[t] = "serve" /\ tcl[t] # c,
         UNCHANGED <<path, dup, tcl, tpxid>>
  PROVE  Clients!Next
<1>1. Over' = Over \union {c} /\ c \notin Over /\ c \in Client \ Over
  BY DEF Over, Done
<1>2. Under' = {u \in Under : u[1] \notin {c}}
  <2>1. ASSUME NEW x \in Under' PROVE x \in Under /\ x[1] # c
    <3>1. PICK t \in Thread : tpc'[t] = "serve" /\ x = <<tcl'[t], tpxid'[t]>>
      BY <2>1 DEF Under, Serving
    <3> QED
      BY <3>1, UnderPairs
  <2>2. ASSUME NEW x \in Under, x[1] # c PROVE x \in Under'
    <3>1. PICK t \in Thread : tpc[t] = "serve" /\ x = <<tcl[t], tpxid[t]>> /\ x[1] = tcl[t]
      BY <2>2, UnderPairs
    <3>2. t \in Serving' /\ x = <<tcl'[t], tpxid'[t]>>
      BY <2>2, <3>1 DEF Serving
    <3> QED
      BY <3>2 DEF Under
  <2> QED
    BY <2>1, <2>2
<1>3. \A p \in Pxid : Reach'[p] = IF Reach[p] \in {c} THEN NoClient ELSE Reach[p]
  <2>1. ASSUME NEW p \in Pxid
        PROVE  Reach'[p] = IF Reach[p] \in {c} THEN NoClient ELSE Reach[p]
    <3>1. Reach'[p] = IF path[p] \in Serving' THEN tcl[path[p]] ELSE NoClient
      BY DEF Reach
    <3>2. Reach[p] = IF path[p] \in Serving THEN tcl[path[p]] ELSE NoClient
      BY DEF Reach
    <3>3. path[p] \in Serving' <=> path[p] \in Serving /\ tcl[path[p]] # c
      BY DEF Serving
    <3> QED
      BY <3>1, <3>2, <3>3, SetAssumption
  <2> QED
    BY <2>1
<1>4. DOMAIN Reach' = Pxid
  BY DEF Reach
<1>5. Clients!End({c})
  BY <1>1, <1>2, <1>3, <1>4 DEF Clients!End, Clients!Ids, Pxid
<1> QED
  BY <1>1, <1>5 DEF Clients!Next

\* A name is taken away by a thread that holds its id: that of another session
\* only if the two share the id.
LEMMA LoseOne ==
  ASSUME Ready, NEW t \in Thread, Holder(t, tpxid[t]), tpxid[t] \in Pxid, tpc[t] # "serve",
         path' = [path EXCEPT ![tpxid[t]] = NoThread],
         SameService, SameOver, UNCHANGED <<tcl, dup>>
  PROVE  Clients!Next \/ Stutter
<1> DEFINE p == tpxid[t]
<1>1. Under' = Under /\ Serving' = Serving /\ Over' = Over
  BY SameServiceUnder, SameOverOver
<1>2. Reach' = [Reach EXCEPT ![p] = NoClient]
  <2>1. path \in [Pxid -> Thread \union {NoThread, Stale}]
    BY DEF Ready, TypeInv, TypeOK
  <2>2. \A q \in Pxid : path'[q] = IF q = p THEN NoThread ELSE path[q]
    BY <2>1
  <2>3. NoThread \notin Serving
    BY SetAssumption DEF Serving
  <2>4. \A q \in Pxid : Reach'[q] = IF path'[q] \in Serving' THEN tcl'[path'[q]] ELSE NoClient
    BY DEF Reach
  <2>5. \A q \in Pxid : Reach[q] = IF path[q] \in Serving THEN tcl[path[q]] ELSE NoClient
    BY DEF Reach
  <2>6. \A q \in Pxid : Reach'[q] = IF q = p THEN NoClient ELSE Reach[q]
    BY <1>1, <2>2, <2>3, <2>4, <2>5
  <2>7. Reach' = [q \in Pxid |-> Reach'[q]] /\ Reach = [q \in Pxid |-> Reach[q]]
    BY DEF Reach
  <2> QED
    BY <2>6, <2>7
<1>3. CASE p \in dup
  <2>1. Clients!Lose(p)
    BY <1>1, <1>2, <1>3 DEF Clients!Lose
  <2> QED
    BY <2>1 DEF Clients!Next, Clients!Ids, Pxid
<1>4. CASE p \notin dup
  <2>1. ASSUME NEW u \in Thread, tpc[u] = "serve", tpxid[u] = p PROVE FALSE
    <3>1. Holder(u, p)
      BY <2>1 DEF Holder, Marked
    <3> QED
      BY <1>4, <2>1, <3>1 DEF Ready, OwnInv, Own, OneHolds
  <2>2. Reach[p] = NoClient
    BY <2>1, ReachIs
  <2>3. Reach' = Reach
    BY <1>2, <2>2 DEF Reach
  <2> QED
    BY <1>1, <2>3 DEF Stutter, Clients!vars
<1> QED
  BY <1>3, <1>4

\* A client is offered an id; it is an id's only claim to be shared that it is
\* picked while in flight, and its end that it is picked while nobody holds it.
LEMMA OfferOne ==
  ASSUME Ready, gpc = "pick", NEW p \in Pxid, HandOver(p), UNCHANGED <<path, thVars>>
  PROVE  Clients!Next
<1>0. gcl \in Client /\ cst[gcl] = "held"
  BY DEF Ready, TypeInv, TypeOK, Shape, PlaceInv, HeldOnce
<1>1. cst \in [Client -> {"new", "held", "queued", "session", "lingering", "closed"}]
  BY DEF Ready, TypeInv, TypeOK
<1>2. \A d \in Client : d # gcl => cst'[d] = cst[d]
  BY <1>0, <1>1 DEF HandOver
<1>3. gcl \notin Over /\ Over' \in {Over, Over \union {gcl}}
  BY <1>0, <1>2 DEF Over
<1>4. Under' = Under /\ Reach' = Reach
  BY SameServiceUnder, SameServiceReach DEF SameService, thVars
<1>5. ~Clients!Served(gcl)
  <2>1. ASSUME NEW q, <<gcl, q>> \in Under PROVE FALSE
    <3>1. PICK t \in Thread : tpc[t] = "serve" /\ tcl[t] = gcl
      BY <2>1, UnderIs
    <3>2. cst[tcl[t]] = "session"
      BY <3>1 DEF Ready, PlaceInv, UsedOnce, Uses
    <3> QED
      BY <1>0, <3>1, <3>2
  <2> QED
    BY <2>1 DEF Clients!Served
<1>6. \/ dup' = dup
      \/ dup' = dup \union {p}
      \/ dup' = dup \ {p} /\ ~Clients!Busy(p) /\ Reach[p] = NoClient
  <2>1. CASE InFlight(p) \/ Held(p)
    BY <2>1 DEF HandOver, DupAfter
  <2>2. CASE ~InFlight(p) /\ ~Held(p)
    <3>1. dup' = dup \ {p}
      BY <2>2 DEF HandOver, DupAfter
    <3>2. \A t \in Thread : ~(tpc[t] = "serve" /\ tpxid[t] = p)
      BY <2>2 DEF Held, Marked
    <3>3. ~Clients!Busy(p)
      BY <3>2, UnderIs DEF Clients!Busy
    <3>4. Reach[p] = NoClient
      BY <3>2, ReachIs
    <3> QED
      BY <3>1, <3>3, <3>4
  <2> QED
    BY <2>1, <2>2
<1>7. Clients!Offer(gcl, p)
  BY <1>3, <1>4, <1>5, <1>6 DEF Clients!Offer
<1> QED
  BY <1>0, <1>7 DEF Clients!Next, Clients!Ids, Pxid

LEMMA ServeOne ==
  ASSUME Ready, NEW t \in Thread, ThreadOpen(t) PROVE Clients!Next
<1> DEFINE c == tcl[t]
           p == tpxid[t]
<1>0. tpc[t] = "open" /\ p \in Pxid /\ c \in Client /\ cst[c] = "session"
  BY DEF ThreadOpen, Goto, Ready, TypeInv, Shape, PlaceInv, UsedOnce, Uses
<1>1. /\ tpc \in [Thread -> {"none", "recv", "got", "open", "fail", "serve", "fin",
                             "free", "dec"}]
      /\ path \in [Pxid -> Thread \union {NoThread, Stale}]
  BY DEF Ready, TypeInv, TypeOK
<1>2. /\ tpc' = [tpc EXCEPT ![t] = "serve"] /\ path' = [path EXCEPT ![p] = t]
      /\ UNCHANGED <<tcl, tpxid, cst, dup>>
  BY DEF ThreadOpen, Goto, clVars, histVars
<1>3. Serving' = Serving \union {t}
  BY <1>1, <1>2 DEF Serving
<1>4. Under' = Under \union {<<c, p>>}
  BY <1>2, <1>3 DEF Under
<1>5. Over' = Over /\ c \notin Over
  BY <1>0, <1>2 DEF Over
<1>6. ~Clients!Served(c)
  <2>1. ASSUME NEW q, <<c, q>> \in Under PROVE FALSE
    <3>1. PICK u \in Thread : tpc[u] = "serve" /\ tcl[u] = c
      BY <2>1, UnderIs
    <3>2. u = t
      BY <1>0, <3>1 DEF Ready, PlaceInv, UsedOnce, Uses
    <3> QED
      BY <1>0, <3>1, <3>2
  <2> QED
    BY <2>1 DEF Clients!Served
<1>7. p \in dup \/ ~Clients!Busy(p)
  <2>1. ASSUME p \notin dup, NEW d, <<d, p>> \in Under PROVE FALSE
    <3>1. PICK u \in Thread : tpc[u] = "serve" /\ tpxid[u] = p
      BY <2>1, UnderIs
    <3>2. Holder(u, p) /\ Holder(t, p)
      BY <1>0, <3>1 DEF Holder, Marked
    <3>3. u = t
      BY <1>0, <2>1, <3>2 DEF Ready, OwnInv, Own, OneHolds
    <3> QED
      BY <1>0, <3>1, <3>3
  <2> QED
    BY <2>1 DEF Clients!Busy
<1>8. Reach' = [Reach EXCEPT ![p] = c]
  <2>1. \A q \in Pxid : Reach'[q] = IF path'[q] \in Serving' THEN tcl'[path'[q]] ELSE NoClient
    BY DEF Reach
  <2>2. \A q \in Pxid : Reach[q] = IF path[q] \in Serving THEN tcl[path[q]] ELSE NoClient
    BY DEF Reach
  <2>3. \A q \in Pxid : q # p => path'[q] = path[q] /\ path[q] # t
    BY <1>0, <1>1, <1>2 DEF Ready, TracesInv, Traces
  <2>4. path'[p] = t
    BY <1>0, <1>1, <1>2
  <2>5. \A q \in Pxid : Reach'[q] = IF q = p THEN c ELSE Reach[q]
    BY <1>2, <1>3, <2>1, <2>2, <2>3, <2>4
  <2>6. Reach' = [q \in Pxid |-> Reach'[q]] /\ Reach = [q \in Pxid |-> Reach[q]]
    BY DEF Reach
  <2> QED
    BY <2>5, <2>6
<1>9. Clients!Serve(c, p)
  BY <1>2, <1>4, <1>5, <1>6, <1>7, <1>8 DEF Clients!Serve
<1> QED
  BY <1>0, <1>9 DEF Clients!Next, Clients!Ids, Pxid

\* A process that ends takes its clients with it, and no other: the names it
\* unlinks are those of its own sessions, or of ids that are shared.
LEMMA EndAll ==
  ASSUME Ready, NEW a \in Agent, NEW gone, ProcessGone(a, gone),
         gone \subseteq MyprocUsr(a), UNCHANGED <<town, tpxid, tcl, dup>>
  PROVE  Clients!Next \/ Stutter
<1> DEFINE S == {c \in Client : cown[c] = a /\ cst[c] \in {"queued", "session"}}
<1>0. /\ \A t \in Thread : tpc'[t] = IF town[t] = a THEN "none" ELSE tpc[t]
      /\ \A c \in Client :
           cst'[c] = IF cown[c] = a /\ cst[c] \in {"queued", "session", "lingering"}
                     THEN "closed" ELSE cst[c]
      /\ \A p \in Pxid :
           path'[p] = IF p \in gone THEN NoThread
                      ELSE IF path[p] \in Thread /\ town[path[p]] = a
                           THEN Stale ELSE path[p]
  BY DEF ProcessGone
<1>1. Over' = Over \union S /\ S \in SUBSET (Client \ Over)
  BY <1>0 DEF Over
<1>2. \A t \in Thread : tpc[t] = "serve" =>
        tcl[t] \in Client /\ (tcl[t] \in S <=> town[t] = a)
  BY DEF Ready, TypeInv, Shape, PlaceInv, UsedOnce, Uses
<1>3. Under' = {u \in Under : u[1] \notin S}
  <2>1. ASSUME NEW x \in Under' PROVE x \in Under /\ x[1] \notin S
    <3>1. PICK t \in Thread : tpc'[t] = "serve" /\ x = <<tcl'[t], tpxid'[t]>>
      BY <2>1 DEF Under, Serving
    <3>2. tpc[t] = "serve" /\ town[t] # a /\ x = <<tcl[t], tpxid[t]>> /\ x[1] = tcl[t]
      BY <1>0, <3>1
    <3> QED
      BY <1>2, <3>2, UnderPairs
  <2>2. ASSUME NEW x \in Under, x[1] \notin S PROVE x \in Under'
    <3>1. PICK t \in Thread : tpc[t] = "serve" /\ x = <<tcl[t], tpxid[t]>> /\ x[1] = tcl[t]
      BY <2>2, UnderPairs
    <3>2. town[t] # a
      BY <1>2, <2>2, <3>1
    <3>3. t \in Serving' /\ x = <<tcl'[t], tpxid'[t]>>
      BY <1>0, <3>1, <3>2 DEF Serving
    <3> QED
      BY <3>3 DEF Under
  <2> QED
    BY <2>1, <2>2
<1>4. ASSUME NEW p \in Pxid
      PROVE  \/ Reach'[p] = IF Reach[p] \in S THEN NoClient ELSE Reach[p]
             \/ p \in dup /\ p \in gone /\ Reach'[p] = NoClient
  <2>1. Reach'[p] = IF path'[p] \in Serving' THEN tcl[path'[p]] ELSE NoClient
    BY DEF Reach
  <2>2. Stale \notin Thread /\ NoThread \notin Thread /\ NoClient \notin S
    BY SetAssumption
  <2>3. \A t : t \in Serving' <=> t \in Thread /\ tpc[t] = "serve" /\ town[t] # a
    BY <1>0 DEF Serving
  <2>4. CASE p \in gone
    <3>1. Reach'[p] = NoClient
      BY <1>0, <2>1, <2>2, <2>3, <2>4
    <3>2. PICK t \in Thread : tpc[t] = "serve" /\ tpxid[t] = p /\ town[t] = a
      BY <2>4 DEF MyprocUsr, ThreadsOf
    <3>3. CASE p \notin dup
      <4>1. path[p] = t
        BY <3>2, <3>3 DEF Ready, OwnInv, Own, Keeps
      <4>2. Reach[p] \in S
        BY <1>2, <3>2, <4>1 DEF Reach, Serving
      <4> QED
        BY <3>1, <4>2
    <3> QED
      BY <2>4, <3>1, <3>3
  <2>5. CASE p \notin gone
    <3>1. Reach[p] = IF path[p] \in Serving THEN tcl[path[p]] ELSE NoClient
      BY DEF Reach
    <3>2. CASE path[p] \in Thread /\ town[path[p]] = a
      <4>1. Reach'[p] = NoClient
        BY <1>0, <2>1, <2>2, <2>3, <2>5, <3>2
      <4>2. Reach[p] \in S \union {NoClient}
        BY <1>2, <3>1, <3>2 DEF Serving
      <4> QED
        BY <4>1, <4>2
    <3>3. CASE ~(path[p] \in Thread /\ town[path[p]] = a)
      <4>1. path'[p] = path[p] /\ (path[p] \in Serving' <=> path[p] \in Serving)
        BY <1>0, <2>3, <2>5, <3>3 DEF Serving
      <4>2. Reach'[p] = Reach[p]
        BY <2>1, <3>1, <4>1
      <4>3. Reach[p] \notin S
        BY <1>2, <2>2, <3>1, <3>3 DEF Serving
      <4> QED
        BY <4>2, <4>3
    <3> QED
      BY <3>2, <3>3
  <2> QED
    BY <2>4, <2>5
<1>5. DOMAIN Reach' = Pxid
  BY DEF Reach
<1>6. CASE S # {}
  <2>1. Clients!End(S)
    BY <1>1, <1>3, <1>4, <1>5, <1>6 DEF Clients!End, Clients!Ids, Pxid
  <2> QED
    BY <1>1, <2>1 DEF Clients!Next
<1>7. CASE S = {}
  <2>1. gone = {}
    BY <1>2, <1>7 DEF MyprocUsr, ThreadsOf
  <2>2. \A p \in Pxid : Reach'[p] = Reach[p]
    BY <1>4, <1>7, <2>1
  <2>3. Reach' = [q \in Pxid |-> Reach'[q]] /\ Reach = [q \in Pxid |-> Reach[q]]
    BY DEF Reach
  <2>4. Reach' = Reach
    BY <2>2, <2>3
  <2>5. Under' = Under
    <3>1. \A u : u \in Under' <=> u \in Under
      BY <1>3, <1>7
    <3> QED
      BY <3>1
  <2>6. Over' = Over
    BY <1>1, <1>7
  <2> QED
    BY <2>4, <2>5, <2>6 DEF Stutter, Clients!vars
<1> QED
  BY <1>6, <1>7

LEMMA GatewayMaps == ASSUME Ready, Gateway PROVE Clients!Next \/ Stutter
<1>0. /\ cst \in [Client -> {"new", "held", "queued", "session", "lingering", "closed"}]
      /\ gpc # "idle" => gcl \in Client /\ cst[gcl] = "held"
      /\ \A t \in Thread : tpc[t] = "serve" => cst[tcl[t]] = "session"
  BY DEF Ready, TypeInv, TypeOK, Shape, PlaceInv, HeldOnce, UsedOnce, Uses
<1>1. CASE GatewayPickCursor
  <2>1. devi + 1 \in Pxid
    BY SizeAssumption DEF Ready, TypeInv, TypeOK, Pxid
  <2> QED
    BY <1>1, <2>1, OfferOne DEF GatewayPickCursor
<1>2. CASE GatewayPickScan
  <2>1. PICK i \in FreeProbes : HandOver(Probe(devi, i) + 1)
    BY <1>2 DEF GatewayPickScan, First
  <2>2. Probe(devi, i) + 1 \in Pxid
    BY <2>1, ProbeType DEF FreeProbes, Ready, TypeInv, TypeOK
  <2> QED
    BY <1>2, <2>1, <2>2, OfferOne DEF GatewayPickScan
<1>3. ASSUME NEW c \in Client, GatewayAccept(c) \/ \E a \in Agent : GatewayFork(c, a)
      PROVE  Stutter
  <2>1. SameOver
    BY <1>0, <1>3 DEF GatewayAccept, GatewayFork, SameOver, Done
  <2> QED
    BY <1>3, <2>1, StutterWhen DEF GatewayAccept, GatewayFork, SameService, thVars, histVars
<1>4. ASSUME NEW c \in Client, GatewayFull(c) \/ GatewayForkFails(c) PROVE Clients!Next
  <2>1. /\ ~Done(c) /\ Done(c)' /\ cst[c] = "new"
        /\ \A d \in Client : d # c => cst'[d] = cst[d]
    BY <1>0, <1>4 DEF GatewayFull, GatewayForkFails, Done
  <2>2. \A t \in Thread : tpc[t] = "serve" => tcl[t] # c
    BY <1>0, <2>1
  <2> QED
    BY <1>4, <2>1, <2>2, EndOne DEF GatewayFull, GatewayForkFails, thVars, histVars
<1>5. CASE GatewayRecord
  BY <1>5, StutterWhen DEF GatewayRecord, SameService, SameOver, Done, thVars, clVars, histVars
<1>6. CASE GatewayNoPxid
  <2>1. PICK c \in Client : c = gcl
    BY <1>0, <1>6 DEF GatewayNoPxid
  <2>2. cst[c] = "held" /\ cst' = [cst EXCEPT ![c] = Dropped(c)]
    BY <1>0, <1>6, <2>1 DEF GatewayNoPxid
  <2>3. Dropped(c) \in {"lingering", "closed"}
    BY DEF Dropped
  <2>4. ~Done(c) /\ Done(c)' /\ \A d \in Client : d # c => cst'[d] = cst[d]
    BY <1>0, <2>2, <2>3 DEF Done
  <2>5. \A t \in Thread : tpc[t] = "serve" => tcl[t] # c
    BY <1>0, <2>2
  <2> QED
    BY <1>6, <2>4, <2>5, EndOne DEF GatewayNoPxid, thVars, histVars
<1> QED
  BY <1>1, <1>2, <1>3, <1>4, <1>5, <1>6 DEF Gateway

LEMMA AgentMaps ==
  ASSUME Ready, NEW a \in Agent, AgentStep(a) PROVE Clients!Next \/ Stutter
<1>1. CASE AgentAttach(a) \/ AgentTop(a) \/ AgentLeave(a)
           \/ AgentSelectTimeout(a) \/ AgentSpawnFails(a)
  <2>1. UNCHANGED <<thVars, clVars, path, dup>>
    BY <1>1 DEF AgentAttach, AgentTop, AgentLeave, AgentSelectTimeout, AgentSpawnFails,
                histVars
  <2> QED
    BY <2>1, StutterWhen DEF SameService, SameOver, Done, thVars, clVars
<1>2. ASSUME NEW t \in Thread, AgentSpawn(a, t) PROVE Stutter
  <2>1. SameService
    BY <1>2 DEF AgentSpawn, SameService, Ready, TypeInv, TypeOK
  <2> QED
    BY <1>2, <2>1, StutterWhen DEF AgentSpawn, SameOver, Done, clVars, histVars
<1>3. CASE AgentGiveUp(a) \/ AgentExecFails(a) \/ AgentExit(a) \/ AgentTerm(a)
           \/ AgentCrash(a)
  <2>1. PICK gone \in {{}, MyprocUsr(a)} : ProcessGone(a, gone)
    BY <1>3 DEF AgentGiveUp, AgentExecFails, AgentExit, AgentTerm, AgentCrash
  <2>2. UNCHANGED <<town, tpxid, tcl, dup>>
    BY <1>3 DEF AgentGiveUp, AgentExecFails, AgentExit, AgentTerm, AgentCrash
  <2> QED
    BY <2>1, <2>2, EndAll
<1> QED
  BY <1>1, <1>2, <1>3 DEF AgentStep

LEMMA ThreadMaps ==
  ASSUME Ready, NEW t \in Thread, ThreadStep(t) PROVE Clients!Next \/ Stutter
<1>0. /\ tpc \in [Thread -> {"none", "recv", "got", "open", "fail", "serve", "fin",
                             "free", "dec"}]
      /\ cst \in [Client -> {"new", "held", "queued", "session", "lingering", "closed"}]
      /\ tpxid \in [Thread -> Pxid \union {0}] /\ tcl \in [Thread -> Client \union {NoClient}]
      /\ tpc[t] \notin {"none", "recv"} => tpxid[t] \in Pxid /\ tcl[t] \in Client
      /\ Uses(t) => cst[tcl[t]] = "session"
  BY DEF Ready, TypeInv, TypeOK, Shape, PlaceInv, UsedOnce
<1>1. CASE ThreadReceive(t)
  <2> DEFINE e == inbox[town[t]][1]
  <2>1. /\ town[t] \in Agent /\ 1 \in 1 .. Len(inbox[town[t]])
        /\ tpxid' = [tpxid EXCEPT ![t] = e.pxid] /\ tcl' = [tcl EXCEPT ![t] = e.cl]
        /\ cst' = [cst EXCEPT ![e.cl] = "session"]
    BY <1>1, ReceiveInbox DEF Ready
  <2>2. cst[e.cl] = "queued"
    BY <2>1 DEF Ready, PlaceInv, QueuedOnce
  <2>3. tpc[t] = "recv" /\ tpc' = [tpc EXCEPT ![t] = "got"] /\ UNCHANGED <<path, dup>>
    BY <1>1 DEF ThreadReceive, Goto, histVars
  <2>4. SameOver
    BY <1>0, <2>1, <2>2 DEF SameOver, Done
  <2>5. SameService
    BY <1>0, <2>1, <2>3 DEF SameService
  <2> QED
    BY <2>3, <2>4, <2>5, StutterWhen
<1>2. CASE ThreadMark(t) \/ ThreadOpenFails(t) \/ ThreadClose(t)
  <2>1. /\ tpc[t] \in {"got", "open", "fin"} /\ path' = [path EXCEPT ![tpxid[t]] = NoThread]
        /\ UNCHANGED <<tcl, tpxid, cst, dup>>
        /\ \A u \in Thread : tpc'[u] = "serve" <=> tpc[u] = "serve"
    BY <1>0, <1>2 DEF ThreadMark, ThreadOpenFails, ThreadClose, Goto, clVars, histVars
  <2>2. Holder(t, tpxid[t]) /\ tpxid[t] \in Pxid /\ tpc[t] # "serve"
    BY <1>0, <2>1 DEF Holder, Marked
  <2> QED
    BY <2>1, <2>2, LoseOne DEF SameService, SameOver, Done
<1>3. CASE ThreadOpen(t)
  BY <1>3, ServeOne
<1>4. CASE ThreadEnd(t) \/ (ThreadFree(t) /\ tpc[t] = "fail")
  <2>1. Uses(t) /\ tcl[t] \in Client /\ cst[tcl[t]] = "session"
    BY <1>0, <1>4 DEF ThreadEnd, Goto, Uses
  <2>2. /\ ~Done(tcl[t]) /\ (\A d \in Client : d # tcl[t] => cst'[d] = cst[d])
        /\ cst'[tcl[t]] \in {"lingering", "closed"}
        /\ UNCHANGED <<path, dup, tcl, tpxid>>
    BY <1>0, <1>4, <2>1 DEF ThreadEnd, ThreadFree, Done, histVars
  <2>3. \A u \in Thread : tpc'[u] = "serve" <=> tpc[u] = "serve" /\ u # t
    BY <1>0, <1>4 DEF ThreadEnd, ThreadFree, Goto
  <2>4. \A u \in Thread : tpc[u] = "serve" => (u # t <=> tcl[u] # tcl[t])
    BY <2>1 DEF Ready, PlaceInv, UsedOnce, Uses
  <2>5. \A c \in Client : c = tcl[t] => Done(c)'
    BY <2>2 DEF Done
  <2>6. PICK c \in Client : c = tcl[t]
    BY <2>1
  <2> QED
    BY <2>2, <2>3, <2>4, <2>5, <2>6, EndOne
<1>5. CASE ThreadFree(t) /\ tpc[t] # "fail"
  <2>1. SameOver
    BY <1>0, <1>5 DEF ThreadFree, SameOver, Done
  <2>2. SameService
    BY <1>0, <1>5 DEF ThreadFree, SameService
  <2> QED
    BY <1>5, <2>1, <2>2, StutterWhen DEF ThreadFree, histVars
<1>6. CASE ThreadExit(t)
  <2>1. SameService
    BY <1>0, <1>6 DEF ThreadExit, Goto, SameService
  <2> QED
    BY <1>6, <2>1, StutterWhen DEF ThreadExit, SameOver, Done, clVars, histVars
<1> QED
  BY <1>1, <1>2, <1>3, <1>4, <1>5, <1>6 DEF ThreadStep

LEMMA InitMaps == Init => Clients!Init
<1> SUFFICES ASSUME Init PROVE Clients!Init
  OBVIOUS
<1>1. Serving = {}
  BY DEF Init, Serving
<1>2. Under = {}
  BY <1>1 DEF Under
<1>3. Over = {}
  BY DEF Init, Over
<1>4. Reach = [p \in Pxid |-> NoClient]
  BY <1>1 DEF Reach
<1> QED
  BY <1>2, <1>3, <1>4 DEF Init, Clients!Init, Clients!Ids, Pxid

\* Gateway, agents and threads implement PnoxClients: a client is served under
\* one id that nobody else is served under, and what is sent to that id reaches
\* it until it is done with, unless the id was handed out twice.
THEOREM SessionsKeepPromise == Spec => ClientsPromise
<1>1. Init => Clients!Init
  BY InitMaps
<1>2. Ready /\ [Next]_vars => [Clients!Next]_Clients!vars
  <2>1. ASSUME Ready, Next PROVE Clients!Next \/ Stutter
    BY <2>1, GatewayMaps, AgentMaps, ThreadMaps DEF Next
  <2>2. ASSUME UNCHANGED vars PROVE Stutter
    BY <2>2, StutterWhen
       DEF vars, thVars, clVars, histVars, SameService, SameOver, Done
  <2> QED
    BY <2>1, <2>2 DEF Stutter
<1> QED
  BY <1>1, <1>2, ReadyAlways, PTL DEF Spec, ClientsPromise, Clients!Spec

-----------------------------------------------------------------------------
(* What follows from PnoxClients alone.                                     *)

\* Who is served has one id, and is not done with.
OneIdEach ==
  /\ Under \subseteq Client \X Pxid
  /\ \A u \in Under : u[1] \notin Over
  /\ \A u, v \in Under : u[1] = v[1] => u[2] = v[2]

\* Of an id that was not handed out twice: the client served under it is the one
\* it reaches, and it reaches nobody else.
ReachedIsServed ==
  \A p \in Pxid \ dup : \A c \in Client : <<c, p>> \in Under <=> Reach[p] = c

LEMMA OfferKeepsServed ==
  ASSUME OneIdEach, ReachedIsServed, NEW c \in Client, NEW p \in Pxid, Clients!Offer(c, p)
  PROVE  OneIdEach' /\ ReachedIsServed'
<1>1. Under' = Under /\ Reach' = Reach /\ Over' \subseteq Over \union {c}
  BY DEF Clients!Offer
<1>2. \A u \in Under : u[1] # c
  <2>1. \A q \in Pxid : <<c, q>> \notin Under
    BY DEF Clients!Offer, Clients!Served, Clients!Ids, Pxid
  <2> QED
    BY <2>1 DEF OneIdEach
<1>3. OneIdEach'
  BY <1>1, <1>2 DEF OneIdEach
<1>4. \A q \in Pxid \ dup' :
        q \notin dup \/ (Reach[q] = NoClient /\ \A d \in Client : <<d, q>> \notin Under)
  BY DEF Clients!Offer, Clients!Busy
<1>5. ReachedIsServed'
  BY <1>1, <1>4, SetAssumption DEF ReachedIsServed
<1> QED
  BY <1>3, <1>5

LEMMA ServeKeepsServed ==
  ASSUME OneIdEach, ReachedIsServed, NEW c \in Client, NEW p \in Pxid, Clients!Serve(c, p),
         DOMAIN Reach = Pxid
  PROVE  OneIdEach' /\ ReachedIsServed'
<1>1. /\ Under' = Under \union {<<c, p>>} /\ Reach' = [Reach EXCEPT ![p] = c]
      /\ Over' = Over /\ dup' = dup /\ c \notin Over
      /\ \A q \in Pxid : <<c, q>> \notin Under
      /\ p \in dup \/ \A d \in Client : <<d, p>> \notin Under
  BY DEF Clients!Serve, Clients!Served, Clients!Busy, Clients!Ids, Pxid
<1>2. OneIdEach'
  BY <1>1 DEF OneIdEach
<1>3. ReachedIsServed'
  <2> SUFFICES ASSUME NEW q \in Pxid \ dup, NEW d \in Client
               PROVE  <<d, q>> \in Under' <=> Reach'[q] = d
    BY <1>1 DEF ReachedIsServed
  <2>1. <<d, q>> \in Under <=> Reach[q] = d
    BY DEF ReachedIsServed
  <2>2. CASE q = p
    BY <1>1, <2>1, <2>2
  <2>3. CASE q # p
    BY <1>1, <2>1, <2>3
  <2> QED
    BY <2>2, <2>3
<1> QED
  BY <1>2, <1>3

LEMMA EndKeepsServed ==
  ASSUME OneIdEach, ReachedIsServed, NEW S \in SUBSET (Client \ Over), Clients!End(S)
  PROVE  OneIdEach' /\ ReachedIsServed'
<1>1. /\ Over' = Over \union S /\ Under' = {u \in Under : u[1] \notin S} /\ dup' = dup
      /\ \A p \in Pxid \ dup : Reach'[p] = IF Reach[p] \in S THEN NoClient ELSE Reach[p]
  BY DEF Clients!End, Clients!Ids, Pxid
<1>2. OneIdEach'
  BY <1>1 DEF OneIdEach
<1>3. ReachedIsServed'
  <2> SUFFICES ASSUME NEW p \in Pxid \ dup, NEW c \in Client
               PROVE  <<c, p>> \in Under' <=> Reach'[p] = c
    BY <1>1 DEF ReachedIsServed
  <2>1. <<c, p>> \in Under <=> Reach[p] = c
    BY DEF ReachedIsServed
  <2>2. <<c, p>> \in Under' <=> <<c, p>> \in Under /\ c \notin S
    BY <1>1
  <2>3. Reach'[p] = IF Reach[p] \in S THEN NoClient ELSE Reach[p]
    BY <1>1
  <2> QED
    BY <2>1, <2>2, <2>3, SetAssumption
<1> QED
  BY <1>2, <1>3

LEMMA LoseKeepsServed ==
  ASSUME OneIdEach, ReachedIsServed, NEW p \in Pxid, Clients!Lose(p)
  PROVE  OneIdEach' /\ ReachedIsServed'
<1>1. DOMAIN Reach = Pxid
  BY DEF Reach
<1>2. /\ p \in dup /\ Reach' = [Reach EXCEPT ![p] = NoClient]
      /\ Under' = Under /\ Over' = Over /\ dup' = dup
  BY DEF Clients!Lose
<1>3. \A q \in Pxid \ dup : Reach'[q] = Reach[q]
  BY <1>1, <1>2
<1> QED
  BY <1>2, <1>3 DEF OneIdEach, ReachedIsServed

\* Who is served is served under one id and is not done with, and as long as an
\* id was not handed out twice what is sent to it reaches the client that is
\* served under it, and nobody when there is none: for any number of ids, slots,
\* agents, threads and clients.
THEOREM ServedIsReached == Spec => [](OneIdEach /\ ReachedIsServed)
<1> DEFINE Inv == OneIdEach /\ ReachedIsServed
<1>1. Init => Inv
  BY InitMaps, SetAssumption DEF Clients!Init, OneIdEach, ReachedIsServed, Clients!Ids, Pxid
<1>2. Inv /\ [Clients!Next]_Clients!vars => Inv'
  <2> SUFFICES ASSUME Inv, [Clients!Next]_Clients!vars PROVE Inv'
    OBVIOUS
  <2>0. DOMAIN Reach = Pxid
    BY DEF Reach
  <2>1. CASE Clients!Next
    BY <2>0, <2>1, OfferKeepsServed, ServeKeepsServed, EndKeepsServed, LoseKeepsServed
       DEF Clients!Next, Clients!Ids, Pxid
  <2>2. CASE UNCHANGED Clients!vars
    BY <2>2 DEF Clients!vars, OneIdEach, ReachedIsServed
  <2> QED
    BY <2>1, <2>2
<1> QED
  BY <1>1, <1>2, SessionsKeepPromise, PTL DEF Spec, ClientsPromise, Clients!Spec

-----------------------------------------------------------------------------
(* The search for a free id.                                                *)

\* Numbers have no endless way down.
LEMMA LeastIs ==
  ASSUME NEW T \in SUBSET Nat, T # {} PROVE \E n \in T : \A m \in T : n <= m
<1> DEFINE R == OpToRel(<, Nat)
<1>1. IsWellFoundedOn(R, Nat)
  BY NatLessThanWellFounded
<1>2. PICK n \in T : \A m \in T : ~(<<m, n>> \in R)
  <2> HIDE DEF R
  <2> QED
    BY <1>1, WFMin
<1>3. \A m \in T : ~(m < n)
  BY <1>2 DEF OpToRel
<1> QED
  BY <1>3

\* The sums 0, 1, 1 + 2, 1 + 2 + 3, ...
Sum(i) == (i * (i + 1)) \div 2

LEMMA SumIs ==
  ASSUME NEW i \in Nat
  PROVE  /\ Sum(i) \in Nat /\ 2 * Sum(i) = i * (i + 1)
         /\ Sum(i + 1) = Sum(i) + i + 1 /\ Sum(0) = 0
<1>1. PICK k \in Nat : i = 2 * k \/ i = 2 * k + 1
  <2>1. i \div 2 \in Nat /\ (i = 2 * (i \div 2) \/ i = 2 * (i \div 2) + 1)
    OBVIOUS
  <2> QED
    BY <2>1
<1>2. CASE i = 2 * k
  <2>1. /\ i * (i + 1) = 2 * (k * (2 * k + 1))
        /\ (i + 1) * (i + 2) = 2 * ((2 * k + 1) * (k + 1))
    BY <1>2
  <2>2. k * (2 * k + 1) \in Nat /\ (2 * k + 1) * (k + 1) \in Nat
    OBVIOUS
  <2>3. Sum(i) = k * (2 * k + 1) /\ Sum(i + 1) = (2 * k + 1) * (k + 1)
    BY <2>1, <2>2 DEF Sum
  <2> QED
    BY <1>2, <2>1, <2>2, <2>3 DEF Sum
<1>3. CASE i = 2 * k + 1
  <2>1. /\ i * (i + 1) = 2 * ((2 * k + 1) * (k + 1))
        /\ (i + 1) * (i + 2) = 2 * ((k + 1) * (2 * k + 3))
    BY <1>3
  <2>2. (2 * k + 1) * (k + 1) \in Nat /\ (k + 1) * (2 * k + 3) \in Nat
    OBVIOUS
  <2>3. Sum(i) = (2 * k + 1) * (k + 1) /\ Sum(i + 1) = (k + 1) * (2 * k + 3)
    BY <2>1, <2>2 DEF Sum
  <2> QED
    BY <1>3, <2>1, <2>2, <2>3 DEF Sum
<1> QED
  BY <1>1, <1>2, <1>3

\* A remainder may be taken on the way.
LEMMA RemainderAdds ==
  ASSUME NEW n \in Nat \ {0}, NEW x \in Int, NEW y \in Int
  PROVE  ((x % n) + y) % n = (x + y) % n
<1> DEFINE q == x \div n
           r == x % n
           s == (r + y) \div n
           t == (r + y) % n
<1>1. q \in Int /\ r \in Int /\ s \in Int /\ t \in 0 .. n - 1
  OBVIOUS
<1>2. x = n * q + r /\ r + y = n * s + t
  OBVIOUS
<1> HIDE DEF q, r, s, t
<1>3. x + y = n * (q + s) + t
  BY <1>1, <1>2
<1>4. ASSUME NEW u \in Int, NEW v \in 0 .. n - 1 PROVE (n * u + v) % n = v
  OBVIOUS
<1>5. (x + y) % n = t
  <2>1. q + s \in Int
    BY <1>1
  <2> QED
    BY <1>1, <1>3, <1>4, <2>1
<1> QED
  BY <1>5 DEF t, r

\* The loop of exec_sca, for (ii = 0; ...; ii++) devi = (devi + ii) % MAX_DEVN, is at
\* Probe(devi, ii): f[i] stands for devi after its i-th round.
THEOREM ProbeIsLoop ==
  ASSUME NEW d \in Nat, NEW f \in [Nat -> Int], f[0] = (d + 0) % MaxDevn,
         \A i \in Nat : f[i + 1] = (f[i] + (i + 1)) % MaxDevn
  PROVE  \A i \in Nat : f[i] = Probe(d, i)
<1> USE SizeAssumption
<1>0. \A i : Probe(d, i) = (d + Sum(i)) % MaxDevn
  BY DEF Probe, Sum
<1> DEFINE T == {i \in Nat : f[i] # Probe(d, i)}
<1> SUFFICES ASSUME T # {} PROVE FALSE
  OBVIOUS
<1>1. PICK n \in T : \A m \in T : n <= m
  BY LeastIs
<1>2. n # 0
  BY <1>0, SumIs
<1>3. PICK m \in Nat : n = m + 1
  <2>1. n - 1 \in Nat /\ n = (n - 1) + 1
    BY <1>2
  <2> QED
    BY <2>1
<1>4. f[m] = (d + Sum(m)) % MaxDevn
  <2>1. m \notin T
    BY <1>1, <1>3
  <2> QED
    BY <1>0, <2>1
<1>5. f[n] = (d + Sum(m) + (m + 1)) % MaxDevn
  <2>0. Sum(m) \in Nat
    BY SumIs
  <2>1. d + Sum(m) \in Int /\ m + 1 \in Int
    BY <2>0
  <2>2. f[n] = (f[m] + (m + 1)) % MaxDevn
    BY <1>3
  <2> QED
    BY <1>4, <2>1, <2>2, RemainderAdds
<1>6. d + Sum(m) + (m + 1) = d + Sum(n)
  BY <1>3, SumIs
<1> QED
  BY <1>0, <1>5, <1>6

LEMMA ByFive ==
  ASSUME NEW y \in Int PROVE \E k \in Int, s \in 0 .. 4 : y = 5 * k + s
<1> DEFINE k == y \div 5
<1>1. k \in Int /\ 0 <= y - 5 * k /\ y - 5 * k <= 4
  OBVIOUS
<1> HIDE DEF k
<1>2. y = 5 * k + (y - 5 * k) /\ y - 5 * k \in 0 .. 4
  BY <1>1
<1> QED
  BY <1>1, <1>2

\* The sums leave the remainders 0, 1 and 3 when divided by five.
LEMMA SumByFive ==
  ASSUME NEW i \in Nat PROVE \E k \in Int : Sum(i) \in {5 * k, 5 * k + 1, 5 * k + 3}
<1>1. PICK q \in Nat, r \in 0 .. 4 : i = 5 * q + r
  <2>1. \E q \in Int, r \in 0 .. 4 : i = 5 * q + r
    BY ByFive
  <2> QED
    BY <2>1
<1> DEFINE u == 5 * (q * q) + 2 * (q * r) + q
<1>2. u \in Int /\ i * (i + 1) = 5 * u + r * (r + 1)
  BY <1>1
<1>3. Sum(i) \in Int /\ 2 * Sum(i) = i * (i + 1)
  BY SumIs
<1> HIDE DEF u
<1>4. r * (r + 1) \in {0, 2, 6, 12, 20}
  <2>1. r = 0 \/ r = 1 \/ r = 2 \/ r = 3 \/ r = 4
    OBVIOUS
  <2> QED
    BY <2>1
<1>5. 2 * Sum(i) \in {5 * u, 5 * u + 2, 5 * u + 6, 5 * u + 12, 5 * u + 20}
  BY <1>2, <1>3, <1>4
<1>6. PICK k \in Int, s \in 0 .. 4 : Sum(i) = 5 * k + s
  <2>1. \A y \in Int : \E k \in Int, s \in 0 .. 4 : y = 5 * k + s
    BY ByFive
  <2> QED
    BY <1>3, <2>1
<1>7. s \in {0, 1, 3}
  BY <1>2, <1>5, <1>6
<1> QED
  BY <1>6, <1>7

\* The number of ids, 100000, is divisible by five, and so the search from the cursor
\* comes only to ids at a distance of 0, 1 or 3 of each five: when those are taken,
\* exec_sca finds none and drops the connection, though two ids in five may be free.
THEOREM SearchMissesIds ==
  ASSUME MaxDevn % 5 = 0, devi \in 0 .. MaxDevn - 1,
         \A p \in Pxid : (p - 1 - devi) % 5 \in {0, 1, 3} => devn[p]
  PROVE  FreeProbes = {}
<1> SUFFICES ASSUME NEW i \in 0 .. MaxDevn - 1 PROVE devn[Probe(devi, i) + 1]
  BY DEF FreeProbes
<1> DEFINE x == Probe(devi, i)
<1>1. x + 1 \in Pxid /\ x \in Int
  <2>1. x + 1 \in Pxid
    BY ProbeType
  <2>2. (i * (i + 1)) \div 2 \in Int
    BY SMT
  <2> QED
    BY <2>1, <2>2, SizeAssumption DEF Probe
<1>2. PICK m \in Nat : MaxDevn = 5 * m
  <2>1. MaxDevn \div 5 \in Nat /\ MaxDevn = 5 * (MaxDevn \div 5)
    BY SizeAssumption
  <2> QED
    BY <2>1
<1>3. PICK k \in Int : Sum(i) \in {5 * k, 5 * k + 1, 5 * k + 3}
  BY SizeAssumption, SumByFive
<1>4. \E q \in Int : devi + Sum(i) = MaxDevn * q + x
  <2> DEFINE y == devi + Sum(i)
  <2>1. y \in Int /\ MaxDevn \in Nat \ {0}
    BY <1>3, SizeAssumption
  <2>2. x = y % MaxDevn
    BY DEF Probe, Sum
  <2> HIDE DEF x, y
  <2>3. y \div MaxDevn \in Int
    BY <2>1
  <2>4. y = MaxDevn * (y \div MaxDevn) + (y % MaxDevn)
    BY <2>1
  <2>5. \E z \in Int : y = MaxDevn * z + x
    BY <2>2, <2>3, <2>4
  <2> QED
    BY <2>5 DEF y
<1> HIDE DEF x
<1>q. PICK q \in Int : devi + Sum(i) = MaxDevn * q + x
  BY <1>4
<1>5. MaxDevn * q = 5 * (m * q) /\ m * q \in Int
  BY <1>2
<1>6. x - devi \in {5 * (k - m * q), 5 * (k - m * q) + 1, 5 * (k - m * q) + 3}
  BY <1>1, <1>3, <1>q, <1>5, SizeAssumption
<1>7. ASSUME NEW z \in Int, NEW s \in {0, 1, 3} PROVE (5 * z + s) % 5 = s
  OBVIOUS
<1>8. (x + 1 - 1 - devi) % 5 \in {0, 1, 3}
  <2>1. k - m * q \in Int /\ x + 1 - 1 - devi = x - devi
    BY <1>1, <1>5, SizeAssumption
  <2> DEFINE z == k - m * q
  <2> HIDE DEF z
  <2>2. x - devi = 5 * z + 0 \/ x - devi = 5 * z + 1 \/ x - devi = 5 * z + 3
    BY <1>6, <2>1 DEF z
  <2>3. z \in Int
    BY <2>1 DEF z
  <2> QED
    BY <1>7, <2>1, <2>2, <2>3
<1> QED
  BY <1>1, <1>8 DEF x

-----------------------------------------------------------------------------
(***************************************************************************)
(* PnoxRestart, for any number of deaths of the gateway.                   *)
(*                                                                         *)
(* While a gateway listens every step is a step of PnoxSession, and the    *)
(* invariants above hold.  While none does, the sessions of the one before *)
(* go on in tables that a new gateway clears, and most of them do not      *)
(* hold.  AnyInv says what still does: enough that they hold again once    *)
(* the last agent is gone, which is when a gateway can listen.             *)
(***************************************************************************)

\* What the program counters say, whoever the parent of an agent is: a thread
\* may have no connection, and one that is about to end no id.
GatewayAny ==
  /\ gpc # "idle" => gcl \in Client
  /\ gpc = "forked" => cown[gcl] \in Agent
  /\ gpc = "pick" => gidx \in Slots

AgentAny ==
  \A a \in Agent :
    /\ apc[a] \in {"top", "select", "left"} => aslot[a] \in Slots
    /\ ~Alive(a) => inbox[a] = <<>>
    /\ apc[a] \in {"none", "boot"} => leak[a] = 0

\* Threads run in processes that have come to their loop and not ended.
ThreadAny ==
  \A t \in Thread :
    /\ LiveThread(t) => town[t] \in Agent /\ apc[town[t]] \in {"top", "select", "left"}
    /\ tpc[t] = "got" \/ Marked(t) => tpxid[t] \in Pxid

\* The marks of ids: the one trace of a session that the clearing of the tables
\* takes together with the history that excuses it.
MarkAny ==
  \A p \in Pxid :
    devn[p] => p \in orphan \/ \E t \in Thread : Marked(t) /\ tpxid[t] = p

\* A gateway that does not listen has no agents and works on no connection.
NobodyAny ==
  /\ gw \in {"up", "dead", "cleared", "deaf"}
  /\ gw # "up" => mine = {} /\ gpc = "idle"

AnyInv == TypeOK /\ GatewayAny /\ AgentAny /\ ThreadAny /\ MarkAny /\ NobodyAny

\* While a gateway listens all of PnoxSession holds, and all agents are its own.
UpInv == gw = "up" => Shape /\ AccInv /\ OwnInv /\ OneGeneration

RestartInv == AnyInv /\ UpInv

-----------------------------------------------------------------------------
(* What every step keeps.                                                    *)

\* A step of an agent's main thread that ends no process and moves no
\* descriptor, and starts at most one thread.
LEMMA MainAny ==
  ASSUME AnyInv, NEW a \in Agent, Alive(a), NEW x \in {"top", "select", "left"},
         apc' = [apc EXCEPT ![a] = x],
         aslot' \in [Agent -> Slots \union {0}], aslot'[a] \in Slots,
         \A b \in Agent : b # a => aslot'[b] = aslot[b] /\ leak'[b] = leak[b],
         slot' \in [Slots -> SlotEntry], uflg' \in [Agent -> BOOLEAN],
         leak' \in [Agent -> Nat],
         \/ UNCHANGED <<tpc, town>>
         \/ \E t \in Thread : /\ tpc[t] = "none"
                              /\ tpc' = [tpc EXCEPT ![t] = "recv"]
                              /\ town' = [town EXCEPT ![t] = a],
         UNCHANGED <<gwVars, devn, inbox, tpxid, tcl, path, usr, clVars, dup,
                     orphan, spoilt, newVars>>
  PROVE  AnyInv'
<1>1. TypeOK'
  BY DEF AnyInv, TypeOK, gwVars, clVars
<1>2. apc \in [Agent -> {"none", "boot", "top", "select", "left", "dead"}]
  BY DEF AnyInv, TypeOK
<1>3. \A t \in Thread :
        \/ tpc'[t] = tpc[t] /\ town'[t] = town[t]
        \/ tpc[t] = "none" /\ tpc'[t] = "recv" /\ town'[t] = a
  BY DEF AnyInv, TypeOK
<1>4. GatewayAny' /\ NobodyAny'
  BY DEF AnyInv, GatewayAny, NobodyAny, gwVars, clVars, newVars
<1>5. AgentAny'
  BY <1>2 DEF AnyInv, AgentAny, Alive
<1>6. ThreadAny'
  BY <1>2, <1>3 DEF AnyInv, ThreadAny, LiveThread, Marked
<1>7. MarkAny'
  BY <1>3 DEF AnyInv, MarkAny, Marked
<1> QED
  BY <1>1, <1>4, <1>5, <1>6, <1>7 DEF AnyInv

\* A process that ends takes its threads along, and their ids become orphans.
LEMMA GoneAny ==
  ASSUME AnyInv, NEW a \in Agent, Alive(a), NEW gone, ProcessGone(a, gone),
         slot' \in [Slots -> SlotEntry], spoilt' \subseteq Slots,
         UNCHANGED <<gwVars, devn, aslot, uflg, town, tpxid, tcl, usr, cown, leak,
                     dup, newVars>>
  PROVE  AnyInv'
<1>1. /\ apc' = [apc EXCEPT ![a] = "dead"]
      /\ inbox' = [inbox EXCEPT ![a] = <<>>]
      /\ tpc' = [t \in Thread |-> IF town[t] = a THEN "none" ELSE tpc[t]]
  BY DEF ProcessGone
<1>2. path' \in [Pxid -> Thread \union {NoThread, Stale}]
  BY DEF ProcessGone, AnyInv, TypeOK
<1>3. cst' \in [Client -> {"new", "held", "queued", "session", "lingering", "closed"}]
  BY DEF ProcessGone, AnyInv, TypeOK
<1>4. /\ orphan \subseteq orphan'
      /\ \A t \in Thread : town[t] = a /\ Marked(t) => tpxid[t] \in orphan'
      /\ \A p \in orphan' : p \in orphan \/ \E t \in Thread : Marked(t) /\ p = tpxid[t]
  BY DEF ProcessGone, ThreadsOf, LiveThread, Marked
<1>5. orphan' \subseteq Pxid
  BY <1>4 DEF AnyInv, TypeOK, ThreadAny
<1>6. TypeOK'
  BY <1>1, <1>2, <1>3, <1>5 DEF AnyInv, TypeOK, gwVars
<1>7. GatewayAny' /\ NobodyAny'
  BY DEF AnyInv, GatewayAny, NobodyAny, gwVars, newVars
<1>8. AgentAny'
  BY <1>1 DEF AnyInv, TypeOK, AgentAny, Alive
<1>9. ThreadAny'
  BY <1>1 DEF AnyInv, TypeOK, ThreadAny, LiveThread, Marked
<1>10. MarkAny'
  BY <1>1, <1>4 DEF AnyInv, MarkAny, Marked
<1> QED
  BY <1>6, <1>7, <1>8, <1>9, <1>10 DEF AnyInv

\* The steps of agents are of these two kinds.
LEMMA AgentAnyStep ==
  ASSUME AnyInv, NEW a \in Agent, AgentRuns(a) \/ AgentFails(a)
  PROVE  AnyInv' /\ Alive(a) /\ \A b \in Agent : Alive(b)' => Alive(b)
<1>0. /\ slot \in [Slots -> SlotEntry] /\ spoilt \subseteq Slots
      /\ leak \in [Agent -> Nat] /\ uflg \in [Agent -> BOOLEAN]
      /\ aslot \in [Agent -> Slots \union {0}]
      /\ apc \in [Agent -> {"none", "boot", "top", "select", "left", "dead"}]
      /\ apc[a] \in {"top", "select", "left"} => aslot[a] \in Slots
  BY DEF AnyInv, TypeOK, AgentAny
<1>1. CASE AgentAttach(a) /\ UNCHANGED newVars
  <2>1. PICK s \in Slots : /\ aslot' = [aslot EXCEPT ![a] = s]
                           /\ slot' = [slot EXCEPT ![s].utrd = 0]
    BY <1>1 DEF AgentAttach, First, OwnSlots
  <2>2. slot' \in [Slots -> SlotEntry]
    BY <1>0, <2>1, SlotUtrdType
  <2>3. Alive(a) /\ apc' = [apc EXCEPT ![a] = "top"]
    BY <1>1 DEF AgentAttach, Alive
  <2>4. AnyInv'
    BY <1>0, <1>1, <2>1, <2>2, <2>3, MainAny DEF AgentAttach, thVars, histVars
  <2> QED
    BY <1>0, <2>3, <2>4 DEF Alive
<1>2. CASE AgentTop(a) /\ UNCHANGED newVars
  <2>1. PICK x \in {"top", "select"} : apc' = [apc EXCEPT ![a] = x]
    BY <1>0, <1>2 DEF AgentTop
  <2>2. Alive(a) /\ aslot[a] \in Slots
    BY <1>0, <1>2 DEF AgentTop, Alive
  <2>3. uflg' \in [Agent -> BOOLEAN]
    BY <1>0, <1>2 DEF AgentTop
  <2>4. AnyInv'
    BY <1>0, <1>2, <2>1, <2>2, <2>3, MainAny DEF AgentTop, thVars, histVars
  <2> QED
    BY <1>0, <2>1, <2>2, <2>4 DEF Alive
<1>3. CASE (AgentLeave(a) /\ UNCHANGED newVars) \/ AgentOrphanLeaves(a)
  <2>1. /\ apc[a] = "top" /\ apc' = [apc EXCEPT ![a] = "left"]
        /\ slot' = [slot EXCEPT ![aslot[a]].used = FALSE]
        /\ UNCHANGED <<gwVars, devn, aslot, uflg, inbox, thVars, path, usr,
                       clVars, histVars, newVars>>
    BY <1>3 DEF AgentLeave, AgentOrphanLeaves
  <2>2. slot' \in [Slots -> SlotEntry]
    BY <1>0, <2>1, SlotUsedType
  <2>3. Alive(a) /\ aslot[a] \in Slots
    BY <1>0, <2>1 DEF Alive
  <2>4. AnyInv'
    BY <1>0, <2>1, <2>2, <2>3, MainAny DEF thVars, histVars
  <2> QED
    BY <1>0, <2>1, <2>3, <2>4 DEF Alive
<1>4. CASE AgentSelectTimeout(a) /\ UNCHANGED newVars
  <2>1. Alive(a) /\ aslot[a] \in Slots /\ apc' = [apc EXCEPT ![a] = "top"]
    BY <1>0, <1>4 DEF AgentSelectTimeout, Alive
  <2>2. AnyInv'
    BY <1>0, <1>4, <2>1, MainAny DEF AgentSelectTimeout, thVars, histVars
  <2> QED
    BY <1>0, <2>1, <2>2 DEF Alive
<1>5. CASE (AgentSpawnFails(a) /\ UNCHANGED newVars) \/ AgentSpawnFailsAtEnd(a)
  <2>1. /\ apc[a] = "select" /\ apc' = [apc EXCEPT ![a] = "top"]
        /\ slot' = [slot EXCEPT ![aslot[a]].utrd = @ + 1]
        /\ leak' = [leak EXCEPT ![a] = @ + 1]
        /\ UNCHANGED <<gwVars, devn, aslot, uflg, inbox, thVars, path, usr,
                       clVars, dup, orphan, spoilt, newVars>>
    BY <1>5 DEF AgentSpawnFails, AgentSpawnFailsAtEnd
  <2>2. slot' \in [Slots -> SlotEntry]
    BY <1>0, <2>1, SlotUtrdType
  <2>3. leak' \in [Agent -> Nat] /\ \A b \in Agent : b # a => leak'[b] = leak[b]
    BY <1>0, <2>1
  <2>4. Alive(a) /\ aslot[a] \in Slots
    BY <1>0, <2>1 DEF Alive
  <2>5. AnyInv'
    BY <1>0, <2>1, <2>2, <2>3, <2>4, MainAny DEF thVars
  <2> QED
    BY <1>0, <2>1, <2>4, <2>5 DEF Alive
<1>6. ASSUME NEW t \in Thread,
             (AgentSpawn(a, t) /\ UNCHANGED newVars) \/ AgentSpawnAtEnd(a, t)
      PROVE  AnyInv' /\ Alive(a) /\ \A b \in Agent : Alive(b)' => Alive(b)
  <2>1. /\ apc[a] = "select" /\ apc' = [apc EXCEPT ![a] = "top"]
        /\ slot' = [slot EXCEPT ![aslot[a]].utrd = @ + 1]
        /\ tpc[t] = "none" /\ tpc' = [tpc EXCEPT ![t] = "recv"]
        /\ town' = [town EXCEPT ![t] = a]
        /\ UNCHANGED <<gwVars, devn, aslot, uflg, inbox, tpxid, tcl, path, usr,
                       clVars, histVars, newVars>>
    BY <1>6 DEF AgentSpawn, AgentSpawnAtEnd
  <2>2. slot' \in [Slots -> SlotEntry]
    BY <1>0, <2>1, SlotUtrdType
  <2>3. Alive(a) /\ aslot[a] \in Slots
    BY <1>0, <2>1 DEF Alive
  <2>4. AnyInv'
    BY <1>0, <2>1, <2>2, <2>3, MainAny DEF histVars
  <2> QED
    BY <1>0, <2>1, <2>3, <2>4 DEF Alive
<1>7. CASE \/ AgentGiveUp(a) /\ UNCHANGED newVars
           \/ AgentExit(a) /\ UNCHANGED newVars
           \/ AgentCrash(a) /\ UNCHANGED newVars
  <2>1. PICK gone :
          /\ Alive(a) /\ ProcessGone(a, gone)
          /\ UNCHANGED <<gwVars, devn, slot, aslot, uflg, town, tpxid, tcl, usr,
                         cown, leak, dup, spoilt, newVars>>
    BY <1>7 DEF AgentGiveUp, AgentExit, AgentCrash, Alive
  <2>2. AnyInv'
    BY <1>0, <2>1, GoneAny
  <2> QED
    BY <1>0, <2>1, <2>2 DEF Alive, ProcessGone
<1>8. CASE AgentExecFails(a) /\ UNCHANGED newVars
  <2>1. slot' \in [Slots -> SlotEntry]
    BY <1>0, <1>8, SlotClearType DEF AgentExecFails
  <2>2. Alive(a) /\ ProcessGone(a, {})
    BY <1>8 DEF AgentExecFails, Alive
  <2>3. AnyInv'
    BY <1>0, <1>8, <2>1, <2>2, GoneAny DEF AgentExecFails
  <2> QED
    BY <1>0, <2>2, <2>3 DEF Alive, ProcessGone
<1>9. CASE AgentTerm(a) /\ UNCHANGED newVars
  <2>1. slot' \in [Slots -> SlotEntry]
    BY <1>0, <1>9 DEF AgentTerm, EmptySlot, SlotEntry
  <2>2. spoilt' \subseteq Slots
    BY <1>0, <1>9 DEF AgentTerm
  <2>3. Alive(a) /\ ProcessGone(a, {})
    BY <1>9 DEF AgentTerm, Alive
  <2>4. AnyInv'
    BY <1>0, <1>9, <2>1, <2>2, <2>3, GoneAny DEF AgentTerm
  <2> QED
    BY <1>0, <2>3, <2>4 DEF Alive, ProcessGone
<1> QED
  BY <1>1, <1>2, <1>3, <1>4, <1>5, <1>6, <1>7, <1>8, <1>9
     DEF AgentRuns, AgentFails, AgentGoesOn

\* A step of a thread: the other threads, and where the agents are, stay.
LEMMA ThreadAnyKept ==
  ASSUME AnyInv, NEW t \in Thread, LiveThread(t), TypeOK', MarkAny',
         UNCHANGED <<gwVars, agVars, town, cown, leak, newVars>>,
         \A u \in Thread : u # t => tpc'[u] = tpc[u] /\ tpxid'[u] = tpxid[u],
         tpc'[t] = "got" \/ Marked(t)' => tpxid'[t] \in Pxid,
         \A a \in Agent : inbox[a] = <<>> => inbox'[a] = <<>>
  PROVE  AnyInv'
<1>1. GatewayAny' /\ NobodyAny'
  BY DEF AnyInv, GatewayAny, NobodyAny, gwVars, newVars
<1>2. AgentAny'
  BY DEF AnyInv, AgentAny, Alive, agVars
<1>3. ThreadAny'
  BY DEF AnyInv, ThreadAny, LiveThread, Marked, agVars
<1> QED
  BY <1>1, <1>2, <1>3 DEF AnyInv

\* A step that neither marks an id nor gives one back.
LEMMA MarkKept ==
  ASSUME MarkAny, NEW t \in Thread, UNCHANGED <<devn, orphan>>,
         \A u \in Thread : u # t => tpc'[u] = tpc[u] /\ tpxid'[u] = tpxid[u],
         Marked(t) => Marked(t)' /\ tpxid'[t] = tpxid[t]
  PROVE  MarkAny'
BY DEF MarkAny, Marked

LEMMA ThreadAnyStep ==
  ASSUME AnyInv, NEW t \in Thread, ThreadRuns(t) PROVE AnyInv'
<1>0. /\ LiveThread(t) => town[t] \in Agent
      /\ tpc[t] = "got" \/ Marked(t) => tpxid[t] \in Pxid
      /\ TypeOK /\ MarkAny
  BY DEF AnyInv, ThreadAny
<1>1. CASE ThreadReceive(t) /\ UNCHANGED newVars
  <2> DEFINE a == town[t]
             e == Head(inbox[a])
  <2>1. a \in Agent /\ LiveThread(t)
    BY <1>0, <1>1 DEF ThreadReceive, Goto, LiveThread
  <2>2. inbox[a] \in Seq(InboxEntry) /\ inbox[a] # <<>>
    BY <1>0, <1>1, <2>1 DEF ThreadReceive, TypeOK
  <2>3. e \in InboxEntry /\ Tail(inbox[a]) \in Seq(InboxEntry)
    BY <2>2
  <2>4. e.pxid \in Pxid /\ e.cl \in Client
    BY <2>3 DEF InboxEntry
  <2>5. TypeOK'
    BY <1>0, <1>1, <2>1, <2>3, <2>4
       DEF ThreadReceive, Goto, TypeOK, gwVars, agVars, histVars
  <2>6. /\ \A u \in Thread : u # t => tpc'[u] = tpc[u] /\ tpxid'[u] = tpxid[u]
        /\ tpxid'[t] = e.pxid /\ ~Marked(t)
        /\ \A b \in Agent : inbox[b] = <<>> => inbox'[b] = <<>>
    BY <1>0, <1>1, <2>2 DEF ThreadReceive, Goto, TypeOK, Marked
  <2>7. MarkAny'
    BY <1>0, <1>1, <2>6, MarkKept DEF ThreadReceive, histVars
  <2> QED
    BY <1>1, <2>1, <2>4, <2>5, <2>6, <2>7, ThreadAnyKept
       DEF ThreadReceive, histVars
<1>2. CASE ThreadReceivesEnd(t)
  <2>1. PICK p \in StaleIds(town[t]) :
          /\ tpxid' = [tpxid EXCEPT ![t] = p]
          /\ tpc' = [tpc EXCEPT ![t] = IF p = 0 THEN "dec" ELSE "got"]
          /\ dup' = IF p = 0 THEN dup ELSE dup \union {p}
    BY <1>2 DEF ThreadReceivesEnd
  <2>2. p \in Pxid \union {0} /\ LiveThread(t) /\ ~Marked(t)
    BY <1>0, <1>2, <2>1 DEF ThreadReceivesEnd, StaleIds, TypeOK, LiveThread, Marked
  <2>3. /\ tcl' = [tcl EXCEPT ![t] = NoClient]
        /\ UNCHANGED <<gwVars, devn, slot, agVars, inbox, town, path, usr, clVars,
                       leak, orphan, spoilt, newVars>>
    BY <1>2 DEF ThreadReceivesEnd
  <2>4. tcl' \in [Thread -> Client \union {NoClient}] /\ dup' \subseteq Pxid
    BY <1>0, <2>1, <2>2, <2>3 DEF TypeOK
  <2>5. /\ tpxid' \in [Thread -> Pxid \union {0}]
        /\ tpc' \in [Thread -> {"none", "recv", "got", "open", "fail", "serve",
                                "fin", "free", "dec"}]
    BY <1>0, <2>1, <2>2 DEF TypeOK
  <2>6. TypeOK'
    BY <1>0, <2>3, <2>4, <2>5 DEF TypeOK, gwVars, agVars, clVars
  <2>7. /\ \A u \in Thread : u # t => tpc'[u] = tpc[u] /\ tpxid'[u] = tpxid[u]
        /\ tpc'[t] = "got" \/ Marked(t)' => tpxid'[t] \in Pxid
    BY <1>0, <2>1, <2>2 DEF TypeOK, Marked
  <2>8. MarkAny'
    BY <1>0, <2>2, <2>7, <2>3, MarkKept
  <2> QED
    BY <2>2, <2>6, <2>7, <2>8, <2>3, ThreadAnyKept DEF clVars
<1>3. CASE ThreadMark(t) /\ UNCHANGED newVars
  <2>1. /\ LiveThread(t) /\ tpxid[t] \in Pxid /\ tpxid' = tpxid
        /\ tpc' = [tpc EXCEPT ![t] = "open"]
        /\ devn' = [devn EXCEPT ![tpxid[t]] = TRUE]
    BY <1>0, <1>3 DEF ThreadMark, Goto, LiveThread
  <2>2. TypeOK'
    BY <1>0, <1>3, <2>1 DEF ThreadMark, TypeOK, gwVars, agVars, clVars, histVars
  <2>3. MarkAny'
    BY <1>0, <1>3, <2>1 DEF ThreadMark, MarkAny, Marked, TypeOK, Goto, histVars
  <2> QED
    BY <1>0, <1>3, <2>1, <2>2, <2>3, ThreadAnyKept
       DEF ThreadMark, TypeOK, clVars, histVars
<1>4. CASE /\ ThreadOpen(t) \/ ThreadOpenFails(t) \/ ThreadEnd(t) \/ ThreadClose(t)
           /\ UNCHANGED newVars
  <2>1. PICK x \in {"serve", "fail", "fin", "free"} :
          /\ tpc' = [tpc EXCEPT ![t] = x]
          /\ LiveThread(t) /\ Marked(t) /\ tpxid' = tpxid
          /\ UNCHANGED <<gwVars, devn, slot, agVars, inbox, town, tcl, cown,
                         histVars, newVars>>
    BY <1>4
       DEF ThreadOpen, ThreadOpenFails, ThreadEnd, ThreadClose, Goto, LiveThread,
           Marked, clVars
  <2>2. /\ path' \in [Pxid -> Thread \union {NoThread, Stale}]
        /\ usr' \in [Pxid -> BOOLEAN]
        /\ cst' \in [Client -> {"new", "held", "queued", "session", "lingering",
                                "closed"}]
    <3>0. /\ t \in Thread
          /\ path \in [Pxid -> Thread \union {NoThread, Stale}]
          /\ usr \in [Pxid -> BOOLEAN]
          /\ cst \in [Client -> {"new", "held", "queued", "session", "lingering",
                                "closed"}]
      BY <1>0 DEF TypeOK
    <3>1. CASE ThreadOpen(t)
      BY <3>0, <3>1 DEF ThreadOpen, clVars
    <3>2. CASE ThreadOpenFails(t)
      BY <3>0, <3>2 DEF ThreadOpenFails, clVars
    <3>3. CASE ThreadEnd(t)
      <4>1. PICK end \in {"lingering", "closed"} :
              cst' = [cst EXCEPT ![tcl[t]] = end]
        BY <3>3 DEF ThreadEnd
      <4>2. /\ usr' = [usr EXCEPT ![tpxid[t]] = FALSE]
            /\ path' = path
        BY <3>3 DEF ThreadEnd
      <4> QED
        BY <3>0, <4>1, <4>2
    <3>4. CASE ThreadClose(t)
      BY <3>0, <3>4 DEF ThreadClose, clVars
    <3> QED
      BY <1>4, <3>1, <3>2, <3>3, <3>4
  <2>3. TypeOK'
    BY <1>0, <2>1, <2>2 DEF TypeOK, gwVars, agVars, histVars
  <2>4. /\ \A u \in Thread : u # t => tpc'[u] = tpc[u] /\ tpxid'[u] = tpxid[u]
        /\ Marked(t)'
    BY <1>0, <2>1 DEF TypeOK, Marked
  <2>5. MarkAny'
    BY <1>0, <2>1, <2>4, MarkKept DEF histVars
  <2> QED
    BY <1>0, <2>1, <2>3, <2>4, <2>5, ThreadAnyKept DEF histVars
<1>5. CASE ThreadFree(t) /\ UNCHANGED newVars
  <2>1. /\ LiveThread(t) /\ tpxid[t] \in Pxid /\ tpxid' = tpxid
        /\ tpc' = [tpc EXCEPT ![t] = "dec"]
        /\ devn' = [devn EXCEPT ![tpxid[t]] = FALSE]
    BY <1>0, <1>5 DEF ThreadFree, LiveThread, Marked
  <2>2. TypeOK'
    BY <1>0, <1>5, <2>1 DEF ThreadFree, TypeOK, gwVars, agVars, histVars
  <2>3. MarkAny'
    BY <1>0, <1>5, <2>1 DEF ThreadFree, MarkAny, Marked, TypeOK, histVars
  <2> QED
    BY <1>0, <1>5, <2>1, <2>2, <2>3, ThreadAnyKept
       DEF ThreadFree, TypeOK, Marked, histVars
<1>6. CASE ThreadExit(t) /\ UNCHANGED newVars
  <2>1. slot' \in [Slots -> SlotEntry]
    BY <1>0, <1>6, SlotUtrdType DEF ThreadExit, TypeOK
  <2>2. /\ LiveThread(t) /\ ~Marked(t) /\ tpxid' = tpxid
        /\ tpc' = [tpc EXCEPT ![t] = "none"]
    BY <1>6 DEF ThreadExit, Goto, LiveThread, Marked
  <2>3. TypeOK'
    BY <1>0, <1>6, <2>1, <2>2
       DEF ThreadExit, TypeOK, gwVars, agVars, clVars, histVars
  <2>4. /\ \A u \in Thread : u # t => tpc'[u] = tpc[u] /\ tpxid'[u] = tpxid[u]
        /\ tpc'[t] = "none"
    BY <1>0, <2>2 DEF TypeOK
  <2>5. MarkAny'
    BY <1>0, <1>6, <2>2, <2>4, MarkKept DEF ThreadExit, histVars
  <2> QED
    BY <1>6, <2>2, <2>3, <2>4, <2>5, ThreadAnyKept
       DEF ThreadExit, Marked, clVars, histVars
<1> QED
  BY <1>1, <1>2, <1>3, <1>4, <1>5, <1>6 DEF ThreadRuns, ThreadStep

-----------------------------------------------------------------------------
(* The gateway.                                                              *)

\* The gateway starts agents and disturbs none.
LEMMA GatewayLeavesAgents ==
  ASSUME TypeOK, Gateway
  PROVE  /\ UNCHANGED <<devn, tpc, town, tpxid, leak, orphan>>
         /\ \A a \in Agent :
              /\ apc'[a] = apc[a] \/ (apc[a] = "none" /\ apc'[a] = "boot")
              /\ ~Alive(a) => inbox'[a] = inbox[a]
<1>1. ASSUME NEW p, HandOver(p)
      PROVE  \A a \in Agent : ~Alive(a) => inbox'[a] = inbox[a]
  BY <1>1 DEF HandOver, TypeOK
<1>2. CASE GatewayPickCursor \/ GatewayPickScan
  <2>1. PICK p : HandOver(p)
    BY <1>2 DEF GatewayPickCursor, GatewayPickScan
  <2>2. UNCHANGED <<devn, apc, tpc, town, tpxid, leak, orphan>>
    BY <1>2 DEF GatewayPickCursor, GatewayPickScan, agVars, thVars
  <2> QED
    BY <1>1, <2>1, <2>2
<1>3. CASE \E c \in Client, a \in Agent : GatewayFork(c, a)
  BY <1>3 DEF GatewayFork, TypeOK, thVars, histVars
<1>4. CASE \E c \in Client : GatewayAccept(c) \/ GatewayFull(c) \/ GatewayForkFails(c)
  BY <1>4 DEF GatewayAccept, GatewayFull, GatewayForkFails, agVars, thVars, histVars
<1>5. CASE GatewayRecord \/ GatewayNoPxid
  BY <1>5 DEF GatewayRecord, GatewayNoPxid, agVars, thVars, histVars
<1> QED
  BY <1>2, <1>3, <1>4, <1>5 DEF Gateway

LEMMA ServesAny == ASSUME RestartInv, GatewayServes PROVE AnyInv' /\ OneGeneration'
<1>1. TypeInv /\ Gateway /\ gw = "up" /\ OneGeneration
  BY DEF GatewayServes, RestartInv, AnyInv, UpInv, TypeInv
<1>2. TypeOK' /\ Shape'
  BY <1>1, GatewayType DEF TypeInv
<1>3. /\ UNCHANGED <<devn, tpc, town, tpxid, leak, orphan>>
      /\ \A a \in Agent :
           /\ apc'[a] = apc[a] \/ (apc[a] = "none" /\ apc'[a] = "boot")
           /\ ~Alive(a) => inbox'[a] = inbox[a]
  BY <1>1, GatewayLeavesAgents DEF TypeInv
<1>4. GatewayAny' /\ NobodyAny'
  BY <1>1, <1>2 DEF Shape, GatewayAny, NobodyAny, RestartInv, AnyInv, GatewayServes
<1>5. AgentAny'
  BY <1>2, <1>3 DEF RestartInv, AnyInv, AgentAny, Shape, Alive
<1>6. ThreadAny'
  BY <1>3 DEF RestartInv, AnyInv, ThreadAny, LiveThread, Marked
<1>7. MarkAny'
  BY <1>3 DEF RestartInv, AnyInv, MarkAny, Marked
<1>8. OneGeneration'
  BY <1>1, <1>3 DEF OneGeneration, Alive, GatewayServes
<1> QED
  BY <1>2, <1>4, <1>5, <1>6, <1>7, <1>8 DEF AnyInv

\* The end of a gateway, and the start of the next, which clears the marks of
\* ids along with the memory of who died with one.
LEMMA RestartsAny ==
  ASSUME AnyInv, GatewayDies \/ GatewayClears \/ GatewayBinds PROVE AnyInv'
<1> USE DEF AnyInv
<1>1. CASE GatewayDies
  <2>1. cst' \in [Client -> {"new", "held", "queued", "session", "lingering",
                             "closed"}]
    BY <1>1 DEF GatewayDies, Dropped, TypeOK
  <2>2. TypeOK'
    BY <1>1, <2>1 DEF GatewayDies, GatewayDone, TypeOK, agVars, thVars, histVars
  <2>3. GatewayAny' /\ NobodyAny'
    BY <1>1 DEF GatewayDies, GatewayDone, GatewayAny, NobodyAny
  <2>4. AgentAny' /\ ThreadAny' /\ MarkAny'
    BY <1>1 DEF GatewayDies, AgentAny, ThreadAny, MarkAny, Alive, LiveThread, Marked,
                agVars, thVars, histVars
  <2> QED
    BY <2>2, <2>3, <2>4
<1>2. CASE GatewayClears
  <2>1. TypeOK'
    BY <1>2, SizeAssumption
       DEF GatewayClears, TypeOK, EmptySlot, SlotEntry, agVars, thVars, clVars
  <2>2. GatewayAny' /\ NobodyAny'
    BY <1>2 DEF GatewayClears, GatewayAny, NobodyAny, clVars
  <2>3. AgentAny' /\ ThreadAny' /\ MarkAny'
    BY <1>2 DEF GatewayClears, AgentAny, ThreadAny, MarkAny, Alive, LiveThread,
                Marked, agVars, thVars
  <2> QED
    BY <2>1, <2>2, <2>3
<1>3. CASE GatewayBinds
  <2>1. UNCHANGED <<vars, mine>> /\ gw' \in {"deaf", "up"} /\ gw = "cleared"
    BY <1>3 DEF GatewayBinds
  <2>2. TypeOK'
    BY <2>1 DEF TypeOK, vars, gwVars, agVars, thVars, clVars, histVars
  <2>3. GatewayAny' /\ NobodyAny'
    BY <2>1 DEF GatewayAny, NobodyAny, vars, gwVars, clVars
  <2>4. AgentAny' /\ ThreadAny' /\ MarkAny'
    BY <2>1 DEF AgentAny, ThreadAny, MarkAny, Alive, LiveThread, Marked, vars,
                agVars, thVars, histVars
  <2> QED
    BY <2>2, <2>3, <2>4
<1> QED
  BY <1>1, <1>2, <1>3

\* A gateway that gets its ports meets nobody: without an agent there is no
\* thread and no descriptor in flight, and what sessions owe each other holds.
LEMMA BindsAlone ==
  ASSUME AnyInv, GatewayBinds, gw' = "up"
  PROVE  Shape' /\ AccInv' /\ OwnInv' /\ OneGeneration'
<1>1. \A a \in Agent : ~Alive(a)
  BY DEF AnyInv, NobodyAny, GatewayBinds, PortTaken, Orphaned
<1>2. \A t \in Thread : tpc[t] = "none"
  BY <1>1 DEF AnyInv, ThreadAny, LiveThread, Alive
<1>3. gpc = "idle" /\ \A a \in Agent : inbox[a] = <<>>
  BY <1>1 DEF AnyInv, NobodyAny, AgentAny, GatewayBinds
<1>4. Shape
  BY <1>1, <1>2, <1>3 DEF Shape, Alive
<1>5. AccInv
  BY <1>1, <1>2
     DEF AnyInv, AgentAny, AccInv, Acc, Alive, Working, ThreadsOf, LiveThread
<1>6. OwnInv
  BY <1>2, <1>3
     DEF OwnInv, Own, OneWaits, OneHolds, WaitsOrHolds, Keeps, Holder, Marked
<1>7. UNCHANGED vars
  BY DEF GatewayBinds
<1>8. Shape' /\ OneGeneration'
  BY <1>1, <1>4, <1>7
     DEF Shape, OneGeneration, Alive, vars, gwVars, agVars, thVars, clVars
<1>9. AccInv'
  BY <1>5, <1>7
     DEF AccInv, Acc, Working, ThreadsOf, LiveThread, Utrd, vars, agVars, thVars,
         histVars
<1>10. OwnInv'
  BY <1>6, <1>7
     DEF OwnInv, Own, OneWaits, OneHolds, WaitsOrHolds, Keeps, Holder, Marked, vars,
         thVars, histVars
<1> QED
  BY <1>8, <1>9, <1>10

-----------------------------------------------------------------------------
(* While a gateway listens.                                                  *)

\* No agent is orphaned then, so whatever happens is a step of PnoxSession.
LEMMA UpIsSession ==
  ASSUME RestartInv, gw = "up", RNext, gw' = "up"
  PROVE  Next /\ OneGeneration'
<1>1. AnyInv /\ OneGeneration /\ \A a \in Agent : ~Orphaned(a)
  BY DEF RestartInv, UpInv, OneGeneration, Orphaned
<1>2. CASE GatewayServes
  BY <1>2, ServesAny DEF GatewayServes, Next
<1>3. CASE GatewayDies \/ GatewayClears \/ GatewayBinds
  BY <1>3 DEF GatewayDies, GatewayClears, GatewayBinds
<1>4. ASSUME NEW a \in Agent, AgentRuns(a) \/ AgentFails(a)
      PROVE  Next /\ OneGeneration'
  <2>1. AgentStep(a) /\ mine' = mine
    BY <1>1, <1>4
       DEF AgentRuns, AgentFails, AgentStep, AgentGoesOn, AgentOrphanLeaves,
           AgentSpawnAtEnd, AgentSpawnFailsAtEnd, newVars
  <2>2. \A b \in Agent : Alive(b)' => Alive(b)
    BY <1>1, <1>4, AgentAnyStep
  <2> QED
    BY <1>1, <2>1, <2>2 DEF Next, OneGeneration
<1>5. ASSUME NEW t \in Thread, ThreadRuns(t)
      PROVE  Next /\ OneGeneration'
  <2>1. LiveThread(t) => town[t] \in mine
    BY <1>1 DEF AnyInv, ThreadAny, OneGeneration, Alive
  <2>2. ThreadStep(t) /\ mine' = mine
    BY <1>5, <2>1 DEF ThreadRuns, ThreadReceivesEnd, LiveThread, newVars
  <2>3. apc' = apc
    BY <2>2 DEF ThreadStep, ThreadReceive, ThreadMark, ThreadOpen, ThreadOpenFails,
                ThreadEnd, ThreadClose, ThreadFree, ThreadExit, agVars
  <2> QED
    BY <1>1, <2>2, <2>3 DEF Next, OneGeneration, Alive
<1> QED
  BY <1>2, <1>3, <1>4, <1>5 DEF RNext

LEMMA RestartInductive ==
  /\ RInit => RestartInv
  /\ RestartInv /\ [RNext]_rvars => RestartInv'
<1>1. ASSUME RInit PROVE RestartInv
  <2>1. Init /\ gw = "up" /\ mine = {}
    BY <1>1 DEF RInit
  <2>2. TypeOK /\ Shape /\ AccInv /\ OwnInv
    BY <2>1, InitType, AccInductive, OwnInductive DEF TypeInv
  <2>3. GatewayAny /\ AgentAny /\ ThreadAny /\ MarkAny /\ NobodyAny /\ OneGeneration
    BY <2>1
       DEF Init, GatewayAny, AgentAny, ThreadAny, MarkAny, NobodyAny, OneGeneration,
           Alive, LiveThread, Marked
  <2> QED
    BY <2>2, <2>3 DEF RestartInv, AnyInv, UpInv
<1>2. ASSUME RestartInv, RNext PROVE RestartInv'
  <2>1. AnyInv'
    BY <1>2, ServesAny, RestartsAny, AgentAnyStep, ThreadAnyStep
       DEF RNext, RestartInv
  <2>2. ASSUME gw = "up", gw' = "up" PROVE UpInv'
    <3>1. Next /\ OneGeneration'
      BY <1>2, <2>2, UpIsSession
    <3>2. TypeInv /\ AccInv /\ OwnInv
      BY <1>2, <2>2 DEF RestartInv, AnyInv, UpInv, TypeInv
    <3>3. TypeInv' /\ AccInv' /\ OwnInv'
      BY <3>1, <3>2, NextType, AccInductive, OwnInductive
    <3> QED
      BY <3>1, <3>3 DEF UpInv, TypeInv
  <2>3. ASSUME gw # "up", gw' = "up" PROVE UpInv'
    <3>1. GatewayBinds
      <4>1. ASSUME NEW a \in Agent, AgentRuns(a) \/ AgentFails(a) PROVE gw' = gw
        BY <4>1
           DEF AgentRuns, AgentFails, AgentGoesOn, AgentOrphanLeaves,
               AgentSpawnAtEnd, AgentSpawnFailsAtEnd, newVars
      <4>2. ASSUME NEW t \in Thread, ThreadRuns(t) PROVE gw' = gw
        BY <4>2 DEF ThreadRuns, ThreadReceivesEnd, newVars
      <4> QED
        BY <1>2, <2>3, <4>1, <4>2
           DEF RNext, GatewayServes, GatewayDies, GatewayClears
    <3> QED
      BY <1>2, <2>3, <3>1, BindsAlone DEF RestartInv, UpInv
  <2> QED
    BY <2>1, <2>2, <2>3 DEF RestartInv, UpInv
<1>3. ASSUME RestartInv, UNCHANGED rvars PROVE RestartInv'
  <2>1. UNCHANGED vars /\ UNCHANGED newVars
    BY <1>3 DEF rvars
  <2>2. AnyInv'
    BY <1>3, <2>1
       DEF vars, newVars, gwVars, agVars, thVars, clVars, histVars, RestartInv, AnyInv,
           TypeOK, GatewayAny, AgentAny, ThreadAny, MarkAny, NobodyAny, Alive,
           LiveThread, Marked
  <2>3. CASE gw # "up"
    BY <2>1, <2>2, <2>3 DEF newVars, RestartInv, UpInv
  <2>4. CASE gw = "up"
    <3>1. TypeInv /\ AccInv /\ OwnInv /\ OneGeneration
      BY <1>3, <2>4 DEF RestartInv, AnyInv, UpInv, TypeInv
    <3>2. TypeInv' /\ AccInv' /\ OwnInv'
      BY <2>1, <3>1, NextType, AccInductive, OwnInductive
    <3>3. OneGeneration'
      BY <2>1, <3>1 DEF OneGeneration, Alive, vars, agVars, newVars
    <3> QED
      BY <2>2, <3>2, <3>3 DEF RestartInv, UpInv, TypeInv
  <2> QED
    BY <2>3, <2>4
<1> QED
  BY <1>1, <1>2, <1>3

LEMMA RestartAlways == RSpec => []RestartInv
BY RestartInductive, PTL DEF RSpec

\* A gateway that listens never meets an agent of the one before it, nor a
\* session of such an agent: the sockets that agents inherit keep its successor
\* deaf as long as one of them lives.
THEOREM OneGenerationOnly == RSpec => []OneGeneration
<1>1. RestartInv => OneGeneration
  BY DEF RestartInv, UpInv, OneGeneration
<1> QED
  BY <1>1, RestartAlways, PTL

\* Whatever the sessions of a dead gateway still wrote into the tables that its
\* successor cleared, counts are exact, marks have a session and ids one holder
\* as soon as a gateway listens again, and as long as it does.
THEOREM StartsClean == RSpec => []CleanStart
<1>1. ASSUME RestartInv, gw = "up"
      PROVE  UtrdExact /\ NeverOver /\ NoSessionAbandoned /\ BusyHasSession /\ SoleOwner
  <2>1. TypeInv /\ AccInv /\ OwnInv /\ MarkAny
    BY <1>1 DEF RestartInv, AnyInv, UpInv, TypeInv
  <2>2. UtrdExact /\ NeverOver /\ NoSessionAbandoned
    BY <2>1 DEF AccInv, Acc, UtrdExact, NeverOver, NoSessionAbandoned
  <2>3. BusyHasSession
    BY <2>1 DEF MarkAny, BusyHasSession
  <2> QED
    BY <2>1, <2>2, <2>3, OwnGives
<1>2. RestartInv => CleanStart
  BY <1>1 DEF CleanStart
<1> QED
  BY <1>2, RestartAlways, PTL
=============================================================================
