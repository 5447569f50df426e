------------------------------ MODULE PnoxRoute ------------------------------
(***************************************************************************)
(* One route between two hosts.  A program that calls a service with a     *)
(* route in the configuration (pxcall with no name to call) is sent by     *)
(* pxrout to the queue of a pnoxrtc process, which passes the request over *)
(* a TCP connection to a pnoxrta process of the other host, which sends it *)
(* to pnoxtpc there; a worker of pnoxtpc runs a program for it, and the    *)
(* program answers to the queue the request came from.  The answer goes    *)
(* back the same way: pnoxrtc keeps the name of whoever asked last.        *)
(*                                                                         *)
(* When the connection breaks both ends end; pnoxd starts pnoxrtc again    *)
(* and it connects again.  A pnoxrta has the name of its slot in the table *)
(* of its gateway, and gives the slot back itself when it ends: the slot   *)
(* of one that is killed stays in use until the gateway starts again.      *)
(***************************************************************************)
EXTENDS Integers, Sequences, FiniteSets

CONSTANTS
  Caller,     \* programs that call, by the name of their queue
  Self,       \* the name of the queue of pnoxrtc
  NoName,     \* an empty name
  Worker,     \* workers of pnoxtpc
  MaxSlot,    \* slots for pnoxrta at the gateway
  MaxReq,     \* bound: requests callers send
  MaxRun,     \* bound: runs of a program for the same request
  MaxBreak,   \* bound: breaks of the connection
  MaxKill,    \* bound: pnoxrta processes killed
  Impatient   \* whether a call may time out

ASSUME RouteAssumption ==
  /\ Self \notin Caller
  /\ NoName \notin Caller \union {Self}
  /\ MaxSlot \in Nat \ {0}
  /\ MaxReq \in Nat
  /\ MaxRun \in Nat
  /\ MaxBreak \in Nat
  /\ MaxKill \in Nat
  /\ Impatient \in BOOLEAN

Slot == 1 .. MaxSlot
Req == 1 .. MaxReq
NoSlot == 0
NoReq == 0
Free == <<NoSlot, NoReq>>     \* a worker without work

VARIABLES
  call,     \* the request each caller waits for
  ans,      \* answers on each caller's queue
  rq,       \* requests on the queue of pnoxrtc, with their sender
  base,     \* tHandle.base of pnoxrtc
  slot,     \* the slot of the pnoxrta at the other end of the connection
  there,    \* requests on the connection
  back,     \* answers on the connection
  used,     \* slots in use: their pnoxrta have their queues open,
  dead,     \* or were killed
  aq,       \* answers on the queue of each pnoxrta
  tq,       \* requests on the queue of pnoxtpc, with the slot to answer to
  work,     \* what each worker runs
  asked,    \* history: requests asked so far, by whom
  taken,    \* history: what pnoxrtc took from its queue
  got,      \* history: who got the answer to which request
  runs,     \* history: how often a program was run for a request
  breaks

callVars == <<call, ans>>
rtcVars == <<rq, base>>
linkVars == <<slot, there, back>>
rtaVars == <<used, dead, aq>>
tpcVars == <<tq, work>>
vars == <<callVars, rtcVars, linkVars, rtaVars, tpcVars,
          asked, taken, got, runs, breaks>>

Name == Caller \union {Self, NoName}
Up == slot # NoSlot

Init ==
  /\ call = [c \in Caller |-> NoReq]
  /\ ans = [c \in Caller |-> <<>>]
  /\ rq = <<>>
  /\ base = NoName
  /\ slot = NoSlot
  /\ there = <<>>
  /\ back = <<>>
  /\ used = {}
  /\ dead = {}
  /\ aq = [s \in Slot |-> <<>>]
  /\ tq = <<>>
  /\ work = [w \in Worker |-> Free]
  /\ asked = <<>>
  /\ taken = <<>>
  /\ got = {}
  /\ runs = [r \in Req |-> 0]
  /\ breaks = 0

-----------------------------------------------------------------------------
(* The connection.                                                         *)

\* pnoxrtc connects; the gateway starts a pnoxrta in the first slot not in use.
RtcConnects ==
  /\ ~Up
  /\ \E s \in Slot \ used :
       /\ \A t \in Slot \ used : s <= t
       /\ slot' = s
       /\ used' = used \union {s}
       /\ aq' = [aq EXCEPT ![s] = <<>>]
  /\ UNCHANGED <<callVars, rtcVars, there, back, dead, tpcVars, asked, taken,
                 got, runs, breaks>>

\* pnoxrtc ends: what is on the connection and on pnoxrtc's queue is lost, and the
\* next pnoxrtc starts with a cleared handle.
RtcGone ==
  /\ slot' = NoSlot
  /\ there' = <<>> /\ back' = <<>>
  /\ rq' = <<>>
  /\ base' = NoName
  /\ UNCHANGED <<callVars, tpcVars, asked, taken, got, runs>>

\* The connection breaks or cannot be made, or pnoxrtc dies.
Breaks ==
  /\ breaks < MaxBreak /\ breaks' = breaks + 1
  /\ RtcGone
  /\ UNCHANGED rtaVars

\* Nobody sets the slot of a killed pnoxrta free.  Its queue is gone, though not
\* the name, and its end of the connection is closed.
RtaKilled(s) ==
  /\ s \in used \ dead /\ Cardinality(dead) < MaxKill
  /\ dead' = dead \union {s}
  /\ aq' = [aq EXCEPT ![s] = <<>>]
  /\ UNCHANGED <<used, breaks>>
  /\ IF s = slot THEN RtcGone
     ELSE UNCHANGED <<callVars, rtcVars, linkVars, tpcVars, asked, taken, got, runs>>

\* Wrong variant: it closes its queue and keeps the slot.
RtaEndsInUse(s) ==
  /\ s \in used \ (dead \union {slot})
  /\ dead' = dead
  /\ aq' = [aq EXCEPT ![s] = <<>>]
  /\ UNCHANGED <<callVars, rtcVars, linkVars, used, tpcVars, asked, taken, got,
                 runs, breaks>>

\* The pnoxrta of a broken connection reads its end, cannot write to it, or
\* hears nothing for two polls: it closes its queue and frees its slot.
RtaEnds(s) ==
  /\ s \in used \ (dead \union {slot})
  /\ used' = used \ {s}
  /\ aq' = [aq EXCEPT ![s] = <<>>]
  /\ UNCHANGED <<callVars, rtcVars, linkVars, dead, tpcVars, asked, taken, got,
                 runs, breaks>>

-----------------------------------------------------------------------------
(* Callers: pxopen, pxcall, pxclose.  pnoxrtc has its queue before it has   *)
(* its connection.                                                         *)

CallerAsks(c) ==
  LET r == Len(asked) + 1
  IN  /\ call[c] = NoReq
      /\ r <= MaxReq
      /\ call' = [call EXCEPT ![c] = r]
      /\ rq' = Append(rq, [from |-> c, req |-> r])
      /\ asked' = Append(asked, c)
      /\ UNCHANGED <<ans, base, linkVars, rtaVars, tpcVars, taken, got, runs,
                     breaks>>

\* It takes the first answer for its own.
CallerGets(c) ==
  /\ call[c] # NoReq /\ ans[c] # <<>>
  /\ got' = got \union {[caller |-> c, own |-> call[c], req |-> Head(ans[c])]}
  /\ call' = [call EXCEPT ![c] = NoReq]
  /\ ans' = [ans EXCEPT ![c] = <<>>]
  /\ UNCHANGED <<rtcVars, linkVars, rtaVars, tpcVars, asked, taken, runs, breaks>>

\* pxrecv waits for three seconds.
CallerTimesOut(c) ==
  /\ Impatient
  /\ call[c] # NoReq /\ ans[c] = <<>>
  /\ call' = [call EXCEPT ![c] = NoReq]
  /\ UNCHANGED <<ans, rtcVars, linkVars, rtaVars, tpcVars, asked, taken, got,
                 runs, breaks>>

-----------------------------------------------------------------------------
(* pnoxrtc: service_tr and service_rta.                                    *)

\* Wrong variant: pxrecv does not keep the name of the sender.
BaseOfNone(c) == base' = base

\* Wrong variant: it keeps the first.
BaseOfFirst(c) == base' = IF base = NoName THEN c ELSE base

\* pxrecv puts the sender's name into the handle.
BaseOf(c) == base' = c

RtcSendsOn ==
  /\ Up /\ rq # <<>>
  /\ BaseOf(Head(rq).from)
  /\ there' = Append(there, Head(rq).req)
  /\ taken' = Append(taken, Head(rq))
  /\ rq' = Tail(rq)
  /\ UNCHANGED <<callVars, slot, back, rtaVars, tpcVars, asked, got, runs, breaks>>

\* An answer comes back and goes to the last sender, if it still waits ...
RtcAnswers(c) ==
  /\ Up /\ back # <<>> /\ base = c
  /\ ans' = IF call[c] = NoReq THEN ans
            ELSE [ans EXCEPT ![c] = Append(@, Head(back))]
  /\ back' = Tail(back)
  /\ UNCHANGED <<call, rtcVars, slot, there, rtaVars, tpcVars, asked, taken, got,
                 runs, breaks>>

\* ... or, with no sender yet, pxsend takes it for a call without a name, and
\* pxrout for a call of the service it is an answer of: it goes to pnoxrtc's
\* own queue as a request; and from then on pnoxrtc is its own last sender.
RtcAnswersSelf ==
  /\ Up /\ back # <<>> /\ base \in {NoName, Self}
  /\ rq' = Append(rq, [from |-> Self, req |-> Head(back)])
  /\ back' = Tail(back)
  /\ UNCHANGED <<callVars, base, slot, there, rtaVars, tpcVars, asked, taken, got,
                 runs, breaks>>

-----------------------------------------------------------------------------
(* pnoxrta: service_rtc and service_tr.                                    *)

\* With rtaf set pxrout calls pnoxtpc for whatever service.
RtaSendsOn ==
  /\ Up /\ there # <<>>
  /\ tq' = Append(tq, <<slot, Head(there)>>)
  /\ there' = Tail(there)
  /\ UNCHANGED <<callVars, rtcVars, slot, back, rtaVars, work, asked, taken, got,
                 runs, breaks>>

RtaAnswers ==
  /\ Up /\ aq[slot] # <<>>
  /\ back' = Append(back, Head(aq[slot]))
  /\ aq' = [aq EXCEPT ![slot] = Tail(@)]
  /\ UNCHANGED <<callVars, rtcVars, slot, there, used, dead, tpcVars, asked, taken,
                 got, runs, breaks>>

-----------------------------------------------------------------------------
(* pnoxtpc, pxexec and the program they run, pxmain.                       *)

TpcRuns(w) ==
  /\ work[w] = Free /\ tq # <<>>
  /\ runs[Head(tq)[2]] < MaxRun
  /\ work' = [work EXCEPT ![w] = Head(tq)]
  /\ tq' = Tail(tq)
  /\ runs' = [runs EXCEPT ![Head(tq)[2]] = @ + 1]
  /\ UNCHANGED <<callVars, rtcVars, linkVars, rtaVars, asked, taken, got, breaks>>

\* The program answers to the name in the header, if that is still there.
ProgramAnswers(w) ==
  LET s == work[w][1]
  IN  /\ work[w] # Free
      /\ aq' = IF s \in used \ dead THEN [aq EXCEPT ![s] = Append(@, work[w][2])] ELSE aq
      /\ work' = [work EXCEPT ![w] = Free]
      /\ UNCHANGED <<callVars, rtcVars, linkVars, used, dead, tq, asked, taken, got,
                     runs, breaks>>

\* There is no such program, or it fails.
ProgramFails(w) ==
  /\ work[w] # Free
  /\ work' = [work EXCEPT ![w] = Free]
  /\ UNCHANGED <<callVars, rtcVars, linkVars, rtaVars, tq, asked, taken, got, runs,
                 breaks>>

-----------------------------------------------------------------------------
Next ==
  \/ RtcConnects \/ Breaks \/ RtcSendsOn \/ RtcAnswersSelf
  \/ RtaSendsOn \/ RtaAnswers
  \/ \E s \in Slot : RtaEnds(s) \/ RtaKilled(s)
  \/ \E c \in Caller :
       CallerAsks(c) \/ CallerGets(c) \/ CallerTimesOut(c) \/ RtcAnswers(c)
  \/ \E w \in Worker : TpcRuns(w) \/ ProgramAnswers(w) \/ ProgramFails(w)

Spec == Init /\ [][Next]_vars

\* A pnoxrtc without a connection tries for one again and again, and a pnoxrta
\* finds out that it has none.
FairSpec ==
  /\ Spec
  /\ WF_vars(RtcConnects)
  /\ \A s \in Slot : WF_vars(RtaEnds(s))

-----------------------------------------------------------------------------
(* Properties.                                                             *)

\* As long as the connection holds, an answer is not taken for a request: no
\* program is run twice for one call.
RepeatOnlyAfterBreak == \A r \in Req : runs[r] > 1 => breaks > 0 \/ dead # {}

\* The route comes back: after the last break a connection is made and stays, unless
\* every slot has been left in use by a pnoxrta that was killed.
RouteComesBack == <>[](Up \/ dead = Slot)

\* An answer goes to its caller or to one that pnoxrtc has heard later, not to
\* one that had asked before.
NeverToEarlier ==
  \A g \in got : \E i, j \in DOMAIN taken :
    i <= j /\ taken[i].req = g.req /\ taken[j].from = g.caller
=============================================================================
