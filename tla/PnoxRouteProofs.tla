--------------------------- MODULE PnoxRouteProofs ---------------------------
(***************************************************************************)
(* Proofs about PnoxRoute, for any number of callers, requests, slots,     *)
(* workers, breaks and killed processes.                                   *)
(*                                                                         *)
(* Who gets an answer depends on what pnoxrtc has taken from its queue:    *)
(* everything on the way was taken once, and the name pnoxrtc keeps is the *)
(* one it took last.  How often a program runs depends on where a request  *)
(* can be: as long as nothing broke, in one place.                         *)
(***************************************************************************)
EXTENDS PnoxRoute, TLAPS

Message == [from : Caller \union {Self}, req : Req]

CallerTypes ==
  /\ call \in [Caller -> Req \union {NoReq}]
  /\ ans \in [Caller -> Seq(Req)]
  /\ asked \in Seq(Caller) /\ Len(asked) <= MaxReq

LinkTypes ==
  /\ rq \in Seq(Message)
  /\ base \in Name
  /\ slot \in Slot \union {NoSlot}
  /\ there \in Seq(Req)
  /\ back \in Seq(Req)
  /\ taken \in Seq(Message)

OtherTypes ==
  /\ used \subseteq Slot
  /\ dead \subseteq Slot
  /\ aq \in [Slot -> Seq(Req)]
  /\ tq \in Seq(Slot \X Req)
  /\ work \in [Worker -> (Slot \X Req) \union {Free}]
  /\ runs \in [Req -> Nat]
  /\ breaks \in Nat

Types == CallerTypes /\ LinkTypes /\ OtherTypes

-----------------------------------------------------------------------------
\* pnoxrtc has taken request r, and c's after that or with it.
Heard(r) == \E i \in DOMAIN taken : taken[i].req = r
HeardLater(r, c) ==
  \E i, j \in DOMAIN taken : i <= j /\ taken[i].req = r /\ taken[j].from = c

\* All that is on the way was taken, on both hosts.
WayInv ==
  /\ \A i \in DOMAIN there : Heard(there[i])
  /\ \A i \in DOMAIN tq : Heard(tq[i][2])
  /\ \A w \in Worker : work[w] # Free => Heard(work[w][2])
  /\ \A s \in Slot : \A i \in DOMAIN aq[s] : Heard(aq[s][i])
  /\ \A i \in DOMAIN back : Heard(back[i])

\* The name in the handle is that of the last sender.
BaseInv == base # NoName => taken # <<>> /\ taken[Len(taken)].from = base

\* Answers that have come to a caller.
AnsInv == \A c \in Caller : \A i \in DOMAIN ans[c] : HeardLater(ans[c][i], c)
GotInv == \A g \in got : HeardLater(g.req, g.caller)

AnswerInv == WayInv /\ BaseInv /\ AnsInv /\ GotInv

-----------------------------------------------------------------------------
\* The places of requests on their way to a program.
Untroubled == breaks = 0 /\ dead = {}
Queued == {rq[i].req : i \in DOMAIN rq}
OnLink == {there[i] : i \in DOMAIN there}
ForTpc == {tq[i][2] : i \in DOMAIN tq}
Ran == {r \in Req : runs[r] > 0}

\* Each request is in one place once, and only those that were asked are.
PlaceInv ==
  /\ \A i, j \in DOMAIN rq : rq[i].req = rq[j].req => i = j
  /\ \A i, j \in DOMAIN there : there[i] = there[j] => i = j
  /\ \A i, j \in DOMAIN tq : tq[i][2] = tq[j][2] => i = j
  /\ Queued \intersect OnLink = {} /\ Queued \intersect ForTpc = {}
  /\ Queued \intersect Ran = {} /\ OnLink \intersect ForTpc = {}
  /\ OnLink \intersect Ran = {} /\ ForTpc \intersect Ran = {}
  /\ \A r \in Queued \union OnLink \union ForTpc \union Ran : r <= Len(asked)
  /\ \A r \in Req : runs[r] <= 1

\* pnoxrtc has a last sender as soon as it can have an answer, and never is its
\* own sender.
SenderInv ==
  /\ base = NoName => taken = <<>>
  /\ base # Self /\ \A i \in DOMAIN rq : rq[i].from # Self

OnceInv == Untroubled => PlaceInv /\ SenderInv

RouteInv == Types /\ AnswerInv /\ OnceInv

-----------------------------------------------------------------------------
(* Queues, and what was heard.                                             *)

LEMMA AppendedIs ==
  ASSUME NEW S, NEW q \in Seq(S), NEW e \in S
  PROVE  /\ Append(q, e) \in Seq(S)
         /\ Len(Append(q, e)) = Len(q) + 1
         /\ Append(q, e)[Len(q) + 1] = e
         /\ DOMAIN Append(q, e) = DOMAIN q \union {Len(q) + 1}
         /\ \A i \in DOMAIN q : Append(q, e)[i] = q[i]
OBVIOUS

LEMMA TailIs ==
  ASSUME NEW S, NEW q \in Seq(S), q # <<>>
  PROVE  /\ Head(q) \in S /\ Head(q) = q[1] /\ 1 \in DOMAIN q
         /\ Tail(q) \in Seq(S)
         /\ \A i \in DOMAIN Tail(q) : i + 1 \in DOMAIN q /\ Tail(q)[i] = q[i + 1] /\ i # 0
OBVIOUS

\* What was heard stays so.
HeardKept ==
  /\ \A r : Heard(r) => Heard(r)'
  /\ \A r, c : HeardLater(r, c) => HeardLater(r, c)'

LEMMA SameHeard == ASSUME UNCHANGED taken PROVE HeardKept
BY DEF HeardKept, Heard, HeardLater

LEMMA MoreHeard ==
  ASSUME taken \in Seq(Message), NEW m \in Message, taken' = Append(taken, m)
  PROVE  /\ HeardKept
         /\ Heard(m.req)'
         /\ taken' # <<>> /\ taken'[Len(taken')] = m
<1>1. /\ DOMAIN taken' = DOMAIN taken \union {Len(taken) + 1}
      /\ \A i \in DOMAIN taken : taken'[i] = taken[i]
      /\ taken'[Len(taken) + 1] = m /\ Len(taken') = Len(taken) + 1
  BY AppendedIs
<1> QED
  BY <1>1 DEF HeardKept, Heard, HeardLater

LEMMA PlacesAreRequests ==
  ASSUME Types PROVE Queued \union OnLink \union ForTpc \union Ran \subseteq Req
<1>1. \A i \in DOMAIN rq : rq[i] \in Message
  BY DEF Types, LinkTypes
<1>2. \A i \in DOMAIN there : there[i] \in Req
  BY DEF Types, LinkTypes
<1>3. \A i \in DOMAIN tq : tq[i] \in Slot \X Req
  BY DEF Types, OtherTypes
<1> QED
  BY <1>1, <1>2, <1>3 DEF Queued, OnLink, ForTpc, Ran, Message

LEMMA OnceKept ==
  ASSUME OnceInv, UNCHANGED <<rq, base, there, tq, runs, asked, taken, breaks, dead>>
  PROVE  OnceInv'
<1>1. Queued' = Queued /\ OnLink' = OnLink /\ ForTpc' = ForTpc /\ Ran' = Ran
  BY DEF Queued, OnLink, ForTpc, Ran
<1>2. PlaceInv => PlaceInv'
  BY <1>1 DEF PlaceInv
<1>3. SenderInv => SenderInv'
  BY DEF SenderInv
<1> QED
  BY <1>2, <1>3 DEF OnceInv, Untroubled

\* The last one that was heard comes after all that was heard.
LEMMA LastIsLater ==
  ASSUME taken \in Seq(Message), BaseInv, base # NoName, NEW r, Heard(r)
  PROVE  HeardLater(r, base)
<1>1. /\ Len(taken) \in DOMAIN taken /\ taken[Len(taken)].from = base
      /\ \A i \in DOMAIN taken : i <= Len(taken)
  BY DEF BaseInv
<1> QED
  BY <1>1 DEF Heard, HeardLater

-----------------------------------------------------------------------------
(* The connection.                                                         *)

LEMMA RtcConnectsKeeps == ASSUME RouteInv, RtcConnects PROVE RouteInv'
<1> USE DEF RouteInv, Types, RtcConnects, callVars, rtcVars, tpcVars
<1>1. CallerTypes'
  BY DEF CallerTypes
<1>2. LinkTypes'
  BY DEF LinkTypes, Name
<1>3. OtherTypes'
  BY DEF OtherTypes
<1>4. AnswerInv'
  BY SameHeard DEF AnswerInv, WayInv, BaseInv, AnsInv, GotInv, HeardKept, OtherTypes
<1>5. OnceInv'
  BY OnceKept
<1> QED
  BY <1>1, <1>2, <1>3, <1>4, <1>5

\* pnoxrtc is gone, and there was trouble.
LEMMA GoneKeeps ==
  ASSUME RouteInv, RtcGone, OtherTypes', ~Untroubled',
         \A s \in Slot : aq'[s] \in {aq[s], <<>>}
  PROVE  RouteInv'
<1> USE DEF RouteInv, Types, RtcGone, callVars, tpcVars
<1>1. CallerTypes'
  BY DEF CallerTypes
<1>2. LinkTypes'
  BY DEF LinkTypes, Name
<1>3. AnswerInv'
  BY SameHeard DEF AnswerInv, WayInv, BaseInv, AnsInv, GotInv, HeardKept
<1> QED
  BY <1>1, <1>2, <1>3 DEF OnceInv

LEMMA BreaksKeeps == ASSUME RouteInv, Breaks PROVE RouteInv'
<1>1. OtherTypes' /\ ~Untroubled'
  BY DEF Breaks, RtcGone, rtaVars, tpcVars, RouteInv, Types, OtherTypes, Untroubled
<1> QED
  BY <1>1, GoneKeeps DEF Breaks, rtaVars

LEMMA RtaKilledKeeps ==
  ASSUME RouteInv, NEW s \in Slot, RtaKilled(s) PROVE RouteInv'
<1> USE DEF RouteInv, Types, RtaKilled
<1>1. OtherTypes'
  BY DEF OtherTypes, RtcGone, tpcVars
<1>2. ~Untroubled' /\ \A t \in Slot : aq'[t] \in {aq[t], <<>>}
  BY DEF OtherTypes, Untroubled
<1>3. CASE s = slot
  BY <1>1, <1>2, <1>3, GoneKeeps
<1>4. CASE s # slot
  <2> USE <1>4 DEF callVars, rtcVars, linkVars, tpcVars
  <2>1. CallerTypes'
    BY DEF CallerTypes
  <2>2. LinkTypes'
    BY DEF LinkTypes, Name
  <2>3. AnswerInv'
    BY <1>2, SameHeard DEF AnswerInv, WayInv, BaseInv, AnsInv, GotInv, HeardKept
  <2> QED
    BY <1>1, <1>2, <2>1, <2>2, <2>3 DEF OnceInv
<1> QED
  BY <1>3, <1>4

LEMMA RtaEndsKeeps ==
  ASSUME RouteInv, NEW s \in Slot, RtaEnds(s) PROVE RouteInv'
<1> USE DEF RouteInv, Types, RtaEnds, callVars, rtcVars, linkVars, tpcVars
<1>1. CallerTypes'
  BY DEF CallerTypes
<1>2. LinkTypes'
  BY DEF LinkTypes, Name
<1>3. OtherTypes'
  BY DEF OtherTypes
<1>4. AnswerInv'
  BY SameHeard DEF AnswerInv, WayInv, BaseInv, AnsInv, GotInv, HeardKept, OtherTypes
<1>5. OnceInv'
  BY OnceKept
<1> QED
  BY <1>1, <1>2, <1>3, <1>4, <1>5

-----------------------------------------------------------------------------
(* Callers.                                                                *)

LEMMA CallerAsksKeeps ==
  ASSUME RouteInv, NEW c \in Caller, CallerAsks(c) PROVE RouteInv'
<1> USE RouteAssumption
    DEF RouteInv, Types, CallerAsks, linkVars, rtaVars, tpcVars
<1> DEFINE r == Len(asked) + 1
           m == [from |-> c, req |-> r]
<1>0. r \in Req /\ m \in Message /\ m.req = r /\ m.from = c
  BY DEF CallerTypes, Req, Message
<1>q. /\ rq' \in Seq(Message) /\ rq'[Len(rq) + 1] = m
      /\ DOMAIN rq' = DOMAIN rq \union {Len(rq) + 1}
      /\ \A i \in DOMAIN rq : rq'[i] = rq[i]
  BY <1>0, AppendedIs DEF LinkTypes
<1>a. asked' \in Seq(Caller) /\ Len(asked') = r /\ Len(asked) \in Nat
  BY AppendedIs DEF CallerTypes
<1>1. CallerTypes'
  BY <1>0, <1>a DEF CallerTypes
<1>2. LinkTypes'
  BY <1>q DEF LinkTypes, Name
<1>3. OtherTypes'
  BY DEF OtherTypes
<1>4. AnswerInv'
  BY SameHeard DEF AnswerInv, WayInv, BaseInv, AnsInv, GotInv, HeardKept
<1>5. OnceInv'
  <2> SUFFICES ASSUME Untroubled' PROVE PlaceInv' /\ SenderInv'
    BY DEF OnceInv
  <2>1. PlaceInv /\ SenderInv
    BY DEF OnceInv, Untroubled
  <2>2. /\ Queued' = Queued \union {r}
        /\ OnLink' = OnLink /\ ForTpc' = ForTpc /\ Ran' = Ran
    BY <1>0, <1>q DEF Queued, OnLink, ForTpc, Ran
  <2>3. r \notin Queued \union OnLink \union ForTpc \union Ran
    BY <1>a, <2>1 DEF PlaceInv
  <2>4. \A i \in DOMAIN rq : rq[i].req \in Queued
    BY DEF Queued
  <2>5. \A i, j \in DOMAIN rq' : rq'[i].req = rq'[j].req => i = j
    BY <1>0, <1>q, <2>1, <2>3, <2>4 DEF PlaceInv
  <2>6. \A o \in Queued' \union OnLink' \union ForTpc' \union Ran' : o <= Len(asked')
    <3>1. Queued \union OnLink \union ForTpc \union Ran \subseteq Req
      BY PlacesAreRequests
    <3>2. \A o \in Queued \union OnLink \union ForTpc \union Ran : o \in Int /\ o <= Len(asked)
      BY <2>1, <3>1 DEF PlaceInv, Req
    <3> QED
      BY <1>a, <2>2, <3>2
  <2>7. PlaceInv'
    BY <2>1, <2>2, <2>3, <2>5, <2>6 DEF PlaceInv
  <2>8. SenderInv'
    BY <1>0, <1>q, <2>1 DEF SenderInv
  <2> QED
    BY <2>7, <2>8
<1> QED
  BY <1>1, <1>2, <1>3, <1>4, <1>5

LEMMA CallerGetsKeeps ==
  ASSUME RouteInv, NEW c \in Caller, CallerGets(c) PROVE RouteInv'
<1> USE DEF RouteInv, Types, CallerGets, rtcVars, linkVars, rtaVars, tpcVars
<1>1. CallerTypes'
  BY DEF CallerTypes
<1>2. LinkTypes'
  BY DEF LinkTypes, Name
<1>3. OtherTypes'
  BY DEF OtherTypes
<1>4. WayInv' /\ BaseInv'
  BY SameHeard DEF AnswerInv, WayInv, BaseInv, HeardKept
<1>5. AnsInv'
  <2>1. \A o \in Caller : ans'[o] = ans[o] \/ ans'[o] = <<>>
    BY DEF CallerTypes
  <2> QED
    BY <2>1, SameHeard DEF AnswerInv, AnsInv, HeardKept
<1>6. GotInv'
  <2>1. ans[c] \in Seq(Req)
    BY DEF CallerTypes
  <2>2. HeardLater(Head(ans[c]), c)
    BY <2>1, TailIs DEF AnswerInv, AnsInv
  <2> QED
    BY <2>2, SameHeard DEF AnswerInv, GotInv, HeardKept
<1>7. OnceInv'
  BY OnceKept
<1> QED
  BY <1>1, <1>2, <1>3, <1>4, <1>5, <1>6, <1>7 DEF AnswerInv

LEMMA CallerTimesOutKeeps ==
  ASSUME RouteInv, NEW c \in Caller, CallerTimesOut(c) PROVE RouteInv'
<1> USE DEF RouteInv, Types, CallerTimesOut, rtcVars, linkVars, rtaVars, tpcVars
<1>1. CallerTypes'
  BY DEF CallerTypes
<1>2. LinkTypes'
  BY DEF LinkTypes, Name
<1>3. OtherTypes'
  BY DEF OtherTypes
<1>4. AnswerInv'
  BY SameHeard DEF AnswerInv, WayInv, BaseInv, AnsInv, GotInv, HeardKept
<1>5. OnceInv'
  BY OnceKept
<1> QED
  BY <1>1, <1>2, <1>3, <1>4, <1>5

-----------------------------------------------------------------------------
(* pnoxrtc.                                                                *)

LEMMA RtcSendsOnKeeps == ASSUME RouteInv, RtcSendsOn PROVE RouteInv'
<1> USE RouteAssumption
    DEF RouteInv, Types, RtcSendsOn, BaseOf, callVars, rtaVars, tpcVars
<1>e. PICK h : h = Head(rq)
  OBVIOUS
<1>0. /\ h \in Message /\ h.req \in Req /\ h.from \in Name /\ h.from # NoName
      /\ h = rq[1] /\ 1 \in DOMAIN rq
      /\ rq' \in Seq(Message)
      /\ \A i \in DOMAIN rq' : i + 1 \in DOMAIN rq /\ rq'[i] = rq[i + 1] /\ i # 0 /\ i \in Int
  <2>1. /\ h \in Message /\ h = rq[1] /\ 1 \in DOMAIN rq /\ rq' \in Seq(Message)
        /\ \A i \in DOMAIN rq' : i + 1 \in DOMAIN rq /\ rq'[i] = rq[i + 1] /\ i # 0
    BY <1>e, TailIs DEF LinkTypes
  <2>2. \A i \in DOMAIN rq' : i \in Int
    BY <2>1
  <2> QED
    BY <2>1, <2>2 DEF Message, Name
<1>k. taken' = Append(taken, h) /\ base' = h.from /\ there' = Append(there, h.req)
  BY <1>e
<1>t. /\ there' \in Seq(Req) /\ there'[Len(there) + 1] = h.req
      /\ DOMAIN there' = DOMAIN there \union {Len(there) + 1}
      /\ \A i \in DOMAIN there : there'[i] = there[i]
  BY <1>0, <1>k, AppendedIs DEF LinkTypes
<1>h. HeardKept /\ Heard(h.req)' /\ taken' # <<>> /\ taken'[Len(taken')] = h
  BY <1>0, <1>k, MoreHeard DEF LinkTypes
<1>1. CallerTypes'
  BY DEF CallerTypes
<1>2. LinkTypes'
  BY <1>0, <1>t, <1>k, AppendedIs DEF LinkTypes
<1>3. OtherTypes'
  BY DEF OtherTypes
<1>4. WayInv'
  <2>1. \A i \in DOMAIN there' :
          there'[i] = h.req \/ (i \in DOMAIN there /\ there'[i] = there[i])
    BY <1>t
  <2> QED
    BY <1>h, <2>1 DEF AnswerInv, WayInv, HeardKept
<1>5. BaseInv'
  BY <1>h, <1>k DEF BaseInv
<1>6. AnsInv' /\ GotInv'
  BY <1>h DEF AnswerInv, AnsInv, GotInv, HeardKept
<1>7. OnceInv'
  <2> SUFFICES ASSUME Untroubled' PROVE PlaceInv' /\ SenderInv'
    BY DEF OnceInv
  <2>1. PlaceInv /\ SenderInv
    BY DEF OnceInv, Untroubled
  <2>2. \A i \in DOMAIN rq : rq[i].req \in Queued
    BY DEF Queued
  <2>3. \A i \in DOMAIN rq' : rq'[i].req # h.req /\ rq'[i].req \in Queued
    BY <1>0, <2>1, <2>2 DEF PlaceInv
  <2>4. Queued' \subseteq Queued \ {h.req}
    BY <2>3 DEF Queued
  <2>5. OnLink' = OnLink \union {h.req}
    BY <1>0, <1>t DEF OnLink
  <2>6. ForTpc' = ForTpc /\ Ran' = Ran
    BY DEF ForTpc, Ran
  <2>7. h.req \in Queued
    BY <1>0, <2>2
  <2>8. \A i \in DOMAIN there : there[i] \in OnLink
    BY DEF OnLink
  <2>9. \A i, j \in DOMAIN there' : there'[i] = there'[j] => i = j
    BY <1>t, <2>1, <2>7, <2>8 DEF PlaceInv
  <2>10. \A i, j \in DOMAIN rq' : rq'[i].req = rq'[j].req => i = j
    BY <1>0, <2>1 DEF PlaceInv
  <2>11. PlaceInv'
    BY <2>1, <2>4, <2>5, <2>6, <2>7, <2>9, <2>10 DEF PlaceInv
  <2>12. SenderInv'
    BY <1>0, <1>k, <2>1 DEF SenderInv
  <2> QED
    BY <2>11, <2>12
<1> QED
  BY <1>1, <1>2, <1>3, <1>4, <1>5, <1>6, <1>7 DEF AnswerInv

LEMMA RtcAnswersKeeps ==
  ASSUME RouteInv, NEW c \in Caller, RtcAnswers(c) PROVE RouteInv'
<1> USE RouteAssumption
    DEF RouteInv, Types, RtcAnswers, rtcVars, rtaVars, tpcVars
<1> DEFINE x == Head(back)
<1>0. /\ x \in Req /\ x = back[1] /\ 1 \in DOMAIN back /\ back' \in Seq(Req)
      /\ \A i \in DOMAIN back' : i + 1 \in DOMAIN back /\ back'[i] = back[i + 1]
      /\ base = c /\ base # NoName
  BY TailIs DEF LinkTypes
<1>a. ans' = ans \/ ans' = [ans EXCEPT ![c] = Append(ans[c], x)]
  OBVIOUS
<1> HIDE DEF x
<1>b. /\ ans' \in [Caller -> Seq(Req)]
      /\ \A o \in Caller : \A i \in DOMAIN ans'[o] :
           \/ i \in DOMAIN ans[o] /\ ans'[o][i] = ans[o][i]
           \/ o = c /\ ans'[o][i] = x
  <2>1. ans[c] \in Seq(Req) /\ ans \in [Caller -> Seq(Req)]
    BY DEF CallerTypes
  <2> QED
    BY <1>0, <1>a, <2>1, AppendedIs
<1>h. HeardLater(x, c)
  BY <1>0, LastIsLater DEF AnswerInv, WayInv, LinkTypes
<1>1. CallerTypes'
  BY <1>b DEF CallerTypes
<1>2. LinkTypes'
  BY <1>0 DEF LinkTypes, Name
<1>3. OtherTypes'
  BY DEF OtherTypes
<1>4. WayInv' /\ BaseInv' /\ GotInv'
  BY <1>0, SameHeard DEF AnswerInv, WayInv, BaseInv, GotInv, HeardKept
<1>5. AnsInv'
  <2> SUFFICES ASSUME NEW o \in Caller, NEW i \in DOMAIN ans'[o]
               PROVE  HeardLater(ans[o][i], o)'
    BY DEF AnsInv
  <2>1. PICK y : y = ans'[o][i]
    OBVIOUS
  <2>2. HeardLater(y, o)
    BY <1>b, <1>h, <2>1 DEF AnswerInv, AnsInv
  <2> QED
    BY <2>1, <2>2, SameHeard DEF HeardKept
<1>6. OnceInv'
  BY OnceKept
<1> QED
  BY <1>1, <1>2, <1>3, <1>4, <1>5, <1>6 DEF AnswerInv

LEMMA RtcAnswersSelfKeeps == ASSUME RouteInv, RtcAnswersSelf PROVE RouteInv'
<1> USE RouteAssumption
    DEF RouteInv, Types, RtcAnswersSelf, callVars, rtaVars, tpcVars
<1>0. /\ Head(back) \in Req /\ Head(back) = back[1] /\ 1 \in DOMAIN back
      /\ back' \in Seq(Req)
      /\ \A i \in DOMAIN back' : i + 1 \in DOMAIN back /\ back'[i] = back[i + 1]
  BY TailIs DEF LinkTypes
<1>1. CallerTypes'
  BY DEF CallerTypes
<1>2. LinkTypes'
  <2>1. [from |-> Self, req |-> Head(back)] \in Message
    BY <1>0 DEF Message
  <2> QED
    BY <1>0, <2>1, AppendedIs DEF LinkTypes, Name
<1>3. OtherTypes'
  BY DEF OtherTypes
<1>4. AnswerInv'
  BY <1>0, SameHeard DEF AnswerInv, WayInv, BaseInv, AnsInv, GotInv, HeardKept
<1>5. OnceInv'
  <2>1. Heard(back[1])
    BY <1>0 DEF AnswerInv, WayInv
  <2>2. taken # <<>>
    BY <2>1 DEF Heard
  <2>3. ~SenderInv
    BY <2>2 DEF SenderInv
  <2>4. ~Untroubled'
    BY <2>3 DEF OnceInv, Untroubled
  <2> QED
    BY <2>4 DEF OnceInv
<1> QED
  BY <1>1, <1>2, <1>3, <1>4, <1>5

-----------------------------------------------------------------------------
(* pnoxrta, pnoxtpc and the programs.                                      *)

LEMMA RtaSendsOnKeeps == ASSUME RouteInv, RtaSendsOn PROVE RouteInv'
<1> USE RouteAssumption
    DEF RouteInv, Types, RtaSendsOn, callVars, rtcVars, rtaVars
<1> DEFINE x == Head(there)
           e == <<slot, x>>
<1>0. /\ x \in Req /\ x = there[1] /\ 1 \in DOMAIN there /\ there' \in Seq(Req)
      /\ \A i \in DOMAIN there' : /\ i + 1 \in DOMAIN there /\ there'[i] = there[i + 1]
                                /\ i # 0 /\ i \in Int
      /\ e \in Slot \X Req /\ e[2] = x
  BY TailIs DEF LinkTypes, Up
<1>q. /\ tq' \in Seq(Slot \X Req) /\ tq'[Len(tq) + 1] = e
      /\ DOMAIN tq' = DOMAIN tq \union {Len(tq) + 1}
      /\ \A i \in DOMAIN tq : tq'[i] = tq[i]
  BY <1>0, AppendedIs DEF OtherTypes
<1> HIDE DEF x, e
<1>1. CallerTypes'
  BY DEF CallerTypes
<1>2. LinkTypes'
  BY <1>0 DEF LinkTypes, Name
<1>3. OtherTypes'
  BY <1>q DEF OtherTypes
<1>h. Heard(x)
  BY <1>0 DEF AnswerInv, WayInv
<1>4. WayInv'
  <2>1. \A i \in DOMAIN tq' : tq'[i][2] = x \/ (i \in DOMAIN tq /\ tq'[i][2] = tq[i][2])
    BY <1>0, <1>q
  <2> QED
    BY <1>0, <1>h, <2>1, SameHeard DEF AnswerInv, WayInv, HeardKept
<1>5. BaseInv' /\ AnsInv' /\ GotInv'
  BY SameHeard DEF AnswerInv, BaseInv, AnsInv, GotInv, HeardKept
<1>6. OnceInv'
  <2> SUFFICES ASSUME Untroubled' PROVE PlaceInv' /\ SenderInv'
    BY DEF OnceInv
  <2>1. PlaceInv /\ SenderInv
    BY DEF OnceInv, Untroubled
  <2>2. \A i \in DOMAIN there : there[i] \in OnLink
    BY DEF OnLink
  <2>3. \A i \in DOMAIN there' : there'[i] # x /\ there'[i] \in OnLink
    BY <1>0, <2>1, <2>2 DEF PlaceInv
  <2>4. OnLink' \subseteq OnLink \ {x}
    BY <2>3 DEF OnLink
  <2>5. ForTpc' = ForTpc \union {x}
    BY <1>0, <1>q DEF ForTpc
  <2>6. Queued' = Queued /\ Ran' = Ran
    BY DEF Queued, Ran
  <2>7. x \in OnLink
    BY <1>0, <2>2
  <2>8. \A i \in DOMAIN tq : tq[i][2] \in ForTpc
    BY DEF ForTpc
  <2>9. \A i, j \in DOMAIN tq' : tq'[i][2] = tq'[j][2] => i = j
    BY <1>0, <1>q, <2>1, <2>7, <2>8 DEF PlaceInv
  <2>10. \A i, j \in DOMAIN there' : there'[i] = there'[j] => i = j
    BY <1>0, <2>1 DEF PlaceInv
  <2>11. PlaceInv'
    BY <2>1, <2>4, <2>5, <2>6, <2>7, <2>9, <2>10 DEF PlaceInv
  <2>12. SenderInv'
    BY <2>1 DEF SenderInv
  <2> QED
    BY <2>11, <2>12
<1> QED
  BY <1>1, <1>2, <1>3, <1>4, <1>5, <1>6 DEF AnswerInv

LEMMA RtaAnswersKeeps == ASSUME RouteInv, RtaAnswers PROVE RouteInv'
<1> USE RouteAssumption
    DEF RouteInv, Types, RtaAnswers, callVars, rtcVars, tpcVars
<1>0. /\ slot \in Slot /\ aq[slot] \in Seq(Req) /\ aq[slot] # <<>>
      /\ Head(aq[slot]) \in Req /\ Head(aq[slot]) = aq[slot][1] /\ 1 \in DOMAIN aq[slot]
      /\ aq' = [aq EXCEPT ![slot] = Tail(aq[slot])] /\ Tail(aq[slot]) \in Seq(Req)
      /\ \A i \in DOMAIN Tail(aq[slot]) :
           i + 1 \in DOMAIN aq[slot] /\ Tail(aq[slot])[i] = aq[slot][i + 1]
  BY TailIs DEF LinkTypes, OtherTypes, Up
<1>b. /\ back' \in Seq(Req)
      /\ \A i \in DOMAIN back' :
           \/ i \in DOMAIN back /\ back'[i] = back[i]
           \/ back'[i] = Head(aq[slot])
  BY <1>0, AppendedIs DEF LinkTypes
<1>1. CallerTypes'
  BY DEF CallerTypes
<1>2. LinkTypes'
  BY <1>b DEF LinkTypes, Name
<1>3. OtherTypes'
  BY <1>0 DEF OtherTypes
<1>4. WayInv'
  <2>1. Heard(Head(aq[slot]))
    BY <1>0 DEF AnswerInv, WayInv
  <2>2. \A i \in DOMAIN back' : Heard(back'[i])
    BY <1>b, <2>1 DEF AnswerInv, WayInv
  <2>3. \A s \in Slot : \A i \in DOMAIN aq'[s] : Heard(aq'[s][i])
    BY <1>0 DEF AnswerInv, WayInv, OtherTypes
  <2>4. \A r : Heard(r)' <=> Heard(r)
    BY DEF Heard
  <2> QED
    BY <2>2, <2>3, <2>4 DEF AnswerInv, WayInv
<1>5. BaseInv' /\ AnsInv' /\ GotInv'
  BY SameHeard DEF AnswerInv, BaseInv, AnsInv, GotInv, HeardKept
<1>6. OnceInv'
  BY OnceKept
<1> QED
  BY <1>1, <1>2, <1>3, <1>4, <1>5, <1>6 DEF AnswerInv

\* A worker takes a request: it was taken by pnoxrtc, and if nothing broke it has
\* not been run yet.
LEMMA TpcRunsKeeps ==
  ASSUME RouteInv, NEW w \in Worker, TpcRuns(w) PROVE RouteInv'
<1> USE RouteAssumption
    DEF RouteInv, Types, TpcRuns, callVars, rtcVars, linkVars, rtaVars
<1>e. PICK h : h = Head(tq)
  OBVIOUS
<1>f. PICK r : r = h[2]
  OBVIOUS
<1>0. /\ h \in Slot \X Req /\ r \in Req /\ h = tq[1] /\ 1 \in DOMAIN tq /\ h[2] = r
      /\ tq' \in Seq(Slot \X Req)
      /\ \A i \in DOMAIN tq' : i + 1 \in DOMAIN tq /\ tq'[i] = tq[i + 1] /\ i # 0 /\ i \in Int
  <2>1. /\ h \in Slot \X Req /\ h = tq[1] /\ 1 \in DOMAIN tq /\ tq' \in Seq(Slot \X Req)
        /\ \A i \in DOMAIN tq' : i + 1 \in DOMAIN tq /\ tq'[i] = tq[i + 1] /\ i # 0
    BY <1>e, TailIs DEF OtherTypes
  <2>2. \A i \in DOMAIN tq' : i \in Int
    BY <2>1
  <2> QED
    BY <1>f, <2>1, <2>2
<1>s. work' = [work EXCEPT ![w] = h] /\ runs' = [runs EXCEPT ![r] = runs[r] + 1]
  BY <1>e, <1>f
<1>1. CallerTypes'
  BY DEF CallerTypes
<1>2. LinkTypes'
  BY DEF LinkTypes, Name
<1>3. OtherTypes'
  BY <1>0, <1>s DEF OtherTypes
<1>4. WayInv'
  <2>1. Heard(h[2])
    BY <1>0 DEF AnswerInv, WayInv
  <2> QED
    BY <1>0, <1>s, <2>1, SameHeard DEF AnswerInv, WayInv, HeardKept, OtherTypes
<1>5. BaseInv' /\ AnsInv' /\ GotInv'
  BY SameHeard DEF AnswerInv, BaseInv, AnsInv, GotInv, HeardKept
<1>6. OnceInv'
  <2> SUFFICES ASSUME Untroubled' PROVE PlaceInv' /\ SenderInv'
    BY DEF OnceInv
  <2>1. PlaceInv /\ SenderInv
    BY DEF OnceInv, Untroubled
  <2>2. \A i \in DOMAIN tq : tq[i][2] \in ForTpc
    BY DEF ForTpc
  <2>3. \A i \in DOMAIN tq' : tq'[i][2] # r /\ tq'[i][2] \in ForTpc
    BY <1>0, <2>1, <2>2 DEF PlaceInv
  <2>4. ForTpc' \subseteq ForTpc \ {r}
    BY <2>3 DEF ForTpc
  <2>5. r \in ForTpc
    BY <1>0, <2>2
  <2>6. runs[r] = 0
    BY <1>0, <2>1, <2>5 DEF PlaceInv, Ran, OtherTypes
  <2>7. Ran' = Ran \union {r} /\ \A o \in Req : runs'[o] <= 1
    BY <1>0, <1>s, <2>1, <2>6 DEF PlaceInv, Ran, OtherTypes
  <2>8. Queued' = Queued /\ OnLink' = OnLink
    BY DEF Queued, OnLink
  <2>9. \A i, j \in DOMAIN tq' : tq'[i][2] = tq'[j][2] => i = j
    BY <1>0, <2>1 DEF PlaceInv
  <2>10. PlaceInv'
    BY <2>1, <2>4, <2>5, <2>7, <2>8, <2>9 DEF PlaceInv
  <2>11. SenderInv'
    BY <2>1 DEF SenderInv
  <2> QED
    BY <2>10, <2>11
<1> QED
  BY <1>1, <1>2, <1>3, <1>4, <1>5, <1>6 DEF AnswerInv

LEMMA ProgramAnswersKeeps ==
  ASSUME RouteInv, NEW w \in Worker, ProgramAnswers(w) PROVE RouteInv'
<1> USE RouteAssumption
    DEF RouteInv, Types, ProgramAnswers, callVars, rtcVars, linkVars
<1>e. PICK s : s = work[w][1]
  OBVIOUS
<1>f. PICK r : r = work[w][2]
  OBVIOUS
<1>0. s \in Slot /\ r \in Req /\ Heard(r)
  BY <1>e, <1>f DEF OtherTypes, AnswerInv, WayInv
<1>a. /\ aq' \in [Slot -> Seq(Req)]
      /\ \A t \in Slot : \A i \in DOMAIN aq'[t] :
           aq'[t][i] = r \/ (i \in DOMAIN aq[t] /\ aq'[t][i] = aq[t][i])
  <2>1. aq \in [Slot -> Seq(Req)] /\ aq[s] \in Seq(Req)
    BY <1>0 DEF OtherTypes
  <2>2. aq' = aq \/ aq' = [aq EXCEPT ![s] = Append(aq[s], r)]
    BY <1>e, <1>f
  <2>3. /\ Append(aq[s], r) \in Seq(Req)
        /\ \A i \in DOMAIN Append(aq[s], r) :
             \/ Append(aq[s], r)[i] = r
             \/ i \in DOMAIN aq[s] /\ Append(aq[s], r)[i] = aq[s][i]
    BY <1>0, <2>1, AppendedIs
  <2>4. CASE aq' = aq
    BY <2>1, <2>4
  <2>5. CASE aq' = [aq EXCEPT ![s] = Append(aq[s], r)]
    BY <1>0, <2>1, <2>3, <2>5
  <2> QED
    BY <2>2, <2>4, <2>5
<1>1. CallerTypes'
  BY DEF CallerTypes
<1>2. LinkTypes'
  BY DEF LinkTypes, Name
<1>3. OtherTypes'
  BY <1>a DEF OtherTypes
<1>4. AnswerInv'
  BY <1>0, <1>a, SameHeard
     DEF AnswerInv, WayInv, BaseInv, AnsInv, GotInv, HeardKept, OtherTypes
<1>5. OnceInv'
  BY OnceKept
<1> QED
  BY <1>1, <1>2, <1>3, <1>4, <1>5

LEMMA ProgramFailsKeeps ==
  ASSUME RouteInv, NEW w \in Worker, ProgramFails(w) PROVE RouteInv'
<1> USE RouteAssumption
    DEF RouteInv, Types, ProgramFails, callVars, rtcVars, linkVars, rtaVars
<1>1. CallerTypes'
  BY DEF CallerTypes
<1>2. LinkTypes'
  BY DEF LinkTypes, Name
<1>3. OtherTypes'
  BY DEF OtherTypes
<1>4. AnswerInv'
  BY SameHeard DEF AnswerInv, WayInv, BaseInv, AnsInv, GotInv, HeardKept, OtherTypes
<1>5. OnceInv'
  BY OnceKept
<1> QED
  BY <1>1, <1>2, <1>3, <1>4, <1>5

-----------------------------------------------------------------------------
LEMMA RouteInit == Init => RouteInv
<1> USE RouteAssumption DEF Init
<1>1. Init => CallerTypes /\ LinkTypes /\ OtherTypes
  BY DEF CallerTypes, LinkTypes, OtherTypes, Name
<1>2. Init => AnswerInv
  BY DEF AnswerInv, WayInv, BaseInv, AnsInv, GotInv
<1>3. Init => PlaceInv /\ SenderInv
  BY DEF PlaceInv, SenderInv, Queued, OnLink, ForTpc, Ran
<1> QED
  BY <1>1, <1>2, <1>3 DEF RouteInv, Types, OnceInv

LEMMA StutterKeeps == ASSUME RouteInv, UNCHANGED vars PROVE RouteInv'
<1> USE DEF RouteInv, Types, vars, callVars, rtcVars, linkVars, rtaVars, tpcVars
<1>1. CallerTypes'
  BY DEF CallerTypes
<1>2. LinkTypes'
  BY DEF LinkTypes, Name
<1>3. OtherTypes'
  BY DEF OtherTypes
<1>4. AnswerInv'
  BY SameHeard DEF AnswerInv, WayInv, BaseInv, AnsInv, GotInv, HeardKept
<1>5. OnceInv'
  BY OnceKept
<1> QED
  BY <1>1, <1>2, <1>3, <1>4, <1>5

LEMMA RouteStep == RouteInv /\ [Next]_vars => RouteInv'
<1> SUFFICES ASSUME RouteInv, [Next]_vars PROVE RouteInv'
  OBVIOUS
<1>1. CASE RtcConnects \/ Breaks \/ RtcSendsOn \/ RtcAnswersSelf
  BY <1>1, RtcConnectsKeeps, BreaksKeeps, RtcSendsOnKeeps, RtcAnswersSelfKeeps
<1>2. CASE RtaSendsOn \/ RtaAnswers
  BY <1>2, RtaSendsOnKeeps, RtaAnswersKeeps
<1>3. ASSUME NEW s \in Slot, RtaEnds(s) \/ RtaKilled(s) PROVE RouteInv'
  BY <1>3, RtaEndsKeeps, RtaKilledKeeps
<1>4. ASSUME NEW c \in Caller,
             CallerAsks(c) \/ CallerGets(c) \/ CallerTimesOut(c) \/ RtcAnswers(c)
      PROVE  RouteInv'
  BY <1>4, CallerAsksKeeps, CallerGetsKeeps, CallerTimesOutKeeps, RtcAnswersKeeps
<1>5. ASSUME NEW w \in Worker, TpcRuns(w) \/ ProgramAnswers(w) \/ ProgramFails(w)
      PROVE  RouteInv'
  BY <1>5, TpcRunsKeeps, ProgramAnswersKeeps, ProgramFailsKeeps
<1>6. CASE UNCHANGED vars
  BY <1>6, StutterKeeps
<1> QED
  BY <1>1, <1>2, <1>3, <1>4, <1>5, <1>6 DEF Next

\* No answer goes to a caller that had asked before the one it is for, whatever
\* breaks, ends or times out in between.
THEOREM AnswersGoOn == Spec => []NeverToEarlier
<1>1. RouteInv => NeverToEarlier
  BY DEF RouteInv, AnswerInv, GotInv, HeardLater, NeverToEarlier
<1> QED
  BY <1>1, RouteInit, RouteStep, PTL DEF Spec

\* As long as the connection holds and no pnoxrta was killed, no program is run
\* twice for one request.
THEOREM RunsOnce == Spec => []RepeatOnlyAfterBreak
<1>1. RouteInv => RepeatOnlyAfterBreak
  <2> SUFFICES ASSUME RouteInv, NEW r \in Req, runs[r] > 1, ~(breaks > 0 \/ dead # {})
               PROVE  FALSE
    BY DEF RepeatOnlyAfterBreak
  <2>1. Untroubled
    BY DEF RouteInv, Types, OtherTypes, Untroubled
  <2> QED
    BY <2>1 DEF RouteInv, Types, OtherTypes, OnceInv, PlaceInv
<1> QED
  BY <1>1, RouteInit, RouteStep, PTL DEF Spec
=======
