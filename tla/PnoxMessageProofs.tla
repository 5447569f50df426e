-------------------------- MODULE PnoxMessageProofs --------------------------
(***************************************************************************)
(* Proofs about PnoxMessage, for any number of sessions, workers, requests *)
(* and kills, any size of the queues and anything the application does.    *)
(*                                                                         *)
(* That a reply reaches its asker, or a later holder of the asker's id,    *)
(* follows from what every place a request passes through says of it:      *)
(* AskedBy(r, p) for the id p that stands beside it there.  That it comes  *)
(* once follows from the places being apart (ApartInv): every step that    *)
(* adds a request to one takes it from another.  With both, the system     *)
(* implements PnoxCalls.  And a step that takes a request from one place   *)
(* adds it to another or settles it (KeptInv): when all has come to a halt *)
(* nobody waits, but in a circle of full queues.                           *)
(***************************************************************************)
EXTENDS PnoxMessage, TLAPS

\* Request r was sent by a client that had the id p, this one or an earlier one.
AskedBy(r, p) ==
  /\ r \in Req /\ p \in Pxid
  /\ fate[r] # "new"
  /\ by[r].id = p /\ by[r].gen <= gen[p]

\* A session has its own id, and what it sends and holds is its client's.
SessionInv ==
  \A p \in Pxid :
    /\ On(p) => hid[p] = p
    /\ spc[p] \in {"conn", "write"} => AskedBy(sreq[p], p)
    /\ held[p].kind = "reply" => AskedBy(held[p].req, p)

\* The header of a request names who asked.
ServerInv ==
  \A i \in DOMAIN sq : sq[i].st = "sent" => AskedBy(sq[i].req, sq[i].pxid)

\* A worker's handle names who asked; its list is empty until the application
\* sets it; whatever it sends has its destination in the header, and the reply
\* goes to the id in the handle.
WorkerInv ==
  \A w \in Worker :
    /\ wpc[w] # "idle" => AskedBy(wreq[w], wpxid[w])
    /\ wpc[w] = "serve" => wulst[w] = <<>>
    /\ wpc[w] = "write" => Dest(w).to \in Pxid
    /\ \A i \in DOMAIN wto[w] :
         /\ wto[w][i].pxid = wto[w][i].to
         /\ wto[w][i].kind = "reply" => wto[w][i].to = wpxid[w]

\* What is on a session's queue has the session's id in the header, and the
\* replies are to its requests.
QueueInv ==
  \A p \in Pxid : \A i \in DOMAIN uq[p] :
    uq[p][i].st = "sent" =>
      /\ uq[p][i].pxid = p
      /\ uq[p][i].kind = "reply" => AskedBy(uq[p][i].req, p)

\* What has been delivered.
GotInv ==
  \A i \in DOMAIN got : AskedBy(got[i].req, got[i].id) /\ by[got[i].req].gen <= got[i].gen

\* The parts of TypeOK.
SessionTypes ==
  /\ spc \in [Pxid -> {"off", "wait", "conn", "write", "out", "poll"}]
  /\ hid \in [Pxid -> Id]
  /\ pollf \in [Pxid -> BOOLEAN]
  /\ client \in [Pxid -> {"none", "here", "silent", "left"}]
  /\ out \in [Pxid -> 0 .. OutRoom]
  /\ sreq \in [Pxid -> Req \union {NoReq}]
  /\ held \in [Pxid -> Conn]

QueueTypes ==
  /\ uq \in [Pxid -> Seq(Conn)] /\ \A p \in Pxid : Len(uq[p]) <= Room
  /\ sq \in Seq(Conn) /\ Len(sq) <= Room

WorkTypes ==
  /\ wpc \in [Worker -> {"idle", "serve", "send", "write"}]
  /\ wpxid \in [Worker -> Id]
  /\ wulst \in [Worker -> Seq(Id)]
  /\ wto \in [Worker -> Seq(Send)]
  /\ \A w \in Worker : wpc[w] \in {"idle", "serve"} <=> wto[w] = <<>>
  /\ wreq \in [Worker -> Req \union {NoReq}]

HistTypes ==
  /\ gen \in [Pxid -> 0 .. MaxGen]
  /\ by \in [Req -> [id : Id, gen : 0 .. MaxGen]]
  /\ fate \in [Req -> {"new", "asked", "answered", "dropped"}]
  /\ got \in Seq([req : Req, id : Pxid, gen : 0 .. MaxGen])
  /\ kills \in 0 .. MaxKill
  /\ logoffs \in 0 .. MaxLogoff

Types == SessionTypes /\ QueueTypes /\ WorkTypes /\ HistTypes

MessageInv ==
  Types /\ SessionInv /\ ServerInv /\ WorkerInv /\ QueueInv /\ GotInv

-----------------------------------------------------------------------------
(* Connections and queues.                                                 *)

LEMMA WrittenIs ==
  ASSUME NEW q \in Seq(Conn), NEW f \in Id \union Worker, NEW p \in Id,
         NEW k \in {"ask", "reply", "note"}, NEW r \in Req \union {NoReq}
  PROVE  /\ Written(q, f, p, k, r) \in Seq(Conn)
         /\ Len(Written(q, f, p, k, r)) = Len(q)
         /\ \A i \in DOMAIN Written(q, f, p, k, r) :
              /\ i \in DOMAIN q
              /\ \/ Written(q, f, p, k, r)[i] = q[i]
                 \/ /\ Written(q, f, p, k, r)[i].pxid = p
                    /\ Written(q, f, p, k, r)[i].kind = k
                    /\ Written(q, f, p, k, r)[i].req = r
BY DEF Written, Conn

LEMMA CutIs ==
  ASSUME NEW q \in Seq(Conn), NEW f \in Worker
  PROVE  /\ Cut(q, f) \in Seq(Conn)
         /\ Len(Cut(q, f)) = Len(q)
         /\ \A i \in DOMAIN Cut(q, f) :
              i \in DOMAIN q /\ (Cut(q, f)[i].st = "sent" => Cut(q, f)[i] = q[i])
<1>1. \A i \in DOMAIN q : /\ q[i] \in Conn /\ [q[i] EXCEPT !.st = "cut"] \in Conn
                          /\ [q[i] EXCEPT !.st = "cut"].st = "cut"
  <2>1. \A c \in Conn : [c EXCEPT !.st = "cut"] \in Conn /\ [c EXCEPT !.st = "cut"].st = "cut"
    BY DEF Conn
  <2> QED
    BY <2>1
<1>2. /\ DOMAIN Cut(q, f) = DOMAIN q
      /\ \A i \in DOMAIN q : Cut(q, f)[i] \in Conn
      /\ \A i \in DOMAIN q : Cut(q, f)[i].st = "sent" => Cut(q, f)[i] = q[i]
  BY <1>1 DEF Cut
<1>3. Cut(q, f) \in [1 .. Len(q) -> Conn]
  BY <1>1 DEF Cut
<1>4. Cut(q, f) \in Seq(Conn) /\ Len(Cut(q, f)) = Len(q)
  BY <1>3
<1> QED
  BY <1>2, <1>4

LEMMA AppendedIs ==
  ASSUME NEW S, NEW q \in Seq(S), NEW e \in S
  PROVE  /\ Append(q, e) \in Seq(S)
         /\ Len(Append(q, e)) = Len(q) + 1
         /\ \A i \in DOMAIN Append(q, e) :
              Append(q, e)[i] = e \/ (i \in DOMAIN q /\ Append(q, e)[i] = q[i])
OBVIOUS

LEMMA TailIs ==
  ASSUME NEW S, NEW q \in Seq(S), q # <<>>
  PROVE  /\ Head(q) \in S /\ Head(q) = q[1] /\ 1 \in DOMAIN q
         /\ Tail(q) \in Seq(S)
         /\ Len(Tail(q)) = Len(q) - 1
         /\ \A i \in DOMAIN Tail(q) : i + 1 \in DOMAIN q /\ Tail(q)[i] = q[i + 1]
OBVIOUS

LEMMA ConcatIs ==
  ASSUME NEW S, NEW q \in Seq(S), NEW r \in Seq(S)
  PROVE  /\ q \o r \in Seq(S)
         /\ Len(q \o r) = Len(q) + Len(r)
         /\ \A i \in DOMAIN (q \o r) :
              \/ i \in DOMAIN q /\ (q \o r)[i] = q[i]
              \/ i - Len(q) \in DOMAIN r /\ (q \o r)[i] = r[i - Len(q)]
OBVIOUS

LEMMA RemovedIs ==
  ASSUME NEW S, NEW q \in Seq(S), NEW i \in DOMAIN q
  PROVE  /\ RemoveAt(q, i) \in Seq(S)
         /\ Len(RemoveAt(q, i)) = Len(q) - 1
         /\ \A j \in DOMAIN RemoveAt(q, i) :
              \E k \in DOMAIN q : RemoveAt(q, i)[j] = q[k]
<1> DEFINE a == SubSeq(q, 1, i - 1)
           b == SubSeq(q, i + 1, Len(q))
<1>1. /\ a \in Seq(S) /\ Len(a) = i - 1
      /\ \A j \in DOMAIN a : j \in DOMAIN q /\ a[j] = q[j]
  OBVIOUS
<1>2. /\ b \in Seq(S) /\ Len(b) = Len(q) - i
      /\ \A j \in DOMAIN b : i + j \in DOMAIN q /\ b[j] = q[i + j]
  OBVIOUS
<1>3. RemoveAt(q, i) = a \o b
  BY DEF RemoveAt
<1> HIDE DEF a, b
<1> QED
  <2>1. /\ a \o b \in Seq(S)
        /\ Len(a \o b) = Len(q) - 1
        /\ \A j \in DOMAIN (a \o b) :
             \/ j \in DOMAIN a /\ (a \o b)[j] = a[j]
             \/ j - Len(a) \in DOMAIN b /\ (a \o b)[j] = b[j - Len(a)]
    BY <1>1, <1>2, ConcatIs
  <2>2. ASSUME NEW j \in DOMAIN (a \o b) PROVE \E k \in DOMAIN q : (a \o b)[j] = q[k]
    <3>1. CASE j \in DOMAIN a /\ (a \o b)[j] = a[j]
      BY <1>1, <3>1
    <3>2. CASE j - Len(a) \in DOMAIN b /\ (a \o b)[j] = b[j - Len(a)]
      BY <1>2, <3>2
    <3> QED
      BY <2>1, <3>1, <3>2
  <2> QED
    BY <1>3, <2>1, <2>2

-----------------------------------------------------------------------------
(* What a step leaves as it was.                                           *)

LEMMA TypeParts == TypeOK <=> Types
BY DEF TypeOK, Types, SessionTypes, QueueTypes, WorkTypes, HistTypes

\* Who asked does not change.
AskedKept == \A r, p : AskedBy(r, p) => AskedBy(r, p)'

LEMMA HistoryKept ==
  ASSUME HistTypes, UNCHANGED <<histVars, kills, logoffs>>
  PROVE  AskedKept /\ HistTypes'
BY DEF AskedKept, AskedBy, histVars, HistTypes

LEMMA SettledKept ==
  ASSUME HistTypes, NEW r \in Req \union {NoReq}, NEW f \in {"answered", "dropped"},
         Settle(r, f), UNCHANGED <<gen, by, got, kills, logoffs>>
  PROVE  AskedKept /\ HistTypes'
BY DEF AskedKept, AskedBy, Settle, HistTypes, NoReq

LEMMA ServerKept ==
  ASSUME ServerInv, AskedKept, UNCHANGED sq PROVE ServerInv'
BY DEF ServerInv, AskedKept

LEMMA WorkersKept ==
  ASSUME WorkTypes, WorkerInv, AskedKept, UNCHANGED workVars
  PROVE  WorkTypes' /\ WorkerInv'
BY DEF WorkTypes, WorkerInv, AskedKept, workVars, Dest

LEMMA QueuesKept ==
  ASSUME QueueInv, AskedKept, UNCHANGED uq PROVE QueueInv'
BY DEF QueueInv, AskedKept

\* What is on a session's queue was there before, or is as it should be.
LEMMA QueuesFrom ==
  ASSUME QueueInv, AskedKept,
         \A p \in Pxid : \A i \in DOMAIN uq'[p] :
           uq'[p][i].st = "sent" =>
             \/ \E j \in DOMAIN uq[p] : uq'[p][i] = uq[p][j]
             \/ /\ uq'[p][i].pxid = p
                /\ uq'[p][i].kind = "reply" => AskedBy(uq'[p][i].req, p)
  PROVE  QueueInv'
<1> SUFFICES ASSUME NEW p \in Pxid, NEW i \in DOMAIN uq'[p], uq'[p][i].st = "sent"
             PROVE  /\ uq'[p][i].pxid = p
                    /\ (uq[p][i].kind = "reply" => AskedBy(uq[p][i].req, p))'
  BY DEF QueueInv
<1>1. PICK c : c = uq'[p][i]
  OBVIOUS
<1>2. c.pxid = p /\ (c.kind = "reply" => AskedBy(c.req, p))
  BY <1>1 DEF QueueInv
<1>3. c.kind = "reply" => AskedBy(c.req, p)'
  BY <1>2 DEF AskedKept
<1> QED
  BY <1>1, <1>2, <1>3

LEMMA SessionsKept ==
  ASSUME SessionTypes, SessionInv, AskedKept, UNCHANGED sessVars
  PROVE  SessionTypes' /\ SessionInv'
BY DEF SessionTypes, SessionInv, AskedKept, sessVars, On

LEMMA GotKept ==
  ASSUME GotInv, AskedKept, UNCHANGED got,
         \A r \in Req : fate[r] # "new" => by'[r] = by[r]
  PROVE  GotInv'
BY DEF GotInv, AskedKept, AskedBy

-----------------------------------------------------------------------------
(* Sessions.                                                               *)

LEMMA SessionStartKeeps ==
  ASSUME MessageInv, NEW p \in Pxid, SessionStart(p) PROVE MessageInv'
<1> USE MessageAssumption DEF MessageInv, Types, SessionStart, Goto
<1>1. SessionTypes'
  BY DEF SessionTypes, Id
<1>2. QueueTypes'
  BY DEF QueueTypes
<1>3. HistTypes' /\ AskedKept
  BY DEF AskedKept, AskedBy, HistTypes
<1>4. SessionInv'
  BY <1>3 DEF SessionInv, AskedKept, On, SessionTypes
<1>5. WorkTypes' /\ WorkerInv' /\ ServerInv' /\ QueueInv' /\ GotInv'
  BY <1>3, ServerKept, WorkersKept, QueuesKept, GotKept
<1> QED
  BY <1>1, <1>2, <1>3, <1>4, <1>5

LEMMA SessionReadsKeeps ==
  ASSUME MessageInv, NEW p \in Pxid, NEW r \in NextReq, SessionReads(p, r)
  PROVE  MessageInv'
<1> USE MessageAssumption DEF MessageInv, Types, SessionReads, Goto
<1>0. r \in Req /\ fate[r] = "new"
  BY DEF NextReq
<1>1. SessionTypes'
  BY <1>0 DEF SessionTypes
<1>2. QueueTypes'
  BY DEF QueueTypes
<1>3. HistTypes' /\ AskedKept
  BY <1>0 DEF AskedKept, AskedBy, HistTypes, Id
<1>4. SessionInv'
  <2>1. AskedBy(r, p)'
    BY <1>0 DEF AskedBy, HistTypes
  <2> QED
    BY <1>3, <2>1 DEF SessionInv, AskedKept, On, SessionTypes
<1>5. WorkTypes' /\ WorkerInv' /\ ServerInv' /\ QueueInv'
  BY <1>3, ServerKept, WorkersKept, QueuesKept
<1>6. GotInv'
  BY <1>0, <1>3, GotKept DEF HistTypes
<1> QED
  BY <1>1, <1>2, <1>3, <1>4, <1>5, <1>6

\* A session that ends, for whatever reason.
LEMMA EndKeeps ==
  ASSUME MessageInv, NEW p \in Pxid, End(p), uq' = [uq EXCEPT ![p] = <<>>],
         UNCHANGED <<sq, workVars, histVars, kills, logoffs>>
  PROVE  MessageInv'
<1> USE MessageAssumption DEF MessageInv, Types, End
<1>1. SessionTypes'
  BY DEF SessionTypes, Id, Nothing, Conn, NoReq
<1>2. QueueTypes'
  BY DEF QueueTypes
<1>3. HistTypes' /\ AskedKept
  BY HistoryKept
<1>4. SessionInv'
  BY <1>3 DEF SessionInv, AskedKept, On, SessionTypes, Nothing
<1>5. QueueInv'
  BY <1>3 DEF QueueInv, AskedKept, QueueTypes
<1>6. WorkTypes' /\ WorkerInv' /\ ServerInv' /\ GotInv'
  BY <1>3, ServerKept, WorkersKept, GotKept DEF histVars
<1> QED
  BY <1>1, <1>2, <1>3, <1>4, <1>5, <1>6

\* What concerns the client alone: polls, reading, leaving.
LEMMA QuietKeeps ==
  ASSUME MessageInv, NEW p \in Pxid, NEW at, spc' = [spc EXCEPT ![p] = at],
         at = spc[p] \/ (spc[p] \in {"wait", "poll"} /\ at \in {"wait", "poll"}),
         SessionTypes',
         UNCHANGED <<hid, sreq, held, uq, sq, workVars, histVars, kills, logoffs>>
  PROVE  MessageInv'
<1> USE MessageAssumption DEF MessageInv, Types
<1>1. QueueTypes'
  BY DEF QueueTypes
<1>2. HistTypes' /\ AskedKept
  BY HistoryKept
<1>3. SessionInv'
  BY <1>2 DEF SessionInv, AskedKept, On, SessionTypes
<1>4. WorkTypes' /\ WorkerInv' /\ ServerInv' /\ QueueInv' /\ GotInv'
  BY <1>2, ServerKept, WorkersKept, QueuesKept, GotKept DEF histVars
<1> QED
  BY <1>1, <1>2, <1>3, <1>4

LEMMA SessionReadsPollKeeps ==
  ASSUME MessageInv, NEW p \in Pxid, SessionReadsPoll(p) PROVE MessageInv'
<1>1. SessionTypes'
  BY DEF SessionReadsPoll, MessageInv, Types, SessionTypes
<1>2. spc' = [spc EXCEPT ![p] = spc[p]]
  BY DEF SessionReadsPoll, MessageInv, Types, SessionTypes
<1> QED
  BY <1>1, <1>2, QuietKeeps DEF SessionReadsPoll

LEMMA SessionPollsKeeps ==
  ASSUME MessageInv, NEW p \in Pxid, SessionPolls(p) \/ SessionPolled(p)
  PROVE  MessageInv'
<1>1. CASE SessionPolls(p)
  <2>1. SessionTypes'
    BY <1>1 DEF SessionPolls, Goto, MessageInv, Types, SessionTypes
  <2> QED
    BY <1>1, <2>1, QuietKeeps DEF SessionPolls, Goto
<1>2. CASE SessionPolled(p)
  <2>1. SessionTypes'
    BY <1>2 DEF SessionPolled, Goto, MessageInv, Types, SessionTypes
  <2> QED
    BY <1>2, <2>1, QuietKeeps DEF SessionPolled, Goto
<1> QED
  BY <1>1, <1>2

LEMMA ClientKeeps ==
  ASSUME MessageInv, NEW p \in Pxid,
         ClientReads(p) \/ \E m \in Moods : ClientTurns(p, m)
  PROVE  MessageInv'
<1>1. SessionTypes'
  BY MessageAssumption DEF ClientReads, ClientTurns, MessageInv, Types, SessionTypes
<1>2. spc' = [spc EXCEPT ![p] = spc[p]]
  BY DEF ClientReads, ClientTurns, MessageInv, Types, SessionTypes
<1> QED
  BY <1>1, <1>2, QuietKeeps DEF ClientReads, ClientTurns

LEMMA SessionConnectsKeeps ==
  ASSUME MessageInv, NEW p \in Pxid, SessionConnects(p) PROVE MessageInv'
<1> USE MessageAssumption DEF MessageInv, Types, SessionConnects, Goto
<1>0. Opened(p) \in Conn /\ Opened(p).st = "open"
  BY DEF Opened, Conn, Id, NoReq
<1>1. SessionTypes'
  BY DEF SessionTypes
<1>2. QueueTypes'
  BY <1>0, AppendedIs DEF QueueTypes
<1>3. HistTypes' /\ AskedKept
  BY HistoryKept
<1>4. SessionInv'
  BY <1>3 DEF SessionInv, AskedKept, On, SessionTypes
<1>5. ServerInv'
  BY <1>0, <1>3, AppendedIs DEF ServerInv, AskedKept, QueueTypes
<1>6. WorkTypes' /\ WorkerInv' /\ QueueInv' /\ GotInv'
  BY <1>3, WorkersKept, QueuesKept, GotKept DEF histVars
<1> QED
  BY <1>1, <1>2, <1>3, <1>4, <1>5, <1>6

LEMMA SessionSendFailsKeeps ==
  ASSUME MessageInv, NEW p \in Pxid, SessionSendFails(p) PROVE MessageInv'
<1> USE MessageAssumption DEF MessageInv, Types, SessionSendFails, Goto
<1>1. SessionTypes'
  BY DEF SessionTypes
<1>2. QueueTypes'
  BY DEF QueueTypes
<1>3. HistTypes' /\ AskedKept
  BY SettledKept DEF SessionTypes
<1>4. SessionInv'
  BY <1>3 DEF SessionInv, AskedKept, On, SessionTypes
<1>5. WorkTypes' /\ WorkerInv' /\ ServerInv' /\ QueueInv' /\ GotInv'
  BY <1>3, ServerKept, WorkersKept, QueuesKept, GotKept
<1> QED
  BY <1>1, <1>2, <1>3, <1>4, <1>5

LEMMA SessionWritesKeeps ==
  ASSUME MessageInv, NEW p \in Pxid, SessionWrites(p) PROVE MessageInv'
<1> USE MessageAssumption DEF MessageInv, Types, SessionWrites, Goto
<1>0. /\ sq \in Seq(Conn) /\ p \in Id \union Worker /\ hid[p] = p /\ p \in Id
      /\ sreq[p] \in Req \union {NoReq} /\ AskedBy(sreq[p], p)
  BY DEF SessionTypes, QueueTypes, SessionInv, On, Id
<1> DEFINE q == Written(sq, p, p, "ask", sreq[p])
<1>q. /\ q \in Seq(Conn) /\ Len(q) = Len(sq)
      /\ \A i \in DOMAIN q :
           /\ i \in DOMAIN sq
           /\ q[i] = sq[i] \/ (q[i].pxid = p /\ q[i].req = sreq[p])
  BY <1>0, WrittenIs
<1>s. sq' = q
  BY <1>0
<1> HIDE DEF q
<1>1. SessionTypes'
  BY DEF SessionTypes
<1>2. QueueTypes'
  BY <1>q, <1>s DEF QueueTypes
<1>3. HistTypes' /\ AskedKept
  BY HistoryKept
<1>4. SessionInv'
  BY <1>3 DEF SessionInv, AskedKept, On, SessionTypes
<1>5. ServerInv'
  BY <1>0, <1>3, <1>q, <1>s DEF ServerInv, AskedKept
<1>6. WorkTypes' /\ WorkerInv' /\ QueueInv' /\ GotInv'
  BY <1>3, WorkersKept, QueuesKept, GotKept DEF histVars
<1> QED
  BY <1>1, <1>2, <1>3, <1>4, <1>5, <1>6

LEMMA SessionReceivesKeeps ==
  ASSUME MessageInv, NEW p \in Pxid, SessionReceives(p) PROVE MessageInv'
<1> USE MessageAssumption DEF MessageInv, Types, SessionReceives, Goto
<1> DEFINE h == Head(uq[p])
<1>0. /\ uq[p] \in Seq(Conn) /\ uq[p] # <<>> /\ h \in Conn /\ h.pxid = p
      /\ h.kind = "reply" => AskedBy(h.req, p)
  BY TailIs DEF Ready, QueueTypes, QueueInv
<1>s. hid' = [hid EXCEPT ![p] = p] /\ held' = [held EXCEPT ![p] = h]
  BY <1>0
<1> HIDE DEF h
<1>1. SessionTypes'
  BY <1>0, <1>s DEF SessionTypes, Id
<1>2. QueueTypes'
  BY <1>0, TailIs DEF QueueTypes
<1>3. HistTypes' /\ AskedKept
  BY HistoryKept
<1>4. SessionInv'
  BY <1>0, <1>s, <1>3 DEF SessionInv, AskedKept, On, SessionTypes
<1>5. QueueInv'
  <2>1. /\ \A i \in DOMAIN uq'[p] : i + 1 \in DOMAIN uq[p] /\ uq'[p][i] = uq[p][i + 1]
        /\ \A o \in Pxid : o # p => uq'[o] = uq[o]
    BY <1>0, TailIs DEF QueueTypes
  <2> QED
    BY <1>3, <2>1 DEF QueueInv, AskedKept
<1>6. WorkTypes' /\ WorkerInv' /\ ServerInv' /\ GotInv'
  BY <1>3, ServerKept, WorkersKept, GotKept DEF histVars
<1> QED
  BY <1>1, <1>2, <1>3, <1>4, <1>5, <1>6

LEMMA SessionDeliversKeeps ==
  ASSUME MessageInv, NEW p \in Pxid, SessionDelivers(p) PROVE MessageInv'
<1> USE MessageAssumption DEF MessageInv, Types, SessionDelivers, Goto
<1>0. held[p] \in Conn /\ held[p].req \in Req \union {NoReq}
  BY DEF SessionTypes, Conn
<1>1. SessionTypes'
  BY DEF SessionTypes, Nothing, Conn, Id, NoReq
<1>2. QueueTypes'
  BY DEF QueueTypes
<1>3. HistTypes' /\ AskedKept /\ GotInv'
  <2>1. CASE held[p].kind = "reply"
    <3> DEFINE d == [req |-> held[p].req, id |-> p, gen |-> gen[p]]
    <3>1. /\ AskedBy(d.req, p) /\ d.req \in Req /\ by[d.req].gen <= d.gen
          /\ d.gen \in 0 .. MaxGen /\ d.id = p /\ d \in [req : Req, id : Pxid, gen : 0 .. MaxGen]
      BY <2>1 DEF SessionInv, AskedBy, HistTypes
    <3>2. got' = Append(got, d) /\ fate' = [fate EXCEPT ![d.req] = "answered"]
      BY <2>1, <3>1 DEF Settle, Req, NoReq
    <3> HIDE DEF d
    <3>3. HistTypes'
      BY <3>1, <3>2 DEF HistTypes
    <3>4. AskedKept
      BY <3>1, <3>2 DEF AskedKept, AskedBy, HistTypes
    <3>5. GotInv'
      BY <3>1, <3>2, <3>4 DEF GotInv, AskedKept
    <3> QED
      BY <3>3, <3>4, <3>5
  <2>2. CASE held[p].kind # "reply"
    <3>1. HistTypes' /\ AskedKept
      BY <2>2, HistoryKept DEF histVars
    <3> QED
      BY <2>2, <3>1, GotKept
  <2> QED
    BY <2>1, <2>2
<1>4. SessionInv'
  BY <1>3 DEF SessionInv, AskedKept, On, SessionTypes, Nothing
<1>5. WorkTypes' /\ WorkerInv' /\ ServerInv' /\ QueueInv'
  BY <1>3, ServerKept, WorkersKept, QueuesKept
<1> QED
  BY <1>1, <1>2, <1>3, <1>4, <1>5

LEMMA LogoffKeeps ==
  ASSUME MessageInv, NEW p \in Pxid, Logoff(p) PROVE MessageInv'
<1> USE MessageAssumption DEF MessageInv, Types, Logoff
<1> DEFINE c == [Opened(NoPxid) EXCEPT !.pxid = p, !.kind = "logoff", !.st = "sent"]
<1>0. c \in Conn /\ c.pxid = p /\ c.kind = "logoff"
  BY DEF Opened, Conn, Id, NoReq
<1> HIDE DEF c
<1>s. uq' = [uq EXCEPT ![p] = Append(uq[p], c)]
  BY DEF c
<1>1. /\ QueueTypes'
      /\ \A i \in DOMAIN uq'[p] :
           uq'[p][i] = c \/ (i \in DOMAIN uq[p] /\ uq'[p][i] = uq[p][i])
      /\ \A o \in Pxid : o # p => uq'[o] = uq[o]
  BY <1>0, <1>s, AppendedIs DEF QueueTypes
<1>2. AskedKept
  BY DEF AskedKept, AskedBy, histVars
<1>3. HistTypes'
  BY DEF HistTypes, histVars
<1>4. QueueInv'
  BY <1>0, <1>1, <1>2 DEF QueueInv, AskedKept
<1>5. /\ SessionTypes' /\ SessionInv' /\ WorkTypes' /\ WorkerInv' /\ ServerInv'
      /\ GotInv'
  BY <1>2, SessionsKept, ServerKept, WorkersKept, GotKept DEF histVars
<1> QED
  BY <1>1, <1>3, <1>4, <1>5

-----------------------------------------------------------------------------
(* Workers.                                                                *)

LEMMA WorkerTakesKeeps ==
  ASSUME MessageInv, NEW w \in Worker, NEW i \in Done(sq), WorkerTakes(w, i)
  PROVE  MessageInv'
<1> USE MessageAssumption DEF MessageInv, Types, WorkerTakes, WGoto
<1>0. i \in DOMAIN sq /\ sq[i] \in Conn /\ sq \in Seq(Conn) /\ wto[w] = <<>>
  BY DEF Done, QueueTypes, WorkTypes
<1>q. /\ sq' \in Seq(Conn) /\ Len(sq') = Len(sq) - 1
      /\ \A j \in DOMAIN sq' : \E k \in DOMAIN sq : sq'[j] = sq[k]
  BY <1>0, RemovedIs
<1>1. QueueTypes'
  BY <1>q DEF QueueTypes
<1>2. WorkTypes'
  BY <1>0 DEF WorkTypes, Conn
<1>3. HistTypes' /\ AskedKept
  BY HistoryKept
<1>4. ServerInv'
  BY <1>3, <1>q DEF ServerInv, AskedKept
<1>5. WorkerInv'
  BY <1>0, <1>3 DEF WorkerInv, AskedKept, WorkTypes, ServerInv, Dest
<1>6. SessionTypes' /\ SessionInv' /\ QueueInv' /\ GotInv'
  BY <1>3, SessionsKept, QueuesKept, GotKept DEF histVars
<1> QED
  BY <1>1, <1>2, <1>3, <1>4, <1>5, <1>6

LEMMA ServeFailsKeeps ==
  ASSUME MessageInv, NEW w \in Worker, ServeFails(w) PROVE MessageInv'
<1> USE MessageAssumption DEF MessageInv, Types, ServeFails, WGoto
<1>1. QueueTypes'
  BY DEF QueueTypes
<1>2. WorkTypes'
  BY DEF WorkTypes
<1>3. HistTypes' /\ AskedKept
  BY SettledKept DEF WorkTypes
<1>4. WorkerInv'
  BY <1>3 DEF WorkerInv, AskedKept, WorkTypes, Dest
<1>5. SessionTypes' /\ SessionInv' /\ ServerInv' /\ QueueInv' /\ GotInv'
  BY <1>3, SessionsKept, ServerKept, QueuesKept, GotKept
<1> QED
  BY <1>1, <1>2, <1>3, <1>4, <1>5

\* What a worker with something to send has in mind.
Sendable(to, p) ==
  /\ to \in Seq(Send) /\ to # <<>>
  /\ \A i \in DOMAIN to :
       to[i].pxid = to[i].to /\ (to[i].kind = "reply" => to[i].to = p)

LEMMA NotesSendable ==
  ASSUME NEW w \in Worker, NEW a \in Pxid, NEW b \in Pxid, NEW p
  PROVE  Sendable(Multi(w, <<a, b>>, "note"), p)
<1> DEFINE x == [to |-> a, pxid |-> a, kind |-> "note"]
           y == [to |-> b, pxid |-> b, kind |-> "note"]
<1>1. x \in Send /\ y \in Send
  BY DEF Send, Id
<1>2. Multi(w, <<a, b>>, "note") = <<x, y>>
  BY DEF Multi
<1>3. /\ <<x, y>> \in Seq(Send) /\ <<x, y>> # <<>>
      /\ \A i \in DOMAIN <<x, y>> : <<x, y>>[i] \in {x, y}
  BY <1>1
<1>4. \A z \in {x, y} : z.pxid = z.to /\ z.kind # "reply"
  OBVIOUS
<1> QED
  BY <1>2, <1>3, <1>4 DEF Sendable

LEMMA ReplySendable ==
  ASSUME MessageInv, NEW w \in Worker, wpc[w] = "serve"
  PROVE  Sendable(Reply(w, "reply"), wpxid[w])
<1> DEFINE x == [to |-> wpxid[w], pxid |-> wpxid[w], kind |-> "reply"]
<1>1. x \in Send
  BY DEF Send, Id, MessageInv, Types, WorkTypes
<1>2. Reply(w, "reply") = <<x>>
  BY DEF Reply, MessageInv, WorkerInv
<1>3. <<x>> \in Seq(Send) /\ <<x>> # <<>> /\ \A i \in DOMAIN <<x>> : <<x>>[i] = x
  BY <1>1
<1>4. x.pxid = x.to /\ x.to = wpxid[w]
  OBVIOUS
<1> QED
  BY <1>2, <1>3, <1>4 DEF Sendable

LEMMA BothSendable ==
  ASSUME NEW s, NEW t, NEW p, Sendable(s, p), Sendable(t, p)
  PROVE  Sendable(s \o t, p)
<1>1. s \o t \in Seq(Send) /\ s \o t # <<>>
  BY ConcatIs DEF Sendable
<1>2. \A i \in DOMAIN (s \o t) :
        \/ i \in DOMAIN s /\ (s \o t)[i] = s[i]
        \/ i - Len(s) \in DOMAIN t /\ (s \o t)[i] = t[i - Len(s)]
  BY ConcatIs DEF Sendable
<1> QED
  BY <1>1, <1>2 DEF Sendable

\* The application is done, and there is something to send.
LEMMA ServedKeeps ==
  ASSUME MessageInv, NEW w \in Worker, WGoto(w, "serve", "send"),
         NEW to, Sendable(to, wpxid[w]), wto' = [wto EXCEPT ![w] = to],
         NEW list \in Seq(Id), wulst' = [wulst EXCEPT ![w] = list],
         HistTypes', AskedKept,
         UNCHANGED <<sessVars, uq, sq, wpxid, wreq, gen, by, got>>
  PROVE  MessageInv'
<1> USE DEF MessageInv, Types, WGoto
<1>1. QueueTypes'
  BY DEF QueueTypes
<1>2. WorkTypes'
  BY DEF WorkTypes, Sendable
<1>3. WorkerInv'
  BY DEF WorkerInv, AskedKept, WorkTypes, Dest, Sendable
<1>4. SessionTypes' /\ SessionInv' /\ ServerInv' /\ QueueInv' /\ GotInv'
  BY SessionsKept, ServerKept, QueuesKept, GotKept
<1> QED
  BY <1>1, <1>2, <1>3, <1>4

LEMMA ServeRepliesKeeps ==
  ASSUME MessageInv, NEW w \in Worker, ServeReplies(w) PROVE MessageInv'
<1>1. Sendable(Reply(w, "reply"), wpxid[w])
  BY ReplySendable DEF ServeReplies, WGoto
<1>2. wulst[w] \in Seq(Id) /\ wulst' = [wulst EXCEPT ![w] = wulst[w]]
  BY DEF ServeReplies, MessageInv, Types, WorkTypes
<1>3. HistTypes' /\ AskedKept
  BY HistoryKept DEF ServeReplies, MessageInv, Types
<1> QED
  BY <1>1, <1>2, <1>3, ServedKeeps DEF ServeReplies, histVars

LEMMA ServeTellsKeeps ==
  ASSUME MessageInv, NEW w \in Worker, NEW a \in Pxid, NEW b \in Pxid,
         ServeTells(w, a, b)
  PROVE  MessageInv'
<1>1. Sendable(Multi(w, <<a, b>>, "note") \o Reply(w, "reply"), wpxid[w])
  BY ReplySendable, NotesSendable, BothSendable DEF ServeTells, WGoto
<1>2. wulst[w] \in Seq(Id) /\ wulst' = [wulst EXCEPT ![w] = wulst[w]]
  BY DEF ServeTells, MessageInv, Types, WorkTypes
<1>3. HistTypes' /\ AskedKept
  BY HistoryKept DEF ServeTells, MessageInv, Types
<1> QED
  BY <1>1, <1>2, <1>3, ServedKeeps DEF ServeTells, histVars

\* A list with the asker alone is as good as none.
LEMMA ListIsReply ==
  ASSUME MessageInv, NEW w \in Worker, wpc[w] = "serve"
  PROVE  Multi(w, <<wpxid[w]>>, "reply") = Reply(w, "reply")
<1> DEFINE x == [to |-> wpxid[w], pxid |-> wpxid[w], kind |-> "reply"]
           s == <<wpxid[w]>>
<1>1. Reply(w, "reply") = <<x>>
  BY DEF Reply, MessageInv, WorkerInv
<1>2. DOMAIN s = {1} /\ s[1] = wpxid[w] /\ <<x>> = [i \in {1} |-> x]
  OBVIOUS
<1>3. \A i \in DOMAIN s : [to |-> s[i], pxid |-> s[i], kind |-> "reply"] = x
  BY <1>2
<1>4. Multi(w, s, "reply") = [i \in {1} |-> x]
  BY <1>2, <1>3 DEF Multi
<1> QED
  BY <1>1, <1>2, <1>4

LEMMA ServeListsKeeps ==
  ASSUME MessageInv, NEW w \in Worker, ServeLists(w) PROVE MessageInv'
<1>1. Sendable(Multi(w, <<wpxid[w]>>, "reply"), wpxid[w])
  BY ReplySendable, ListIsReply DEF ServeLists, WGoto
<1>2. <<wpxid[w]>> \in Seq(Id)
  BY DEF MessageInv, Types, WorkTypes
<1>3. HistTypes' /\ AskedKept
  BY HistoryKept DEF ServeLists, MessageInv, Types
<1> QED
  BY <1>1, <1>2, <1>3, ServedKeeps DEF ServeLists, histVars

LEMMA SendConnectsKeeps ==
  ASSUME MessageInv, NEW w \in Worker, SendConnects(w) PROVE MessageInv'
<1> USE MessageAssumption DEF MessageInv, Types, SendConnects, WGoto
<1> DEFINE p == Dest(w).to
           c == Opened(w)
<1>0. c \in Conn /\ c.st = "open" /\ p \in Pxid
  BY DEF Opened, Conn, Id, NoReq
<1>s. uq' = [uq EXCEPT ![p] = Append(uq[p], c)]
  OBVIOUS
<1>d. \A v \in Worker : Dest(v)' = Dest(v)
  BY DEF Dest
<1> HIDE DEF p, c
<1>1. /\ QueueTypes'
      /\ \A i \in DOMAIN uq'[p] :
           uq'[p][i] = c \/ (i \in DOMAIN uq[p] /\ uq'[p][i] = uq[p][i])
      /\ \A o \in Pxid : o # p => uq'[o] = uq[o]
  BY <1>0, <1>s, AppendedIs DEF QueueTypes
<1>2. WorkTypes'
  BY DEF WorkTypes
<1>3. HistTypes' /\ AskedKept
  BY HistoryKept
<1>4. WorkerInv'
  BY <1>0, <1>3, <1>d DEF WorkerInv, AskedKept, WorkTypes, p
<1>5. QueueInv'
  <2>1. ASSUME NEW o \in Pxid, NEW i \in DOMAIN uq'[o], uq'[o][i].st = "sent"
        PROVE  \E j \in DOMAIN uq[o] : uq'[o][i] = uq[o][j]
    BY <1>0, <1>1, <2>1
  <2> QED
    BY <1>3, <2>1, QueuesFrom
<1>6. SessionTypes' /\ SessionInv' /\ ServerInv' /\ GotInv'
  BY <1>3, SessionsKept, ServerKept, GotKept DEF histVars
<1> QED
  BY <1>1, <1>2, <1>3, <1>4, <1>5, <1>6

\* A destination is done with.
LEMMA NextKeeps ==
  ASSUME MessageInv, NEW w \in Worker, wpc[w] \in {"send", "write"}, SendNext(w),
         AskedKept, UNCHANGED <<wpxid, wulst>>
  PROVE  WorkTypes' /\ WorkerInv'
<1>w. WorkTypes /\ WorkerInv
  BY DEF MessageInv, Types
<1>0. /\ wto[w] \in Seq(Send) /\ wto[w] # <<>>
      /\ wto'[w] = Tail(wto[w]) /\ Tail(wto[w]) \in Seq(Send)
      /\ \A i \in DOMAIN wto'[w] : i + 1 \in DOMAIN wto[w] /\ wto'[w][i] = wto[w][i + 1]
  BY <1>w, TailIs DEF WorkTypes, SendNext
<1>1. WorkTypes'
  BY <1>0, <1>w DEF WorkTypes, SendNext
<1>2. \A v \in Worker : v # w => wto'[v] = wto[v] /\ wpc'[v] = wpc[v] /\ wreq'[v] = wreq[v]
  BY <1>w DEF WorkTypes, SendNext
<1>3. wpc'[w] # "idle" => wreq'[w] = wreq[w]
  BY <1>w DEF WorkTypes, SendNext
<1>4. wpc'[w] \in {"idle", "send"}
  BY <1>w DEF WorkTypes, SendNext
<1>5. WorkerInv'
  <2> SUFFICES ASSUME NEW v \in Worker
               PROVE  /\ wpc'[v] # "idle" => AskedBy(wreq[v], wpxid[v])'
                      /\ wpc'[v] = "serve" => wulst'[v] = <<>>
                      /\ wpc'[v] = "write" => Dest(v)'.to \in Pxid
                      /\ \A i \in DOMAIN wto'[v] :
                           /\ wto'[v][i].pxid = wto'[v][i].to
                           /\ wto'[v][i].kind = "reply" => wto'[v][i].to = wpxid'[v]
    BY DEF WorkerInv
  <2>1. CASE v # w
    BY <1>2, <1>w, <2>1 DEF WorkerInv, AskedKept, Dest
  <2>2. CASE v = w
    <3>1. wpc'[v] # "idle" => AskedBy(wreq[v], wpxid[v])'
      BY <1>3, <1>w, <2>2 DEF WorkerInv, AskedKept
    <3>2. \A i \in DOMAIN wto'[v] :
            /\ wto'[v][i].pxid = wto'[v][i].to
            /\ wto'[v][i].kind = "reply" => wto'[v][i].to = wpxid'[v]
      BY <1>0, <1>w, <2>2 DEF WorkerInv
    <3> QED
      BY <1>4, <2>2, <3>1, <3>2
  <2> QED
    BY <2>1, <2>2
<1> QED
  BY <1>1, <1>5

LEMMA SendFailsKeeps ==
  ASSUME MessageInv, NEW w \in Worker, SendFails(w) \/ SendWriteFails(w)
  PROVE  MessageInv'
<1> USE DEF MessageInv, Types, SendFails, SendWriteFails
<1>0. /\ wpc[w] \in {"send", "write"} /\ SendNext(w) /\ Failed(w)
      /\ UNCHANGED <<sessVars, uq, sq, wpxid, wulst, gen, by, got, kills, logoffs>>
  OBVIOUS
<1>1. HistTypes' /\ AskedKept
  <2>1. wreq[w] \in Req \union {NoReq}
    BY DEF WorkTypes
  <2>2. CASE Settle(wreq[w], "dropped")
    BY <1>0, <2>1, <2>2, SettledKept
  <2>3. CASE UNCHANGED fate
    BY <1>0, <2>3, HistoryKept DEF histVars
  <2> QED
    BY <1>0, <2>2, <2>3 DEF Failed
<1>2. WorkTypes' /\ WorkerInv'
  BY <1>0, <1>1, NextKeeps
<1>3. QueueTypes'
  BY <1>0 DEF QueueTypes
<1>4. SessionTypes' /\ SessionInv' /\ ServerInv' /\ QueueInv' /\ GotInv'
  BY <1>0, <1>1, SessionsKept, ServerKept, QueuesKept, GotKept
<1> QED
  BY <1>1, <1>2, <1>3, <1>4

LEMMA SendWritesKeeps ==
  ASSUME MessageInv, NEW w \in Worker, SendWrites(w) PROVE MessageInv'
<1> USE DEF MessageInv, Types, SendWrites
<1> DEFINE p == Dest(w).to
           q == Written(uq[p], w, Dest(w).pxid, Dest(w).kind, wreq[w])
<1>0. /\ p \in Pxid /\ uq[p] \in Seq(Conn) /\ Dest(w).pxid = p
      /\ Dest(w).kind \in {"reply", "note"} /\ wreq[w] \in Req \union {NoReq}
      /\ Dest(w).kind = "reply" => p = wpxid[w]
      /\ AskedBy(wreq[w], wpxid[w])
  <2>1. /\ wto[w] \in Seq(Send) /\ wto[w] # <<>>
        /\ 1 \in DOMAIN wto[w] /\ Dest(w) = wto[w][1] /\ Dest(w) \in Send
    BY TailIs DEF WorkTypes, Dest
  <2> QED
    BY <2>1 DEF WorkerInv, WorkTypes, QueueTypes, Send
<1>q. /\ q \in Seq(Conn) /\ Len(q) = Len(uq[p])
      /\ \A i \in DOMAIN q :
           /\ i \in DOMAIN uq[p]
           /\ \/ q[i] = uq[p][i]
              \/ /\ q[i].pxid = p
                 /\ q[i].kind = "reply" => AskedBy(q[i].req, p)
  <2>1. Dest(w).pxid \in Id
    BY <1>0 DEF Id
  <2> QED
    BY <1>0, <2>1, WrittenIs
<1>s. uq' = [uq EXCEPT ![p] = q]
  OBVIOUS
<1> HIDE DEF p, q
<1>1. QueueTypes'
  BY <1>0, <1>q, <1>s DEF QueueTypes
<1>2. HistTypes' /\ AskedKept
  BY HistoryKept
<1>3. WorkTypes' /\ WorkerInv'
  BY <1>2, NextKeeps
<1>4. QueueInv'
  <2>1. uq'[p] = q /\ \A o \in Pxid : o # p => uq'[o] = uq[o]
    BY <1>0, <1>s DEF QueueTypes
  <2>2. ASSUME NEW o \in Pxid, NEW i \in DOMAIN uq'[o]
        PROVE  \/ i \in DOMAIN uq[o] /\ uq'[o][i] = uq[o][i]
               \/ /\ uq'[o][i].pxid = o
                  /\ uq'[o][i].kind = "reply" => AskedBy(uq'[o][i].req, o)
    BY <1>q, <2>1
  <2> QED
    BY <1>2, <2>2, QueuesFrom
<1>5. SessionTypes' /\ SessionInv' /\ ServerInv' /\ GotInv'
  BY <1>2, SessionsKept, ServerKept, GotKept DEF histVars
<1> QED
  BY <1>1, <1>2, <1>3, <1>4, <1>5

LEMMA WorkerKilledKeeps ==
  ASSUME MessageInv, NEW w \in Worker, WorkerKilled(w) PROVE MessageInv'
<1> USE MessageAssumption DEF MessageInv, Types, WorkerKilled
<1>1. /\ QueueTypes'
      /\ \A p \in Pxid : \A i \in DOMAIN uq'[p] :
           i \in DOMAIN uq[p] /\ (uq'[p][i].st = "sent" => uq'[p][i] = uq[p][i])
  BY CutIs DEF QueueTypes
<1>2. WorkTypes'
  BY DEF WorkTypes, Id, NoReq
<1>3. AskedKept
  BY DEF AskedKept, AskedBy, Settle, HistTypes, WorkTypes, NoReq
<1>4. HistTypes'
  BY DEF HistTypes, Settle, WorkTypes, NoReq
<1>5. WorkerInv'
  BY <1>3 DEF WorkerInv, AskedKept, WorkTypes, Dest
<1>6. QueueInv'
  BY <1>1, <1>3, QueuesFrom
<1>7. SessionTypes' /\ SessionInv' /\ ServerInv' /\ GotInv'
  BY <1>3, SessionsKept, ServerKept, GotKept
<1> QED
  BY <1>1, <1>2, <1>4, <1>5, <1>6, <1>7

-----------------------------------------------------------------------------
LEMMA MessageInit == Init => MessageInv
<1> USE MessageAssumption DEF Init
<1>1. Init => SessionTypes
  BY DEF SessionTypes, Nothing, Conn, Id, NoReq
<1>2. Init => QueueTypes /\ WorkTypes
  BY DEF QueueTypes, WorkTypes, Id, NoReq
<1>3. Init => HistTypes
  BY DEF HistTypes, Id
<1>4. Init => SessionInv /\ ServerInv /\ WorkerInv /\ QueueInv /\ GotInv
  BY DEF SessionInv, ServerInv, WorkerInv, QueueInv, GotInv, On, Nothing, Dest
<1> QED
  BY <1>1, <1>2, <1>3, <1>4 DEF MessageInv, Types

LEMMA SessionRunKeeps ==
  ASSUME MessageInv, NEW p \in Pxid, SessionRun(p) PROVE MessageInv'
<1>1. CASE \/ SessionReadsEnd(p) \/ SessionReceivesEnd(p)
           \/ SessionDeliverFails(p) \/ SessionPolledTwice(p)
  BY <1>1, EndKeeps
     DEF SessionReadsEnd, SessionReceivesEnd, SessionDeliverFails, SessionPolledTwice
<1>2. CASE SessionConnects(p) \/ SessionSendFails(p) \/ SessionWrites(p)
  BY <1>2, SessionConnectsKeeps, SessionSendFailsKeeps, SessionWritesKeeps
<1>3. CASE SessionReceives(p) \/ SessionDelivers(p)
  BY <1>3, SessionReceivesKeeps, SessionDeliversKeeps
<1>4. CASE SessionPolls(p) \/ SessionPolled(p)
  BY <1>4, SessionPollsKeeps
<1> QED
  BY <1>1, <1>2, <1>3, <1>4 DEF SessionRun

LEMMA WorkerRunKeeps ==
  ASSUME MessageInv, NEW w \in Worker, WorkerRun(w) PROVE MessageInv'
BY WorkerTakesKeeps, ServeFailsKeeps, ServeRepliesKeeps, ServeListsKeeps, ServeTellsKeeps,
   SendConnectsKeeps, SendFailsKeeps, SendWritesKeeps
   DEF WorkerRun

LEMMA StutterKeeps == ASSUME MessageInv, UNCHANGED vars PROVE MessageInv'
<1> USE DEF MessageInv, Types, vars
<1>1. HistTypes' /\ AskedKept
  BY HistoryKept
<1>2. QueueTypes'
  BY DEF QueueTypes
<1>3. SessionTypes' /\ SessionInv' /\ WorkTypes' /\ WorkerInv'
  BY <1>1, SessionsKept, WorkersKept
<1>4. ServerInv' /\ QueueInv' /\ GotInv'
  BY <1>1, ServerKept, QueuesKept, GotKept DEF histVars
<1> QED
  BY <1>1, <1>2, <1>3, <1>4

LEMMA MessageStep == MessageInv /\ [Next]_vars => MessageInv'
<1> SUFFICES ASSUME MessageInv, [Next]_vars PROVE MessageInv'
  OBVIOUS
<1>1. ASSUME NEW p \in Pxid, SessionRun(p) PROVE MessageInv'
  BY <1>1, SessionRunKeeps
<1>2. ASSUME NEW p \in Pxid, SessionStart(p) \/ SessionReadsPoll(p) PROVE MessageInv'
  BY <1>2, SessionStartKeeps, SessionReadsPollKeeps
<1>3. ASSUME NEW p \in Pxid, NEW r \in NextReq, SessionReads(p, r) PROVE MessageInv'
  BY <1>3, SessionReadsKeeps
<1>4. ASSUME NEW p \in Pxid, ClientReads(p) \/ \E m \in Moods : ClientTurns(p, m)
      PROVE  MessageInv'
  BY <1>4, ClientKeeps
<1>5. ASSUME NEW p \in Pxid, Logoff(p) PROVE MessageInv'
  BY <1>5, LogoffKeeps
<1>6. ASSUME NEW w \in Worker, WorkerRun(w) \/ WorkerKilled(w) PROVE MessageInv'
  BY <1>6, WorkerRunKeeps, WorkerKilledKeeps
<1>7. CASE UNCHANGED vars
  BY <1>7, StutterKeeps
<1> QED
  BY <1>1, <1>2, <1>3, <1>4, <1>5, <1>6, <1>7 DEF Next

\* Every variable has its type and no queue is over its limit; a worker is back
\* at its queue only when it has tried every destination.
THEOREM MessageTyping == Spec => []TypeOK
<1>1. MessageInv => TypeOK
  BY TypeParts DEF MessageInv
<1> QED
  BY <1>1, MessageInit, MessageStep, PTL DEF Spec

\* A reply never reaches a client with another id than the asker's, nor one that
\* had the id before the asker: whatever workers sent before, whoever was killed,
\* and however often ids were given to others in between.
THEOREM ReplyReachesAsker == Spec => []RepliesToAsker
<1>1. MessageInv => RepliesToAsker
  BY DEF MessageInv, GotInv, RepliesToAsker, AskedBy
<1> QED
  BY <1>1, MessageInit, MessageStep, PTL DEF Spec

\* What pxrecv puts into a session's handle is the id that is there already.
THEOREM IdIsKept == Spec => []SessionKeepsId
<1>1. MessageInv => SessionKeepsId
  BY DEF MessageInv, SessionInv, SessionKeepsId
<1> QED
  BY <1>1, MessageInit, MessageStep, PTL DEF Spec

-----------------------------------------------------------------------------
(* Where a request is.  It moves from a session to the server's queue, to a *)
(* worker, to the queue of the session, and into its hands, and it is never *)
(* in two of these places, nor twice in one.                                *)

\* The requests a queue carries, and who has a connection on it that is not yet
\* written.
Carries(c, kind) == c.st = "sent" /\ c.kind = kind
Carried(q, kind) == {q[i].req : i \in {j \in DOMAIN q : Carries(q[j], kind)}}
Openers(q) == {q[i].from : i \in {j \in DOMAIN q : q[j].st = "open"}}

\* Each of them once.
Neat(q, kind) ==
  /\ \A i, j \in DOMAIN q :
       Carries(q[i], kind) /\ Carries(q[j], kind) /\ q[i].req = q[j].req => i = j
  /\ \A i, j \in DOMAIN q :
       q[i].st = "open" /\ q[j].st = "open" /\ q[i].from = q[j].from => i = j

\* A worker that has still to answer: the reply is the last it sends.
Busy(w) == wpc[w] = "serve" \/ \E i \in DOMAIN wto[w] : wto[w][i].kind = "reply"

Asked == {r \in Req : fate[r] = "asked"}

InSession == {sreq[p] : p \in {o \in Pxid : spc[o] \in {"conn", "write"}}}
OnServer == Carried(sq, "ask")
AtWorker == {wreq[w] : w \in {v \in Worker : Busy(v)}}
OnQueue == UNION {Carried(uq[p], "reply") : p \in Pxid}
InHand == {held[p].req : p \in {o \in Pxid : held[o].kind = "reply"}}

Place(i) ==
  CASE i = 1 -> InSession [] i = 2 -> OnServer [] i = 3 -> AtWorker
    [] i = 4 -> OnQueue [] i = 5 -> InHand

ApartInv ==
  \A i \in 1 .. 5 :
    /\ Place(i) \subseteq Asked
    /\ \A j \in 1 .. 5 : i # j => Place(i) \intersect Place(j) = {}

\* The queues, with connections open only of those who are about to write.
ServerNeat ==
  /\ Neat(sq, "ask")
  /\ \A i \in DOMAIN sq : sq[i].st = "sent" => sq[i].kind = "ask"
  /\ Openers(sq) \subseteq {p \in Pxid : spc[p] = "write"}

QueuesNeat ==
  \A p \in Pxid :
    /\ Neat(uq[p], "reply")
    /\ Openers(uq[p]) \subseteq {w \in Worker : wpc[w] = "write" /\ Dest(w).to = p}

\* The workers: those that do not answer have given the request up.
BusyInv ==
  /\ \A v, w \in Worker : Busy(v) /\ Busy(w) /\ wreq[v] = wreq[w] => v = w
  /\ \A w \in Worker : \A i \in DOMAIN wto[w] :
       wto[w][i].kind = "reply" => i = Len(wto[w])
  /\ \A w \in Worker : wpc[w] # "idle" /\ ~Busy(w) => fate[wreq[w]] = "dropped"

CallInv == ApartInv /\ ServerNeat /\ QueuesNeat /\ BusyInv

-----------------------------------------------------------------------------
(* Queues again.                                                           *)

LEMMA NeatAppended ==
  ASSUME NEW q \in Seq(Conn), NEW c \in Conn, NEW kind, Neat(q, kind), ~Carries(c, kind),
         c.st = "open" => c.from \notin Openers(q)
  PROVE  /\ Neat(Append(q, c), kind)
         /\ Carried(Append(q, c), kind) = Carried(q, kind)
         /\ Openers(Append(q, c)) =
              Openers(q) \union (IF c.st = "open" THEN {c.from} ELSE {})
<1> DEFINE s == Append(q, c)
           n == Len(q) + 1
<1>1. /\ DOMAIN s = DOMAIN q \union {n} /\ n \notin DOMAIN q /\ s[n] = c
      /\ \A i \in DOMAIN q : s[i] = q[i]
  OBVIOUS
<1> HIDE DEF s, n
<1>2. Neat(s, kind)
  BY <1>1 DEF Neat, Openers
<1>3. Carried(s, kind) = Carried(q, kind)
  BY <1>1 DEF Carried
<1>4. Openers(s) = Openers(q) \union (IF c.st = "open" THEN {c.from} ELSE {})
  BY <1>1 DEF Openers
<1> QED
  BY <1>2, <1>3, <1>4 DEF s

\* Some connections are taken out.
LEMMA NeatThinned ==
  ASSUME NEW q, NEW s, NEW f \in [DOMAIN s -> DOMAIN q], NEW kind, Neat(q, kind),
         \A i, j \in DOMAIN s : f[i] = f[j] => i = j,
         \A i \in DOMAIN s : s[i] = q[f[i]]
  PROVE  /\ Neat(s, kind)
         /\ Carried(s, kind) \subseteq Carried(q, kind)
         /\ Openers(s) \subseteq Openers(q)
         /\ \A k \in DOMAIN q : Carries(q[k], kind) /\ (\A i \in DOMAIN s : f[i] # k) =>
              q[k].req \notin Carried(s, kind)
<1>1. \A i \in DOMAIN s : f[i] \in DOMAIN q
  OBVIOUS
<1>2. Neat(s, kind)
  BY <1>1 DEF Neat
<1>3. Carried(s, kind) \subseteq Carried(q, kind)
  BY <1>1 DEF Carried
<1>4. Openers(s) \subseteq Openers(q)
  BY <1>1 DEF Openers
<1>5. \A k \in DOMAIN q : Carries(q[k], kind) /\ (\A i \in DOMAIN s : f[i] # k) =>
        q[k].req \notin Carried(s, kind)
  BY <1>1 DEF Neat, Carried
<1> QED
  BY <1>2, <1>3, <1>4, <1>5

\* What a queue is without one of its connections.
Without(q, s, k, kind) ==
  /\ Neat(s, kind)
  /\ Carried(s, kind) \subseteq Carried(q, kind)
  /\ Openers(s) \subseteq Openers(q)
  /\ Carries(q[k], kind) => q[k].req \notin Carried(s, kind)

LEMMA NeatTail ==
  ASSUME NEW q \in Seq(Conn), q # <<>>, NEW kind, Neat(q, kind)
  PROVE  Without(q, Tail(q), 1, kind) /\ Head(q) = q[1] /\ 1 \in DOMAIN q
<1> DEFINE s == Tail(q)
           f == [i \in DOMAIN s |-> i + 1]
<1>1. /\ DOMAIN s \subseteq Nat \ {0} /\ 1 \in DOMAIN q /\ Head(q) = q[1]
      /\ \A i \in DOMAIN s : i + 1 \in DOMAIN q /\ s[i] = q[i + 1]
  OBVIOUS
<1> HIDE DEF s
<1>2. /\ f \in [DOMAIN s -> DOMAIN q]
      /\ \A i, j \in DOMAIN s : f[i] = f[j] => i = j
      /\ \A i \in DOMAIN s : s[i] = q[f[i]] /\ f[i] # 1
  BY <1>1
<1> HIDE DEF f
<1>3. Without(q, s, 1, kind)
  BY <1>1, <1>2, NeatThinned DEF Without
<1> QED
  BY <1>1, <1>3 DEF s

LEMMA NeatRemoved ==
  ASSUME NEW q \in Seq(Conn), NEW k \in DOMAIN q, NEW kind, Neat(q, kind)
  PROVE  Without(q, RemoveAt(q, k), k, kind)
<1> DEFINE s == RemoveAt(q, k)
           f == [i \in DOMAIN s |-> IF i < k THEN i ELSE i + 1]
           a == SubSeq(q, 1, k - 1)
           b == SubSeq(q, k + 1, Len(q))
<1>1. /\ a \in Seq(Conn) /\ Len(a) = k - 1
      /\ \A i \in 1 .. k - 1 : i \in DOMAIN q /\ a[i] = q[i]
  OBVIOUS
<1>2. /\ b \in Seq(Conn) /\ Len(b) = Len(q) - k
      /\ \A i \in 1 .. Len(q) - k : i + k \in DOMAIN q /\ b[i] = q[i + k]
  OBVIOUS
<1>3. s = a \o b
  BY DEF RemoveAt
<1>4. k \in 1 .. Len(q) /\ Len(q) \in Nat
  OBVIOUS
<1> HIDE DEF a, b, s
<1>5. /\ DOMAIN s = 1 .. Len(q) - 1
      /\ \A i \in DOMAIN s : s[i] = IF i < k THEN a[i] ELSE b[i - (k - 1)]
  BY <1>1, <1>2, <1>3, <1>4
<1>6. \A i \in DOMAIN s :
        /\ i < k => i \in DOMAIN q /\ s[i] = q[i]
        /\ ~(i < k) => i + 1 \in DOMAIN q /\ s[i] = q[i + 1]
  <2> SUFFICES ASSUME NEW i \in DOMAIN s
               PROVE  /\ i < k => i \in DOMAIN q /\ s[i] = q[i]
                      /\ ~(i < k) => i + 1 \in DOMAIN q /\ s[i] = q[i + 1]
    OBVIOUS
  <2>1. i \in Int /\ 1 <= i /\ i <= Len(q) - 1
    BY <1>4, <1>5
  <2>2. CASE i < k
    BY <1>1, <1>4, <1>5, <2>1, <2>2
  <2>3. CASE ~(i < k)
    <3>1. i - (k - 1) \in 1 .. Len(q) - k /\ (i - (k - 1)) + k = i + 1
      BY <1>4, <2>1, <2>3
    <3>2. s[i] = b[i - (k - 1)]
      BY <1>5, <2>3
    <3> QED
      BY <1>2, <2>3, <3>1, <3>2
  <2> QED
    BY <2>2, <2>3
<1>7. /\ f \in [DOMAIN s -> DOMAIN q]
      /\ \A i, j \in DOMAIN s : f[i] = f[j] => i = j
      /\ \A i \in DOMAIN s : s[i] = q[f[i]] /\ f[i] # k
  BY <1>4, <1>5, <1>6
<1> HIDE DEF f
<1>8. Without(q, s, k, kind)
  BY <1>7, NeatThinned DEF Without
<1> QED
  BY <1>8 DEF s

\* f's connection is written.
LEMMA NeatWritten ==
  ASSUME NEW q \in Seq(Conn), NEW f, NEW p, NEW k, NEW r, NEW kind, Neat(q, kind),
         k = kind => r \notin Carried(q, kind)
  PROVE  /\ Neat(Written(q, f, p, k, r), kind)
         /\ Carried(Written(q, f, p, k, r), kind) \subseteq
              Carried(q, kind) \union (IF k = kind THEN {r} ELSE {})
         /\ Openers(Written(q, f, p, k, r)) = Openers(q) \ {f}
<1> DEFINE s == Written(q, f, p, k, r)
           c == [from |-> f, pxid |-> p, kind |-> k, req |-> r, st |-> "sent"]
<1>1. /\ DOMAIN s = DOMAIN q
      /\ \A i \in DOMAIN q :
           s[i] = IF q[i].from = f /\ q[i].st = "open" THEN c ELSE q[i]
  BY DEF Written
<1>2. c.st = "sent" /\ c.kind = k /\ c.req = r
  OBVIOUS
<1> HIDE DEF s, c
<1>3. Neat(s, kind)
  BY <1>1, <1>2 DEF Neat, Carries, Carried
<1>4. Carried(s, kind) \subseteq Carried(q, kind) \union (IF k = kind THEN {r} ELSE {})
  BY <1>1, <1>2 DEF Carried, Carries
<1>5. Openers(s) = Openers(q) \ {f}
  BY <1>1, <1>2 DEF Openers
<1> QED
  BY <1>3, <1>4, <1>5 DEF s

LEMMA NeatCut ==
  ASSUME NEW q \in Seq(Conn), NEW f, NEW kind, Neat(q, kind)
  PROVE  /\ Neat(Cut(q, f), kind)
         /\ Carried(Cut(q, f), kind) = Carried(q, kind)
         /\ Openers(Cut(q, f)) = Openers(q) \ {f}
<1> DEFINE s == Cut(q, f)
<1>0. \A c \in Conn : /\ [c EXCEPT !.st = "cut"].st = "cut"
                      /\ [c EXCEPT !.st = "cut"].from = c.from
  BY DEF Conn
<1>1. /\ DOMAIN s = DOMAIN q
      /\ \A i \in DOMAIN q :
           IF q[i].from = f /\ q[i].st = "open" THEN s[i].st = "cut" ELSE s[i] = q[i]
  BY <1>0 DEF Cut
<1> HIDE DEF s
<1>3. Neat(s, kind)
  BY <1>1 DEF Neat, Carries
<1>4. Carried(s, kind) = Carried(q, kind)
  BY <1>1 DEF Carried, Carries
<1>5. Openers(s) = Openers(q) \ {f}
  BY <1>1 DEF Openers
<1> QED
  BY <1>3, <1>4, <1>5 DEF s

-----------------------------------------------------------------------------
(* Steps that move no request, and steps that move one.                    *)

LEMMA NoneMoved ==
  ASSUME ApartInv, Asked \subseteq Asked',
         InSession' \subseteq InSession, OnServer' \subseteq OnServer,
         AtWorker' \subseteq AtWorker, OnQueue' \subseteq OnQueue, InHand' \subseteq InHand
  PROVE  ApartInv'
<1>1. \A i \in 1 .. 5 : Place(i)' \subseteq Place(i)
  BY DEF Place
<1>2. \A i \in 1 .. 5 : Place(i)' \subseteq Asked'
  BY <1>1 DEF ApartInv
<1>3. \A i, j \in 1 .. 5 : i # j => Place(i)' \intersect Place(j)' = {}
  BY <1>1 DEF ApartInv
<1> QED
  BY <1>2, <1>3 DEF ApartInv

\* Request r is new in place 1.
LEMMA OneCame ==
  ASSUME ApartInv, NEW r, r \notin Asked, Asked \union {r} \subseteq Asked',
         InSession' \subseteq InSession \union {r}, OnServer' \subseteq OnServer,
         AtWorker' \subseteq AtWorker, OnQueue' \subseteq OnQueue, InHand' \subseteq InHand
  PROVE  ApartInv'
<1>1. \A i \in 1 .. 5 : i # 1 => Place(i)' \subseteq Place(i)
  BY DEF Place
<1>2. Place(1)' \subseteq Place(1) \union {r}
  BY DEF Place
<1>3. \A i \in 1 .. 5 : r \notin Place(i)
  BY DEF ApartInv
<1>4. \A i \in 1 .. 5 : Place(i)' \subseteq Asked'
  BY <1>1, <1>2 DEF ApartInv
<1>5. \A i, j \in 1 .. 5 : i # j => Place(i)' \intersect Place(j)' = {}
  BY <1>1, <1>2, <1>3 DEF ApartInv
<1> QED
  BY <1>4, <1>5 DEF ApartInv

\* Request r leaves place a for place k, or for good.
LEMMA OneMoved ==
  ASSUME ApartInv, NEW r, NEW a \in 1 .. 5, NEW k \in 0 .. 5, a # k,
         r \in Place(a), Place(a)' \subseteq Place(a) \ {r},
         \A i \in 1 .. 5 :
           i # a => Place(i)' \subseteq Place(i) \union (IF i = k THEN {r} ELSE {}),
         Asked \ {r} \subseteq Asked', k # 0 => r \in Asked'
  PROVE  ApartInv'
<1>1. \A i \in 1 .. 5 : i # a => r \notin Place(i)
  BY DEF ApartInv
<1>2. \A i \in 1 .. 5 : i # k => Place(i)' \subseteq Place(i) \ {r}
  BY <1>1
<1>3. k # 0 => Place(k)' \subseteq Place(k) \union {r}
  OBVIOUS
<1>4. \A i \in 1 .. 5 : Place(i)' \subseteq Asked'
  BY <1>2, <1>3 DEF ApartInv
<1>5. \A i, j \in 1 .. 5 : i # j => Place(i)' \intersect Place(j)' = {}
  BY <1>2, <1>3 DEF ApartInv
<1> QED
  BY <1>4, <1>5 DEF ApartInv

\* An answer or a refusal is final.
DroppedKept == \A r : fate[r] = "dropped" => fate'[r] = "dropped"

LEMMA ServerNeatKept ==
  ASSUME ServerNeat, UNCHANGED sq, \A p \in Pxid : spc[p] = "write" => spc'[p] = "write"
  PROVE  ServerNeat'
BY DEF ServerNeat

LEMMA QueuesNeatKept ==
  ASSUME QueuesNeat, UNCHANGED uq,
         \A w \in Worker : wpc[w] = "write" => wpc'[w] = "write" /\ wto'[w] = wto[w]
  PROVE  QueuesNeat'
BY DEF QueuesNeat, Dest

LEMMA BusyKept ==
  ASSUME BusyInv, UNCHANGED workVars, DroppedKept
  PROVE  BusyInv' /\ AtWorker' = AtWorker
BY DEF BusyInv, Busy, workVars, DroppedKept, AtWorker

-----------------------------------------------------------------------------
(* Sessions: every step keeps requests apart.                              *)

LEMMA StartCalls ==
  ASSUME MessageInv, CallInv, NEW p \in Pxid, SessionStart(p) PROVE CallInv'
<1> USE DEF MessageInv, Types, CallInv, SessionStart, Goto
<1>1. ServerNeat' /\ QueuesNeat'
  BY ServerNeatKept, QueuesNeatKept DEF SessionTypes, workVars
<1>2. BusyInv' /\ AtWorker' = AtWorker
  BY BusyKept DEF DroppedKept
<1>3. InSession' \subseteq InSession
  BY DEF InSession, SessionTypes
<1>4. OnServer' = OnServer /\ OnQueue' = OnQueue /\ InHand' = InHand /\ Asked' = Asked
  BY DEF OnServer, OnQueue, InHand, Asked
<1>5. ApartInv'
  BY <1>2, <1>3, <1>4, NoneMoved
<1> QED
  BY <1>1, <1>2, <1>5

LEMMA ReadsCalls ==
  ASSUME MessageInv, CallInv, NEW p \in Pxid, NEW r \in NextReq, SessionReads(p, r)
  PROVE  CallInv'
<1> USE DEF MessageInv, Types, CallInv, SessionReads, Goto
<1>0. r \in Req /\ fate[r] = "new" /\ fate' = [fate EXCEPT ![r] = "asked"]
  BY DEF NextReq
<1>1. ServerNeat' /\ QueuesNeat'
  BY ServerNeatKept, QueuesNeatKept DEF SessionTypes, workVars
<1>2. BusyInv' /\ AtWorker' = AtWorker
  BY <1>0, BusyKept DEF DroppedKept, HistTypes
<1>3. InSession' \subseteq InSession \union {r}
  BY DEF InSession, SessionTypes
<1>4. OnServer' = OnServer /\ OnQueue' = OnQueue /\ InHand' = InHand
  BY DEF OnServer, OnQueue, InHand
<1>5. r \notin Asked /\ Asked \union {r} \subseteq Asked'
  BY <1>0 DEF Asked, HistTypes
<1>6. ApartInv'
  BY <1>2, <1>3, <1>4, <1>5, OneCame
<1> QED
  BY <1>1, <1>2, <1>6

LEMMA EndCalls ==
  ASSUME MessageInv, CallInv, NEW p \in Pxid, End(p), spc[p] # "write",
         uq' = [uq EXCEPT ![p] = <<>>],
         UNCHANGED <<sq, workVars, histVars, kills, logoffs>>
  PROVE  CallInv'
<1> USE DEF MessageInv, Types, CallInv, End
<1>1. ServerNeat'
  BY ServerNeatKept DEF SessionTypes
<1>2. uq'[p] = <<>> /\ \A o \in Pxid : o # p => uq'[o] = uq[o]
  BY DEF QueueTypes
<1>3. \A w \in Worker : wpc'[w] = wpc[w] /\ Dest(w)' = Dest(w)
  BY DEF workVars, Dest
<1>4. QueuesNeat'
  BY <1>2, <1>3 DEF QueuesNeat, Neat, Openers
<1>5. BusyInv' /\ AtWorker' = AtWorker
  BY BusyKept DEF DroppedKept, histVars
<1>6. InSession' \subseteq InSession /\ InHand' \subseteq InHand
  BY DEF InSession, InHand, SessionTypes, Nothing
<1>7. OnServer' = OnServer /\ Asked' = Asked
  BY DEF OnServer, Asked, histVars
<1>8. OnQueue' \subseteq OnQueue
  BY <1>2 DEF OnQueue, Carried
<1>9. ApartInv'
  BY <1>5, <1>6, <1>7, <1>8, NoneMoved
<1> QED
  BY <1>1, <1>4, <1>5, <1>9

\* Polls, reading, leaving.
LEMMA QuietCalls ==
  ASSUME MessageInv, CallInv, NEW p \in Pxid, NEW at, spc' = [spc EXCEPT ![p] = at],
         at = spc[p] \/ (spc[p] \in {"wait", "poll"} /\ at \in {"wait", "poll"}),
         UNCHANGED <<hid, sreq, held, uq, sq, workVars, histVars, kills, logoffs>>
  PROVE  CallInv'
<1> USE DEF MessageInv, Types, CallInv
<1>1. ServerNeat' /\ QueuesNeat'
  BY ServerNeatKept, QueuesNeatKept DEF SessionTypes, workVars
<1>2. BusyInv' /\ AtWorker' = AtWorker
  BY BusyKept DEF DroppedKept, histVars
<1>3. InSession' \subseteq InSession
  BY DEF InSession, SessionTypes
<1>4. OnServer' = OnServer /\ OnQueue' = OnQueue /\ InHand' = InHand /\ Asked' = Asked
  BY DEF OnServer, OnQueue, InHand, Asked, histVars
<1>5. ApartInv'
  BY <1>2, <1>3, <1>4, NoneMoved
<1> QED
  BY <1>1, <1>2, <1>5

LEMMA PollsCalls ==
  ASSUME MessageInv, CallInv, NEW p \in Pxid,
         \/ SessionReadsPoll(p) \/ SessionPolls(p) \/ SessionPolled(p)
         \/ ClientReads(p) \/ \E m \in Moods : ClientTurns(p, m)
  PROVE  CallInv'
<1>1. spc \in [Pxid -> {"off", "wait", "conn", "write", "out", "poll"}]
  BY DEF MessageInv, Types, SessionTypes
<1>2. \E at : /\ spc' = [spc EXCEPT ![p] = at]
              /\ at = spc[p] \/ (spc[p] \in {"wait", "poll"} /\ at \in {"wait", "poll"})
  <2>1. CASE SessionPolls(p)
    BY <1>1, <2>1 DEF SessionPolls, Goto
  <2>2. CASE SessionPolled(p)
    BY <1>1, <2>2 DEF SessionPolled, Goto
  <2>3. CASE UNCHANGED spc
    <3>1. spc' = [spc EXCEPT ![p] = spc[p]]
      BY <1>1, <2>3
    <3> QED
      BY <3>1
  <2> QED
    BY <2>1, <2>2, <2>3 DEF SessionReadsPoll, ClientReads, ClientTurns
<1>3. UNCHANGED <<hid, sreq, held, uq, sq, workVars, histVars, kills, logoffs>>
  BY DEF SessionReadsPoll, SessionPolls, SessionPolled, ClientReads, ClientTurns
<1> QED
  BY <1>2, <1>3, QuietCalls

LEMMA ConnectsCalls ==
  ASSUME MessageInv, CallInv, NEW p \in Pxid, SessionConnects(p) PROVE CallInv'
<1> USE MessageAssumption DEF MessageInv, Types, CallInv, SessionConnects, Goto
<1> DEFINE c == Opened(p)
<1>0. /\ c \in Conn /\ c.st = "open" /\ c.from = p /\ ~Carries(c, "ask")
      /\ sq \in Seq(Conn) /\ sq' = Append(sq, c)
      /\ \A i \in DOMAIN sq' : sq'[i] = c \/ (i \in DOMAIN sq /\ sq'[i] = sq[i])
  <2>1. c \in Conn /\ c.st = "open" /\ c.from = p /\ ~Carries(c, "ask")
    BY DEF Opened, Conn, Id, NoReq, Carries
  <2> QED
    BY <2>1, AppendedIs DEF QueueTypes
<1> HIDE DEF c
<1>1. /\ Neat(sq', "ask") /\ Carried(sq', "ask") = Carried(sq, "ask")
      /\ Openers(sq') = Openers(sq) \union {p}
  <2>1. p \notin Openers(sq)
    BY DEF ServerNeat
  <2> QED
    BY <1>0, <2>1, NeatAppended DEF ServerNeat
<1>2. ServerNeat'
  BY <1>0, <1>1 DEF ServerNeat, SessionTypes
<1>3. QueuesNeat'
  BY QueuesNeatKept DEF workVars
<1>4. BusyInv' /\ AtWorker' = AtWorker
  BY BusyKept DEF DroppedKept, histVars
<1>5. InSession' \subseteq InSession
  BY DEF InSession, SessionTypes
<1>6. OnServer' = OnServer /\ OnQueue' = OnQueue /\ InHand' = InHand /\ Asked' = Asked
  BY <1>1 DEF OnServer, OnQueue, InHand, Asked, histVars
<1>7. ApartInv'
  BY <1>4, <1>5, <1>6, NoneMoved
<1> QED
  BY <1>2, <1>3, <1>4, <1>7

\* A session that does not send any more.
LEMMA SessionLets ==
  ASSUME MessageInv, NEW p \in Pxid, spc[p] \in {"conn", "write"},
         spc' = [spc EXCEPT ![p] = "wait"], sreq' = [sreq EXCEPT ![p] = NoReq]
  PROVE  sreq[p] \in InSession /\ InSession' \subseteq InSession \ {sreq[p]}
<1>1. \A o \in Pxid : spc[o] \in {"conn", "write"} => by[sreq[o]].id = o
  BY DEF MessageInv, SessionInv, AskedBy
<1>2. \A o \in Pxid : o # p => spc'[o] = spc[o] /\ sreq'[o] = sreq[o]
  BY DEF MessageInv, Types, SessionTypes
<1>3. spc'[p] = "wait"
  BY DEF MessageInv, Types, SessionTypes
<1> QED
  BY <1>1, <1>2, <1>3 DEF InSession

LEMMA SendFailsCalls ==
  ASSUME MessageInv, CallInv, NEW p \in Pxid, SessionSendFails(p) PROVE CallInv'
<1> USE DEF MessageInv, Types, CallInv, SessionSendFails, Goto
<1> DEFINE r == sreq[p]
<1>1. r \in InSession /\ InSession' \subseteq InSession \ {r}
  BY SessionLets
<1>2. r \in Asked /\ r \in Req
  BY <1>1 DEF ApartInv, Place, Asked
<1> HIDE DEF r
<1>3. fate' = [fate EXCEPT ![r] = "dropped"]
  BY <1>2 DEF r, Settle, Req, NoReq
<1>4. ServerNeat' /\ QueuesNeat'
  BY ServerNeatKept, QueuesNeatKept DEF SessionTypes, workVars
<1>5. BusyInv' /\ AtWorker' = AtWorker
  BY <1>2, <1>3, BusyKept DEF DroppedKept, HistTypes
<1>6. OnServer' = OnServer /\ OnQueue' = OnQueue /\ InHand' = InHand
  BY DEF OnServer, OnQueue, InHand
<1>7. Asked \ {r} \subseteq Asked'
  BY <1>2, <1>3 DEF Asked, HistTypes
<1>8. /\ r \in Place(1) /\ Place(1)' \subseteq Place(1) \ {r}
      /\ \A i \in 1 .. 5 :
           i # 1 => Place(i)' \subseteq Place(i) \union (IF i = 0 THEN {r} ELSE {})
  BY <1>1, <1>5, <1>6 DEF Place
<1>9. ApartInv'
  BY <1>7, <1>8, OneMoved
<1> QED
  BY <1>4, <1>5, <1>9

LEMMA WritesCalls ==
  ASSUME MessageInv, CallInv, NEW p \in Pxid, SessionWrites(p) PROVE CallInv'
<1> USE DEF MessageInv, Types, CallInv, SessionWrites, Goto
<1> DEFINE r == sreq[p]
<1>1. r \in InSession /\ InSession' \subseteq InSession \ {r}
  BY SessionLets
<1>2. r \in Asked /\ r \notin OnServer
  <2>1. r \in Place(1) /\ Place(2) = OnServer
    BY <1>1 DEF Place
  <2> QED
    BY <2>1 DEF ApartInv
<1> DEFINE s == Written(sq, p, hid[p], "ask", r)
<1>3. /\ Neat(s, "ask") /\ Carried(s, "ask") \subseteq Carried(sq, "ask") \union {r}
      /\ Openers(s) = Openers(sq) \ {p}
  BY <1>2, NeatWritten DEF ServerNeat, QueueTypes, OnServer
<1>4. \A i \in DOMAIN s : s[i].kind = "ask" \/ (i \in DOMAIN sq /\ s[i] = sq[i])
  BY DEF Written
<1>5. sq' = s
  OBVIOUS
<1> HIDE DEF r, s
<1>6. ServerNeat'
  BY <1>3, <1>4, <1>5 DEF ServerNeat, SessionTypes
<1>7. QueuesNeat'
  BY QueuesNeatKept DEF workVars
<1>8. BusyInv' /\ AtWorker' = AtWorker
  BY BusyKept DEF DroppedKept, histVars
<1>9. /\ OnServer' \subseteq OnServer \union {r}
      /\ OnQueue' = OnQueue /\ InHand' = InHand /\ Asked' = Asked
  BY <1>3, <1>5 DEF OnServer, OnQueue, InHand, Asked, histVars
<1>10. /\ r \in Place(1) /\ Place(1)' \subseteq Place(1) \ {r}
       /\ \A i \in 1 .. 5 :
            i # 1 => Place(i)' \subseteq Place(i) \union (IF i = 2 THEN {r} ELSE {})
  BY <1>1, <1>8, <1>9 DEF Place
<1>11. ApartInv'
  BY <1>2, <1>9, <1>10, OneMoved
<1> QED
  BY <1>6, <1>7, <1>8, <1>11

LEMMA ReceivesCalls ==
  ASSUME MessageInv, CallInv, NEW p \in Pxid, SessionReceives(p) PROVE CallInv'
<1> USE DEF MessageInv, Types, CallInv, SessionReceives, Goto
<1> DEFINE h == Head(uq[p])
           r == h.req
<1>0. uq[p] \in Seq(Conn) /\ uq[p] # <<>>
  BY DEF QueueTypes, Ready
<1>1. /\ h = uq[p][1] /\ 1 \in DOMAIN uq[p] /\ h.st = "sent"
      /\ Without(uq[p], uq'[p], 1, "reply")
      /\ \A o \in Pxid : o # p => uq'[o] = uq[o]
  <2>1. /\ Without(uq[p], Tail(uq[p]), 1, "reply") /\ h = uq[p][1]
        /\ 1 \in DOMAIN uq[p]
    BY <1>0, NeatTail DEF QueuesNeat
  <2> QED
    BY <2>1 DEF QueueTypes
<1>2. held' = [held EXCEPT ![p] = h]
  OBVIOUS
<1> HIDE DEF h, r
<1>3. ServerNeat'
  BY ServerNeatKept DEF SessionTypes
<1>4. QueuesNeat'
  <2>1. \A w \in Worker : wpc'[w] = wpc[w] /\ Dest(w)' = Dest(w)
    BY DEF workVars, Dest
  <2> QED
    BY <1>1, <2>1 DEF QueuesNeat, Without
<1>5. BusyInv' /\ AtWorker' = AtWorker
  BY BusyKept DEF DroppedKept, histVars
<1>6. /\ InSession' \subseteq InSession /\ OnServer' = OnServer /\ Asked' = Asked
      /\ OnQueue' \subseteq OnQueue
  <2>1. \A o \in Pxid : Carried(uq'[o], "reply") \subseteq Carried(uq[o], "reply")
    BY <1>1 DEF Without
  <2>2. OnQueue' \subseteq OnQueue
    BY <2>1 DEF OnQueue
  <2> QED
    BY <2>2 DEF InSession, OnServer, Asked, SessionTypes, histVars
<1>7. CASE h.kind = "reply"
  <2>1. Carries(h, "reply") /\ r \in Carried(uq[p], "reply") /\ by[r].id = p
    BY <1>1, <1>7 DEF Carries, Carried, r, QueueInv, AskedBy
  <2>2. r \in OnQueue
    BY <2>1 DEF OnQueue
  <2>3. \A o \in Pxid : o # p => r \notin Carried(uq[o], "reply")
    BY <2>1 DEF Carried, Carries, QueueInv, AskedBy
  <2>4. r \notin Carried(uq'[p], "reply")
    BY <1>1, <2>1 DEF Without, r
  <2>5. OnQueue' \subseteq OnQueue \ {r}
    BY <1>1, <1>6, <2>3, <2>4 DEF OnQueue
  <2>6. InHand' \subseteq InHand \union {r}
    BY <1>2 DEF InHand, SessionTypes, r
  <2>7. /\ r \in Place(4) /\ Place(4)' \subseteq Place(4) \ {r}
        /\ \A i \in 1 .. 5 :
             i # 4 => Place(i)' \subseteq Place(i) \union (IF i = 5 THEN {r} ELSE {})
    BY <1>5, <1>6, <2>2, <2>5, <2>6 DEF Place
  <2>8. r \in Asked'
    BY <1>6, <2>7 DEF ApartInv
  <2>9. ApartInv'
    BY <1>6, <2>7, <2>8, OneMoved
  <2> QED
    BY <1>3, <1>4, <1>5, <2>9
<1>8. CASE h.kind # "reply"
  <2>1. InHand' \subseteq InHand
    BY <1>2, <1>8 DEF InHand, SessionTypes
  <2>2. ApartInv'
    BY <1>5, <1>6, <2>1, NoneMoved
  <2> QED
    BY <1>3, <1>4, <1>5, <2>2
<1> QED
  BY <1>7, <1>8

LEMMA DeliversCalls ==
  ASSUME MessageInv, CallInv, NEW p \in Pxid, SessionDelivers(p) PROVE CallInv'
<1> USE DEF MessageInv, Types, CallInv, SessionDelivers, Goto
<1> DEFINE r == held[p].req
<1>1. ServerNeat' /\ QueuesNeat'
  BY ServerNeatKept, QueuesNeatKept DEF SessionTypes, workVars
<1>2. InSession' \subseteq InSession /\ OnServer' = OnServer /\ OnQueue' = OnQueue
  BY DEF InSession, OnServer, OnQueue, SessionTypes
<1>3. /\ held'[p].kind = "none"
      /\ \A o \in Pxid : o # p => held'[o] = held[o]
  BY DEF SessionTypes, Nothing
<1>4. CASE held[p].kind = "reply"
  <2>1. r \in InHand /\ InHand' \subseteq InHand \ {r}
    <3>1. \A o \in Pxid : held[o].kind = "reply" => by[held[o].req].id = o
      BY DEF SessionInv, AskedBy
    <3> QED
      BY <1>3, <1>4, <3>1 DEF InHand
  <2>2. r \in Asked /\ r \in Req
    BY <2>1 DEF ApartInv, Place, Asked
  <2> HIDE DEF r
  <2>3. fate' = [fate EXCEPT ![r] = "answered"]
    BY <1>4, <2>2 DEF r, Settle, Req, NoReq
  <2>4. DroppedKept /\ Asked \ {r} \subseteq Asked'
    BY <2>2, <2>3 DEF DroppedKept, Asked, HistTypes
  <2>5. BusyInv' /\ AtWorker' = AtWorker
    BY <2>4, BusyKept
  <2>6. /\ r \in Place(5) /\ Place(5)' \subseteq Place(5) \ {r}
        /\ \A i \in 1 .. 5 :
             i # 5 => Place(i)' \subseteq Place(i) \union (IF i = 0 THEN {r} ELSE {})
    BY <1>2, <2>1, <2>5 DEF Place
  <2>7. ApartInv'
    BY <2>4, <2>6, OneMoved
  <2> QED
    BY <1>1, <2>5, <2>7
<1>5. CASE held[p].kind # "reply"
  <2>1. BusyInv' /\ AtWorker' = AtWorker
    BY <1>5, BusyKept DEF DroppedKept
  <2>2. InHand' \subseteq InHand /\ Asked' = Asked
    BY <1>3, <1>5 DEF InHand, Asked
  <2>3. ApartInv'
    BY <1>2, <2>1, <2>2, NoneMoved
  <2> QED
    BY <1>1, <2>1, <2>3
<1> QED
  BY <1>4, <1>5

LEMMA LogoffCalls ==
  ASSUME MessageInv, CallInv, NEW p \in Pxid, Logoff(p) PROVE CallInv'
<1> USE MessageAssumption DEF MessageInv, Types, CallInv, Logoff
<1> DEFINE c == [Opened(NoPxid) EXCEPT !.pxid = p, !.kind = "logoff", !.st = "sent"]
<1>0. c \in Conn /\ c.st = "sent" /\ ~Carries(c, "reply")
  BY DEF Opened, Conn, Id, NoReq, Carries
<1>s. uq'[p] = Append(uq[p], c) /\ \A o \in Pxid : o # p => uq'[o] = uq[o]
  BY DEF QueueTypes
<1> HIDE DEF c
<1>1. /\ Neat(uq'[p], "reply") /\ Carried(uq'[p], "reply") = Carried(uq[p], "reply")
      /\ Openers(uq'[p]) = Openers(uq[p])
  <2>1. uq[p] \in Seq(Conn) /\ Neat(uq[p], "reply") /\ c.st # "open"
    BY <1>0 DEF QueuesNeat, QueueTypes
  <2>2. /\ Neat(Append(uq[p], c), "reply")
        /\ Carried(Append(uq[p], c), "reply") = Carried(uq[p], "reply")
        /\ Openers(Append(uq[p], c)) = Openers(uq[p])
    BY <1>0, <2>1, NeatAppended
  <2> QED
    BY <1>s, <2>2
<1>2. ServerNeat'
  BY ServerNeatKept DEF sessVars
<1>3. QueuesNeat'
  <2>1. \A w \in Worker : wpc'[w] = wpc[w] /\ Dest(w)' = Dest(w)
    BY DEF workVars, Dest
  <2> QED
    BY <1>s, <1>1, <2>1 DEF QueuesNeat
<1>4. BusyInv' /\ AtWorker' = AtWorker
  BY BusyKept DEF DroppedKept, histVars
<1>5. /\ InSession' = InSession /\ OnServer' = OnServer /\ InHand' = InHand
      /\ Asked' = Asked
  BY DEF InSession, OnServer, InHand, Asked, sessVars, histVars
<1>6. OnQueue' \subseteq OnQueue
  BY <1>s, <1>1 DEF OnQueue
<1>7. ApartInv'
  BY <1>4, <1>5, <1>6, NoneMoved
<1> QED
  BY <1>2, <1>3, <1>4, <1>7
-----------------------------------------------------------------------------
(* Workers: every step keeps requests apart.                               *)

\* Nobody but w changes.
OthersWork(w) ==
  \A v \in Worker : v # w => wpc'[v] = wpc[v] /\ wto'[v] = wto[v] /\ wreq'[v] = wreq[v]

LEMMA OthersBusy ==
  ASSUME NEW w \in Worker, OthersWork(w)
  PROVE  \A v \in Worker : v # w => (Busy(v)' <=> Busy(v))
BY DEF OthersWork, Busy

\* A worker that has a request to answer, and does not any more.
LEMMA WorkerLets ==
  ASSUME BusyInv, NEW w \in Worker, OthersWork(w), Busy(w), ~Busy(w)'
  PROVE  wreq[w] \in AtWorker /\ AtWorker' \subseteq AtWorker \ {wreq[w]}
<1>1. \A v \in Worker : v # w => (Busy(v)' <=> Busy(v)) /\ wreq'[v] = wreq[v]
  BY OthersBusy DEF OthersWork
<1>2. \A v \in Worker : Busy(v) /\ wreq[v] = wreq[w] => v = w
  BY DEF BusyInv
<1> QED
  BY <1>1, <1>2 DEF AtWorker

\* One that goes on with what it has, or has nothing before and after.
LEMMA WorkerHolds ==
  ASSUME BusyInv, NEW w \in Worker, OthersWork(w),
         Busy(w)' => Busy(w) /\ wreq'[w] = wreq[w]
  PROVE  /\ AtWorker' \subseteq AtWorker
         /\ \A u, v \in Worker : Busy(u)' /\ Busy(v)' /\ wreq'[u] = wreq'[v] => u = v
<1>1. \A v \in Worker : Busy(v)' => Busy(v) /\ wreq'[v] = wreq[v]
  BY OthersBusy DEF OthersWork
<1> QED
  BY <1>1 DEF AtWorker, BusyInv

\* The request a worker gives up, or has answered.
LEMMA WorkerSettles ==
  ASSUME HistTypes, ApartInv, NEW w \in Worker, wreq[w] \in AtWorker,
         Settle(wreq[w], "dropped")
  PROVE  /\ wreq[w] \in Asked /\ wreq[w] \in Req
         /\ fate' = [fate EXCEPT ![wreq[w]] = "dropped"]
         /\ DroppedKept /\ Asked \ {wreq[w]} \subseteq Asked'
<1>1. wreq[w] \in Asked /\ wreq[w] \in Req
  BY DEF ApartInv, Place, Asked
<1>2. fate' = [fate EXCEPT ![wreq[w]] = "dropped"]
  BY <1>1 DEF Settle, Req, NoReq
<1> QED
  BY <1>1, <1>2 DEF DroppedKept, Asked, HistTypes

\* What BusyInv says of the others stays true.
LEMMA OthersBusyInv ==
  ASSUME BusyInv, NEW w \in Worker, OthersWork(w), DroppedKept,
         \A u, v \in Worker : Busy(u)' /\ Busy(v)' /\ wreq'[u] = wreq'[v] => u = v,
         \A i \in DOMAIN wto'[w] : wto'[w][i].kind = "reply" => i = Len(wto'[w]),
         wpc'[w] # "idle" /\ ~Busy(w)' => fate'[wreq'[w]] = "dropped"
  PROVE  BusyInv'
<1>1. \A v \in Worker : v # w => (Busy(v)' <=> Busy(v))
  BY OthersBusy
<1>2. \A v \in Worker : \A i \in DOMAIN wto'[v] :
        wto'[v][i].kind = "reply" => i = Len(wto'[v])
  BY DEF OthersWork, BusyInv
<1>3. \A v \in Worker : wpc'[v] # "idle" /\ ~Busy(v)' => fate'[wreq'[v]] = "dropped"
  BY <1>1 DEF OthersWork, BusyInv, DroppedKept
<1> QED
  BY <1>2, <1>3 DEF BusyInv

\* A queue on which w has no connection.
LEMMA QueuesNeatOthers ==
  ASSUME QueuesNeat, NEW w \in Worker, OthersWork(w), UNCHANGED uq,
         \A p \in Pxid : w \notin Openers(uq[p])
  PROVE  QueuesNeat'
BY DEF QueuesNeat, OthersWork, Dest

LEMMA TakesCalls ==
  ASSUME MessageInv, CallInv, NEW w \in Worker, NEW i \in Done(sq), WorkerTakes(w, i)
  PROVE  CallInv'
<1> USE DEF MessageInv, Types, CallInv, WorkerTakes, WGoto
<1> DEFINE r == sq[i].req
<1>0. i \in DOMAIN sq /\ sq \in Seq(Conn) /\ wto[w] = <<>> /\ Carries(sq[i], "ask")
  BY DEF Done, QueueTypes, WorkTypes, ServerNeat, Carries
<1>1. Without(sq, sq', i, "ask")
  BY <1>0, NeatRemoved DEF ServerNeat
<1>2. /\ OthersWork(w) /\ wpc'[w] = "serve" /\ wreq'[w] = r /\ wto'[w] = <<>>
      /\ Busy(w)' /\ ~Busy(w)
  BY <1>0 DEF OthersWork, WorkTypes, Busy
<1>3. r \in OnServer /\ OnServer' \subseteq OnServer \ {r}
  BY <1>0, <1>1 DEF OnServer, Carried, Without
<1>4. r \in Asked /\ r \notin AtWorker
  <2>1. r \in Place(2) /\ Place(3) = AtWorker
    BY <1>3 DEF Place
  <2> QED
    BY <2>1 DEF ApartInv
<1> HIDE DEF r
<1>5. ServerNeat'
  <2>1. \A j \in DOMAIN sq' : \E k \in DOMAIN sq : sq'[j] = sq[k]
    BY <1>0, RemovedIs
  <2> QED
    BY <1>1, <2>1 DEF ServerNeat, Without, sessVars
<1>6. QueuesNeat'
  <2>1. \A p \in Pxid : w \notin Openers(uq[p])
    BY DEF QueuesNeat
  <2> QED
    BY <1>2, <2>1, QueuesNeatOthers
<1>7. \A v \in Worker : v # w => (Busy(v)' <=> Busy(v)) /\ wreq'[v] = wreq[v]
  BY <1>2, OthersBusy DEF OthersWork
<1>8. BusyInv'
  <2>1. \A u, v \in Worker : Busy(u)' /\ Busy(v)' /\ wreq'[u] = wreq'[v] => u = v
    BY <1>2, <1>4, <1>7 DEF BusyInv, AtWorker
  <2>2. DroppedKept
    BY DEF DroppedKept, histVars
  <2> QED
    BY <1>2, <2>1, <2>2, OthersBusyInv
<1>9. AtWorker' \subseteq AtWorker \union {r}
  BY <1>2, <1>7 DEF AtWorker
<1>10. /\ InSession' = InSession /\ OnQueue' = OnQueue /\ InHand' = InHand
       /\ Asked' = Asked
  BY DEF InSession, OnQueue, InHand, Asked, sessVars, histVars
<1>11. /\ r \in Place(2) /\ Place(2)' \subseteq Place(2) \ {r}
       /\ \A j \in 1 .. 5 :
            j # 2 => Place(j)' \subseteq Place(j) \union (IF j = 3 THEN {r} ELSE {})
  BY <1>3, <1>9, <1>10 DEF Place
<1>12. ApartInv'
  BY <1>4, <1>10, <1>11, OneMoved
<1> QED
  BY <1>5, <1>6, <1>8, <1>12

\* A worker that gives its request up, in whatever way.
LEMMA GivesUp ==
  ASSUME MessageInv, CallInv, NEW w \in Worker, OthersWork(w), Busy(w), ~Busy(w)',
         Settle(wreq[w], "dropped"),
         \A i \in DOMAIN wto'[w] : wto'[w][i].kind # "reply",
         wpc'[w] = "idle" \/ wreq'[w] = wreq[w],
         InSession' = InSession, OnServer' = OnServer, OnQueue' \subseteq OnQueue,
         InHand' = InHand
  PROVE  ApartInv' /\ BusyInv'
<1> USE DEF MessageInv, Types, CallInv
<1> DEFINE r == wreq[w]
<1>1. r \in AtWorker /\ AtWorker' \subseteq AtWorker \ {r}
  BY WorkerLets
<1>2. /\ r \in Asked /\ r \in Req /\ fate' = [fate EXCEPT ![r] = "dropped"]
      /\ DroppedKept /\ Asked \ {r} \subseteq Asked'
  BY <1>1, WorkerSettles
<1>3. /\ r \in Place(3) /\ Place(3)' \subseteq Place(3) \ {r}
      /\ \A i \in 1 .. 5 :
           i # 3 => Place(i)' \subseteq Place(i) \union (IF i = 0 THEN {r} ELSE {})
  <2> HIDE DEF r
  <2> QED
    BY <1>1 DEF Place
<1>4. ApartInv'
  <2> HIDE DEF r
  <2> QED
    BY <1>2, <1>3, OneMoved
<1>5. \A u, v \in Worker : Busy(u)' /\ Busy(v)' /\ wreq'[u] = wreq'[v] => u = v
  BY WorkerHolds
<1>6. wpc'[w] # "idle" /\ ~Busy(w)' => fate'[wreq'[w]] = "dropped"
  BY <1>2 DEF HistTypes
<1>7. BusyInv'
  BY <1>2, <1>5, <1>6, OthersBusyInv
<1> QED
  BY <1>4, <1>7

\* One that goes on with it.
LEMMA GoesOn ==
  ASSUME MessageInv, CallInv, NEW w \in Worker, OthersWork(w), fate' = fate,
         Busy(w)' => Busy(w) /\ wreq'[w] = wreq[w],
         wpc'[w] # "idle" /\ ~Busy(w)' => fate[wreq'[w]] = "dropped",
         \A i \in DOMAIN wto'[w] : wto'[w][i].kind = "reply" => i = Len(wto'[w]),
         InSession' = InSession, OnServer' = OnServer, OnQueue' \subseteq OnQueue,
         InHand' = InHand
  PROVE  ApartInv' /\ BusyInv'
<1> USE DEF CallInv
<1>1. /\ AtWorker' \subseteq AtWorker
      /\ \A u, v \in Worker : Busy(u)' /\ Busy(v)' /\ wreq'[u] = wreq'[v] => u = v
  BY WorkerHolds
<1>2. DroppedKept /\ Asked' = Asked
  BY DEF DroppedKept, Asked
<1>3. ApartInv'
  BY <1>1, <1>2, NoneMoved
<1>4. BusyInv'
  BY <1>1, <1>2, OthersBusyInv
<1> QED
  BY <1>3, <1>4

\* The places a step of a worker leaves as they are.
LEMMA WorkerLeaves ==
  ASSUME UNCHANGED sessVars, UNCHANGED sq
  PROVE  /\ InSession' = InSession /\ OnServer' = OnServer /\ InHand' = InHand
         /\ ServerNeat => ServerNeat'
BY DEF InSession, OnServer, InHand, sessVars, ServerNeat

\* The application is done, and the worker is none that writes.
LEMMA ServedQueues ==
  ASSUME MessageInv, CallInv, NEW w \in Worker, wpc[w] = "serve", OthersWork(w),
         UNCHANGED <<sessVars, uq, sq>>
  PROVE  /\ ServerNeat' /\ QueuesNeat'
         /\ InSession' = InSession /\ OnServer' = OnServer /\ InHand' = InHand
         /\ OnQueue' = OnQueue
<1>1. \A p \in Pxid : w \notin Openers(uq[p])
  BY DEF CallInv, QueuesNeat
<1>2. QueuesNeat'
  BY <1>1, QueuesNeatOthers DEF CallInv
<1>3. OnQueue' = OnQueue
  BY DEF OnQueue
<1> QED
  BY <1>2, <1>3, WorkerLeaves DEF CallInv

LEMMA FailsCalls ==
  ASSUME MessageInv, CallInv, NEW w \in Worker, ServeFails(w) PROVE CallInv'
<1> USE DEF ServeFails, WGoto
<1>1. wpc \in [Worker -> {"idle", "serve", "send", "write"}] /\ wto[w] = <<>>
  BY DEF MessageInv, Types, WorkTypes
<1>2. /\ OthersWork(w) /\ Busy(w) /\ ~Busy(w)'
      /\ wpc'[w] = "idle" /\ wto'[w] = <<>>
  BY <1>1 DEF OthersWork, Busy, MessageInv, Types, WorkTypes
<1>3. /\ ServerNeat' /\ QueuesNeat'
      /\ InSession' = InSession /\ OnServer' = OnServer /\ InHand' = InHand
      /\ OnQueue' = OnQueue
  BY <1>2, ServedQueues
<1>4. \A i \in DOMAIN wto'[w] : wto'[w][i].kind # "reply"
  BY <1>2
<1>5. ApartInv' /\ BusyInv'
  BY <1>2, <1>3, <1>4, GivesUp
<1> QED
  BY <1>3, <1>5 DEF CallInv

\* It has something to send, with the reply last.
LEMMA AnswersCalls ==
  ASSUME MessageInv, CallInv, NEW w \in Worker, WGoto(w, "serve", "send"),
         NEW to, wto' = [wto EXCEPT ![w] = to],
         \A i \in DOMAIN to : to[i].kind = "reply" => i = Len(to),
         \E i \in DOMAIN to : to[i].kind = "reply",
         UNCHANGED <<sessVars, uq, sq, wreq, fate>>
  PROVE  CallInv'
<1>1. wpc \in [Worker -> {"idle", "serve", "send", "write"}]
  BY DEF MessageInv, Types, WorkTypes
<1>2. /\ OthersWork(w) /\ Busy(w) /\ Busy(w)' /\ wreq'[w] = wreq[w] /\ wto'[w] = to
  BY <1>1 DEF OthersWork, Busy, MessageInv, Types, WorkTypes, WGoto
<1>3. /\ ServerNeat' /\ QueuesNeat'
      /\ InSession' = InSession /\ OnServer' = OnServer /\ InHand' = InHand
      /\ OnQueue' = OnQueue
  BY <1>2, ServedQueues DEF WGoto
<1>4. ApartInv' /\ BusyInv'
  BY <1>2, <1>3, GoesOn
<1> QED
  BY <1>3, <1>4 DEF CallInv

LEMMA ReplyIs ==
  ASSUME MessageInv, NEW w \in Worker, wpc[w] = "serve"
  PROVE  Reply(w, "reply") = <<[to |-> wpxid[w], pxid |-> wpxid[w], kind |-> "reply"]>>
BY DEF Reply, MessageInv, WorkerInv

LEMMA NotesAre ==
  ASSUME NEW w, NEW a, NEW b
  PROVE  Multi(w, <<a, b>>, "note") =
           <<[to |-> a, pxid |-> a, kind |-> "note"], [to |-> b, pxid |-> b, kind |-> "note"]>>
BY DEF Multi

LEMMA RepliesCalls ==
  ASSUME MessageInv, CallInv, NEW w \in Worker, ServeReplies(w) \/ ServeLists(w)
  PROVE  CallInv'
<1> USE DEF ServeReplies, ServeLists
<1> DEFINE x == [to |-> wpxid[w], pxid |-> wpxid[w], kind |-> "reply"]
           to == <<x>>
<1>1. wpc[w] = "serve" /\ x.kind = "reply"
  BY DEF WGoto
<1>2. wto' = [wto EXCEPT ![w] = to]
  BY <1>1, ReplyIs, ListIsReply
<1> HIDE DEF x
<1>3. /\ \A i \in DOMAIN to : to[i].kind = "reply" => i = Len(to)
      /\ \E i \in DOMAIN to : to[i].kind = "reply"
  BY <1>1
<1> HIDE DEF to
<1> QED
  BY <1>2, <1>3, AnswersCalls DEF histVars

\* A reply after what is none is the last.
LEMMA ReplyIsLast ==
  ASSUME NEW s \in Seq(Send), NEW t \in Seq(Send), Len(t) = 1, t[1].kind = "reply",
         \A i \in DOMAIN s : s[i].kind # "reply"
  PROVE  /\ \A i \in DOMAIN (s \o t) : (s \o t)[i].kind = "reply" => i = Len(s \o t)
         /\ \E i \in DOMAIN (s \o t) : (s \o t)[i].kind = "reply"
<1> DEFINE u == s \o t
<1>1. /\ u \in Seq(Send) /\ Len(u) = Len(s) + 1 /\ DOMAIN u = 1 .. Len(s) + 1
      /\ \A i \in 1 .. Len(s) : u[i] = s[i]
      /\ u[Len(s) + 1] = t[1]
  <2>1. Len(s) \in Nat /\ Len(s) + 1 \in 1 .. Len(s) + Len(t) /\ ~ (Len(s) + 1 <= Len(s))
    OBVIOUS
  <2>2. u \in Seq(Send) /\ Len(u) = Len(s) + Len(t)
    BY ConcatIs
  <2>3. u[Len(s) + 1] = t[1]
    BY <2>1
  <2>4. \A i \in 1 .. Len(s) : u[i] = s[i]
    OBVIOUS
  <2> QED
    BY <2>1, <2>2, <2>3, <2>4
<1>2. Len(s) \in Nat /\ DOMAIN s = 1 .. Len(s)
  OBVIOUS
<1> HIDE DEF u
<1>3. \A i \in DOMAIN u : u[i].kind = "reply" => i = Len(u)
  BY <1>1, <1>2
<1>4. Len(s) + 1 \in DOMAIN u /\ u[Len(s) + 1].kind = "reply"
  BY <1>1, <1>2
<1> QED
  BY <1>3, <1>4 DEF u

\* Notices to two, and the reply.
Told(w, a, b) == Multi(w, <<a, b>>, "note") \o Reply(w, "reply")

LEMMA ToldIs ==
  ASSUME MessageInv, NEW w \in Worker, NEW a \in Pxid, NEW b \in Pxid, wpc[w] = "serve"
  PROVE  /\ \A i \in DOMAIN Told(w, a, b) :
              Told(w, a, b)[i].kind = "reply" => i = Len(Told(w, a, b))
         /\ \E i \in DOMAIN Told(w, a, b) : Told(w, a, b)[i].kind = "reply"
<1> DEFINE x == [to |-> wpxid[w], pxid |-> wpxid[w], kind |-> "reply"]
           y == [to |-> a, pxid |-> a, kind |-> "note"]
           z == [to |-> b, pxid |-> b, kind |-> "note"]
           s == <<y, z>>
           t == <<x>>
<1>1. Told(w, a, b) = s \o t
  BY ReplyIs, NotesAre DEF Told
<1>2. x \in Send /\ y \in Send /\ z \in Send
  BY DEF MessageInv, Types, WorkTypes, Send, Id
<1>3. x.kind = "reply" /\ y.kind # "reply" /\ z.kind # "reply"
  OBVIOUS
<1> HIDE DEF x, y, z
<1>4. /\ s \in Seq(Send) /\ t \in Seq(Send) /\ Len(t) = 1 /\ t[1].kind = "reply"
      /\ \A i \in DOMAIN s : s[i].kind # "reply"
  BY <1>2, <1>3
<1> HIDE DEF s, t
<1>5. /\ \A i \in DOMAIN (s \o t) : (s \o t)[i].kind = "reply" => i = Len(s \o t)
      /\ \E i \in DOMAIN (s \o t) : (s \o t)[i].kind = "reply"
  BY <1>4, ReplyIsLast
<1> QED
  BY <1>1, <1>5

LEMMA TellsCalls ==
  ASSUME MessageInv, CallInv, NEW w \in Worker, NEW a \in Pxid, NEW b \in Pxid,
         ServeTells(w, a, b)
  PROVE  CallInv'
<1>1. WGoto(w, "serve", "send") /\ wpc[w] = "serve" /\ wto' = [wto EXCEPT ![w] = Told(w, a, b)]
  BY DEF ServeTells, WGoto, Told
<1>2. UNCHANGED <<sessVars, uq, sq, wreq, fate>>
  BY DEF ServeTells, histVars
<1>3. /\ \A i \in DOMAIN Told(w, a, b) :
           Told(w, a, b)[i].kind = "reply" => i = Len(Told(w, a, b))
      /\ \E i \in DOMAIN Told(w, a, b) : Told(w, a, b)[i].kind = "reply"
  BY <1>1, ToldIs
<1> QED
  BY <1>1, <1>2, <1>3, AnswersCalls

LEMMA WorkerConnectsCalls ==
  ASSUME MessageInv, CallInv, NEW w \in Worker, SendConnects(w) PROVE CallInv'
<1> USE MessageAssumption DEF MessageInv, Types, CallInv, SendConnects, WGoto
<1> DEFINE p == Dest(w).to
           c == Opened(w)
<1>0. /\ c \in Conn /\ c.st = "open" /\ c.from = w /\ ~Carries(c, "reply") /\ p \in Pxid
      /\ uq[p] \in Seq(Conn)
  <2>1. c \in Conn /\ c.st = "open" /\ c.from = w /\ ~Carries(c, "reply")
    BY DEF Opened, Conn, Id, NoReq, Carries
  <2> QED
    BY <2>1 DEF QueueTypes
<1>d. \A v \in Worker : Dest(v)' = Dest(v)
  BY DEF Dest
<1>s. uq'[p] = Append(uq[p], c) /\ \A o \in Pxid : o # p => uq'[o] = uq[o]
  BY <1>0 DEF QueueTypes
<1>w. /\ wpc'[w] = "write" /\ wpc[w] = "send"
      /\ \A v \in Worker : v # w => wpc'[v] = wpc[v]
  BY DEF WorkTypes
<1> HIDE DEF c
<1>1. /\ Neat(uq'[p], "reply") /\ Carried(uq'[p], "reply") = Carried(uq[p], "reply")
      /\ Openers(uq'[p]) = Openers(uq[p]) \union {w}
  <2>1. w \notin Openers(uq[p]) /\ Neat(uq[p], "reply")
    BY <1>0, <1>w DEF QueuesNeat
  <2>2. /\ Neat(Append(uq[p], c), "reply")
        /\ Carried(Append(uq[p], c), "reply") = Carried(uq[p], "reply")
        /\ Openers(Append(uq[p], c)) = Openers(uq[p]) \union {w}
    <3> HIDE DEF p
    <3> QED
      BY <1>0, <2>1, NeatAppended
  <2> QED
    BY <1>s, <2>2
<1>2. QueuesNeat'
  <2> SUFFICES ASSUME NEW o \in Pxid
               PROVE  /\ Neat(uq'[o], "reply")
                      /\ Openers(uq'[o]) \subseteq
                           {v \in Worker : wpc'[v] = "write" /\ Dest(v)'.to = o}
    BY DEF QueuesNeat
  <2>1. Openers(uq[o]) \subseteq {v \in Worker : wpc'[v] = "write" /\ Dest(v)'.to = o}
    BY <1>d, <1>w DEF QueuesNeat
  <2>2. CASE o = p
    BY <1>1, <1>d, <1>w, <2>1, <2>2
  <2>3. CASE o # p
    BY <1>s, <2>1, <2>3 DEF QueuesNeat
  <2> QED
    BY <2>2, <2>3
<1> HIDE DEF p
<1>3. OnQueue' \subseteq OnQueue
  BY <1>s, <1>1 DEF OnQueue
<1>4. /\ InSession' = InSession /\ OnServer' = OnServer /\ InHand' = InHand
      /\ ServerNeat'
  BY WorkerLeaves
<1>5. OthersWork(w) /\ (Busy(w)' => Busy(w)) /\ wreq'[w] = wreq[w] /\ wto'[w] = wto[w]
  BY <1>w DEF OthersWork, Busy
<1>6. ApartInv' /\ BusyInv'
  <2>1. fate' = fate
    BY DEF histVars
  <2>2. wpc'[w] # "idle" /\ ~Busy(w)' => fate[wreq'[w]] = "dropped"
    BY <1>w, <1>5 DEF Busy, BusyInv
  <2>3. \A i \in DOMAIN wto'[w] : wto'[w][i].kind = "reply" => i = Len(wto'[w])
    BY <1>5 DEF BusyInv
  <2> QED
    BY <1>3, <1>4, <1>5, <2>1, <2>2, <2>3, GoesOn
<1> QED
  BY <1>2, <1>4, <1>6

\* A destination is done with: the reply was the last, or the worker goes on.
LEMMA NextIs ==
  ASSUME MessageInv, CallInv, NEW w \in Worker, wpc[w] \in {"send", "write"}, SendNext(w)
  PROVE  /\ OthersWork(w)
         /\ wpc'[w] \in {"idle", "send"}
         /\ Dest(w).kind = "reply" =>
              /\ Busy(w) /\ ~Busy(w)' /\ wpc'[w] = "idle"
              /\ \A i \in DOMAIN wto'[w] : wto'[w][i].kind # "reply"
         /\ Dest(w).kind # "reply" =>
              /\ Busy(w)' <=> Busy(w)
              /\ Busy(w) => wreq'[w] = wreq[w]
              /\ wpc'[w] # "idle" /\ ~Busy(w)' => fate[wreq'[w]] = "dropped"
         /\ \A i \in DOMAIN wto'[w] : wto'[w][i].kind = "reply" => i = Len(wto'[w])
<1> USE DEF MessageInv, Types, CallInv, SendNext
<1> DEFINE t == wto[w]
           s == wto'[w]
<1>a. t \in Seq(Send) /\ t # <<>> /\ s = Tail(t) /\ Dest(w) = t[1]
  BY DEF WorkTypes, Dest
<1>1. /\ OthersWork(w) /\ wpc'[w] = (IF s = <<>> THEN "idle" ELSE "send")
      /\ wreq'[w] = (IF s = <<>> THEN NoReq ELSE wreq[w])
  BY <1>a DEF WorkTypes, OthersWork
<1>b. wpc'[w] # "serve" /\ wpc[w] # "serve"
  BY <1>1
<1>2. \A i \in DOMAIN t : t[i].kind = "reply" => i = Len(t)
  BY DEF BusyInv
<1>3. Busy(w) <=> \E i \in DOMAIN t : t[i].kind = "reply"
  BY <1>b DEF Busy
<1>4. Busy(w)' <=> \E i \in DOMAIN s : s[i].kind = "reply"
  BY <1>b DEF Busy
<1> HIDE DEF t, s
<1>0. /\ Len(t) \in Nat /\ DOMAIN t = 1 .. Len(t) /\ 1 \in DOMAIN t
      /\ Len(s) = Len(t) - 1 /\ DOMAIN s = 1 .. Len(t) - 1
      /\ \A i \in DOMAIN s : i + 1 \in DOMAIN t /\ s[i] = t[i + 1]
      /\ \A i \in DOMAIN t : i # 1 => i - 1 \in DOMAIN s /\ s[i - 1] = t[i]
  <2>1. /\ Len(t) \in Nat /\ DOMAIN t = 1 .. Len(t) /\ Len(t) # 0
        /\ Len(s) = Len(t) - 1 /\ DOMAIN s = 1 .. Len(t) - 1
        /\ \A i \in 1 .. Len(t) - 1 : s[i] = t[i + 1]
    BY <1>a
  <2>2. \A i \in DOMAIN s : i + 1 \in DOMAIN t /\ s[i] = t[i + 1]
    BY <2>1
  <2>3. \A i \in DOMAIN t : i # 1 => i - 1 \in DOMAIN s /\ s[i - 1] = t[i]
    BY <2>1
  <2> QED
    BY <2>1, <2>2, <2>3
<1>c. s = <<>> <=> Len(t) = 1
  <2>1. s \in Seq(Send)
    BY <1>a
  <2>2. s = <<>> <=> Len(s) = 0
    BY <2>1
  <2> QED
    BY <1>0, <2>2
<1>5. \A i \in DOMAIN s : s[i].kind = "reply" => i = Len(s)
  BY <1>0, <1>2
<1>6. ASSUME Dest(w).kind = "reply"
      PROVE  /\ Busy(w) /\ ~Busy(w)' /\ s = <<>>
             /\ \A i \in DOMAIN s : s[i].kind # "reply"
  <2>1. Len(t) = 1
    BY <1>0, <1>a, <1>2, <1>6
  <2>2. s = <<>> /\ DOMAIN s = {}
    BY <1>0, <1>c, <2>1
  <2> QED
    BY <1>0, <1>a, <1>3, <1>4, <1>6, <2>2
<1>7. ASSUME Dest(w).kind # "reply"
      PROVE  Busy(w)' <=> Busy(w)
  <2>1. ASSUME NEW i \in DOMAIN t, t[i].kind = "reply"
        PROVE  \E j \in DOMAIN s : s[j].kind = "reply"
    <3>1. i # 1
      BY <1>a, <1>7, <2>1
    <3>2. i - 1 \in DOMAIN s /\ s[i - 1] = t[i]
      BY <1>0, <3>1
    <3> QED
      BY <2>1, <3>2
  <2>2. ASSUME NEW i \in DOMAIN s, s[i].kind = "reply"
        PROVE  \E j \in DOMAIN t : t[j].kind = "reply"
    BY <1>0, <2>2
  <2> QED
    BY <1>3, <1>4, <2>1, <2>2
<1>8. s = <<>> => ~Busy(w)'
  BY <1>4
<1>9. ~Busy(w) => fate[wreq[w]] = "dropped"
  BY DEF BusyInv
<1> QED
  BY <1>1, <1>5, <1>6, <1>7, <1>8, <1>9 DEF s

\* The queues do not change, and w has no connection open.
LEMMA WorkerFailsCalls ==
  ASSUME MessageInv, CallInv, NEW w \in Worker, SendFails(w) \/ SendWriteFails(w)
  PROVE  CallInv'
<1>0. /\ wpc[w] \in {"send", "write"} /\ SendNext(w) /\ Failed(w)
      /\ UNCHANGED <<sessVars, uq, sq>>
  BY DEF SendFails, SendWriteFails
<1>1. \A p \in Pxid : w \notin Openers(uq[p])
  <2>1. CASE wpc[w] # "write"
    BY <2>1 DEF CallInv, QueuesNeat
  <2>2. CASE wpc[w] = "write"
    <3>1. ~HasOpen(uq[Dest(w).to], w)
      BY <2>2 DEF SendFails, SendWriteFails
    <3> QED
      BY <3>1 DEF CallInv, QueuesNeat, HasOpen, Openers
  <2> QED
    BY <2>1, <2>2
<1>2. OthersWork(w)
  BY <1>0, NextIs
<1>3. /\ ServerNeat' /\ QueuesNeat' /\ OnQueue' \subseteq OnQueue
      /\ InSession' = InSession /\ OnServer' = OnServer /\ InHand' = InHand
  BY <1>0, <1>1, <1>2, QueuesNeatOthers, WorkerLeaves DEF CallInv, OnQueue
<1>4. CASE Dest(w).kind = "reply"
  <2>1. Settle(wreq[w], "dropped")
    BY <1>0, <1>4 DEF Failed
  <2>2. /\ Busy(w) /\ ~Busy(w)' /\ wpc'[w] = "idle"
        /\ \A i \in DOMAIN wto'[w] : wto'[w][i].kind # "reply"
    BY <1>0, <1>4, NextIs
  <2>3. ApartInv' /\ BusyInv'
    BY <1>2, <1>3, <2>1, <2>2, GivesUp
  <2> QED
    BY <1>3, <2>3 DEF CallInv
<1>5. CASE Dest(w).kind # "reply"
  <2>1. fate' = fate
    BY <1>0, <1>5 DEF Failed
  <2>2. /\ Busy(w)' => Busy(w) /\ wreq'[w] = wreq[w]
        /\ wpc'[w] # "idle" /\ ~Busy(w)' => fate[wreq'[w]] = "dropped"
        /\ \A i \in DOMAIN wto'[w] : wto'[w][i].kind = "reply" => i = Len(wto'[w])
    BY <1>0, <1>5, NextIs
  <2>3. ApartInv' /\ BusyInv'
    BY <1>2, <1>3, <2>1, <2>2, GoesOn
  <2> QED
    BY <1>3, <2>3 DEF CallInv
<1> QED
  BY <1>4, <1>5

LEMMA WorkerWritesCalls ==
  ASSUME MessageInv, CallInv, NEW w \in Worker, SendWrites(w) PROVE CallInv'
<1> USE DEF SendWrites
<1> DEFINE p == Dest(w).to
           r == wreq[w]
           k == Dest(w).kind
           q == Written(uq[p], w, Dest(w).pxid, k, r)
<1>0. wpc[w] = "write" /\ SendNext(w) /\ UNCHANGED <<sessVars, sq>> /\ fate' = fate
  BY DEF histVars
<1>1. p \in Pxid /\ uq[p] \in Seq(Conn) /\ Neat(uq[p], "reply")
  BY <1>0 DEF MessageInv, WorkerInv, Types, QueueTypes, CallInv, QueuesNeat
<1>2. OthersWork(w) /\ wpc'[w] \in {"idle", "send"}
  BY <1>0, NextIs
<1>3. uq'[p] = q /\ \A o \in Pxid : o # p => uq'[o] = uq[o]
  BY <1>1 DEF MessageInv, Types, QueueTypes
<1>4. k = "reply" => r \in AtWorker /\ r \in Asked /\ r \notin OnQueue
  <2> SUFFICES ASSUME k = "reply" PROVE r \in AtWorker /\ r \in Asked /\ r \notin OnQueue
    OBVIOUS
  <2>1. Busy(w)
    BY <1>0, NextIs
  <2>2. r \in Place(3) /\ Place(3) = AtWorker /\ Place(4) = OnQueue
    BY <2>1 DEF Place, AtWorker
  <2> QED
    BY <2>2 DEF CallInv, ApartInv
<1>5. k = "reply" => r \notin Carried(uq[p], "reply")
  BY <1>1, <1>4 DEF OnQueue
<1>6. /\ Neat(q, "reply")
      /\ Carried(q, "reply") \subseteq
           Carried(uq[p], "reply") \union (IF k = "reply" THEN {r} ELSE {})
      /\ Openers(q) = Openers(uq[p]) \ {w}
  <2> HIDE DEF p, k, r
  <2> QED
    BY <1>1, <1>5, NeatWritten
<1> HIDE DEF q
<1>7. QueuesNeat'
  <2> SUFFICES ASSUME NEW o \in Pxid
               PROVE  /\ Neat(uq'[o], "reply")
                      /\ Openers(uq'[o]) \subseteq
                           {v \in Worker : wpc'[v] = "write" /\ Dest(v)'.to = o}
    BY DEF QueuesNeat
  <2>1. /\ Neat(uq[o], "reply")
        /\ Openers(uq[o]) \subseteq {v \in Worker : wpc[v] = "write" /\ Dest(v).to = o}
    BY DEF CallInv, QueuesNeat
  <2>2. Openers(uq'[o]) \subseteq Openers(uq[o]) \ {w} /\ Neat(uq'[o], "reply")
    <3>1. CASE o = p
      BY <1>3, <1>6, <3>1
    <3>2. CASE o # p
      <4>1. w \notin Openers(uq[o])
        BY <2>1, <3>2
      <4> QED
        BY <1>3, <2>1, <3>2, <4>1
    <3> QED
      BY <3>1, <3>2
  <2>3. \A v \in Worker : v # w => wpc'[v] = wpc[v] /\ Dest(v)' = Dest(v)
    BY <1>2 DEF OthersWork, Dest
  <2> QED
    BY <2>1, <2>2, <2>3
<1>8. /\ InSession' = InSession /\ OnServer' = OnServer /\ InHand' = InHand
      /\ ServerNeat'
  BY <1>0, WorkerLeaves DEF CallInv
<1>9. OnQueue' \subseteq OnQueue \union (IF k = "reply" THEN {r} ELSE {})
  BY <1>1, <1>3, <1>6 DEF OnQueue
<1>10. \A i \in DOMAIN wto'[w] : wto'[w][i].kind = "reply" => i = Len(wto'[w])
  BY <1>0, NextIs
<1>11. CASE k = "reply"
  <2>1. Busy(w) /\ ~Busy(w)' /\ wpc'[w] = "idle"
    BY <1>0, <1>11, NextIs
  <2>2. r \in AtWorker /\ AtWorker' \subseteq AtWorker \ {r}
    BY <1>2, <2>1, WorkerLets DEF CallInv
  <2>3. /\ \A u, v \in Worker : Busy(u)' /\ Busy(v)' /\ wreq'[u] = wreq'[v] => u = v
        /\ DroppedKept /\ Asked' = Asked
    BY <1>0, <1>2, <2>1, WorkerHolds DEF CallInv, DroppedKept, Asked
  <2>4. BusyInv'
    BY <1>2, <1>10, <2>1, <2>3, OthersBusyInv DEF CallInv
  <2> HIDE DEF r, k
  <2>5. /\ r \in Place(3) /\ Place(3)' \subseteq Place(3) \ {r}
        /\ \A i \in 1 .. 5 :
             i # 3 => Place(i)' \subseteq Place(i) \union (IF i = 4 THEN {r} ELSE {})
    BY <1>8, <1>9, <1>11, <2>2 DEF Place
  <2>6. r \in Asked' /\ ApartInv
    BY <1>4, <1>11, <2>3 DEF CallInv
  <2>7. ApartInv'
    BY <2>3, <2>5, <2>6, OneMoved
  <2> QED
    BY <1>7, <1>8, <2>4, <2>7 DEF CallInv
<1>12. CASE k # "reply"
  <2>1. /\ Busy(w)' => Busy(w) /\ wreq'[w] = wreq[w]
        /\ wpc'[w] # "idle" /\ ~Busy(w)' => fate[wreq'[w]] = "dropped"
    BY <1>0, <1>12, NextIs
  <2>2. OnQueue' \subseteq OnQueue
    BY <1>9, <1>12
  <2>3. ApartInv' /\ BusyInv'
    BY <1>0, <1>2, <1>8, <1>10, <2>1, <2>2, GoesOn
  <2> QED
    BY <1>7, <1>8, <2>3 DEF CallInv
<1> QED
  BY <1>11, <1>12

LEMMA KilledCalls ==
  ASSUME MessageInv, CallInv, NEW w \in Worker, WorkerKilled(w) PROVE CallInv'
<1> USE DEF WorkerKilled
<1>1. /\ OthersWork(w) /\ wpc'[w] = "idle" /\ wto'[w] = <<>> /\ ~Busy(w)'
      /\ \A i \in DOMAIN wto'[w] : wto'[w][i].kind # "reply"
  <2>1. wpc'[w] = "idle" /\ wto'[w] = <<>>
    BY DEF MessageInv, Types, WorkTypes
  <2> QED
    BY <2>1 DEF OthersWork, Busy, MessageInv, Types, WorkTypes
<1>2. \A p \in Pxid : /\ Neat(uq'[p], "reply")
                      /\ Carried(uq'[p], "reply") = Carried(uq[p], "reply")
                      /\ Openers(uq'[p]) = Openers(uq[p]) \ {w}
  <2> SUFFICES ASSUME NEW p \in Pxid
               PROVE  /\ Neat(uq'[p], "reply")
                      /\ Carried(uq'[p], "reply") = Carried(uq[p], "reply")
                      /\ Openers(uq'[p]) = Openers(uq[p]) \ {w}
    OBVIOUS
  <2>1. uq[p] \in Seq(Conn) /\ Neat(uq[p], "reply")
    BY DEF MessageInv, Types, QueueTypes, CallInv, QueuesNeat
  <2>2. uq'[p] = Cut(uq[p], w)
    OBVIOUS
  <2> QED
    BY <2>1, <2>2, NeatCut
<1>3. QueuesNeat'
  <2> SUFFICES ASSUME NEW o \in Pxid
               PROVE  /\ Neat(uq'[o], "reply")
                      /\ Openers(uq'[o]) \subseteq
                           {v \in Worker : wpc'[v] = "write" /\ Dest(v)'.to = o}
    BY DEF QueuesNeat
  <2>1. \A v \in Worker : v # w => wpc'[v] = wpc[v] /\ Dest(v)' = Dest(v)
    BY <1>1 DEF OthersWork, Dest
  <2>2. Openers(uq[o]) \subseteq {v \in Worker : wpc[v] = "write" /\ Dest(v).to = o}
    BY DEF QueuesNeat, CallInv
  <2> QED
    BY <1>2, <2>1, <2>2
<1>4. OnQueue' \subseteq OnQueue
  BY <1>2 DEF OnQueue
<1>5. /\ InSession' = InSession /\ OnServer' = OnServer /\ InHand' = InHand
      /\ ServerNeat'
  BY WorkerLeaves DEF CallInv
<1>6. CASE Busy(w)
  <2>1. ApartInv' /\ BusyInv'
    BY <1>1, <1>4, <1>5, <1>6, GivesUp
  <2> QED
    BY <1>3, <1>5, <2>1 DEF CallInv
<1>7. CASE ~Busy(w)
  <2>1. fate[wreq[w]] = "dropped"
    BY <1>7 DEF CallInv, BusyInv
  <2>2. fate' = fate
    BY <2>1 DEF Settle, MessageInv, Types, HistTypes
  <2>3. ApartInv' /\ BusyInv'
    BY <1>1, <1>4, <1>5, <1>7, <2>2, GoesOn
  <2> QED
    BY <1>3, <1>5, <2>3 DEF CallInv
<1> QED
  BY <1>6, <1>7

LEMMA CallInit == Init => CallInv
<1> SUFFICES ASSUME Init PROVE CallInv
  OBVIOUS
<1>1. ServerNeat /\ QueuesNeat
  BY DEF Init, ServerNeat, QueuesNeat, Neat, Openers
<1>2. BusyInv
  BY DEF Init, BusyInv, Busy
<1>3. /\ InSession = {} /\ OnServer = {} /\ AtWorker = {} /\ OnQueue = {} /\ InHand = {}
  <2>1. \A w \in Worker : ~Busy(w)
    BY DEF Init, Busy
  <2>2. AtWorker = {}
    BY <2>1 DEF AtWorker
  <2>3. InSession = {} /\ InHand = {}
    BY DEF Init, InSession, InHand, Nothing
  <2>4. OnServer = {} /\ OnQueue = {}
    BY DEF Init, OnServer, OnQueue, Carried
  <2> QED
    BY <2>2, <2>3, <2>4
<1>4. ApartInv
  BY <1>3 DEF ApartInv, Place
<1> QED
  BY <1>1, <1>2, <1>4 DEF CallInv

LEMMA SessionRunCalls ==
  ASSUME MessageInv, CallInv, NEW p \in Pxid, SessionRun(p) PROVE CallInv'
<1>1. CASE \/ SessionReadsEnd(p) \/ SessionReceivesEnd(p)
           \/ SessionDeliverFails(p) \/ SessionPolledTwice(p)
  BY <1>1, EndCalls
     DEF SessionReadsEnd, SessionReceivesEnd, SessionDeliverFails, SessionPolledTwice
<1>2. CASE SessionConnects(p) \/ SessionSendFails(p) \/ SessionWrites(p)
  BY <1>2, ConnectsCalls, SendFailsCalls, WritesCalls
<1>3. CASE SessionReceives(p) \/ SessionDelivers(p)
  BY <1>3, ReceivesCalls, DeliversCalls
<1>4. CASE SessionPolls(p) \/ SessionPolled(p)
  BY <1>4, PollsCalls
<1> QED
  BY <1>1, <1>2, <1>3, <1>4 DEF SessionRun

LEMMA WorkerRunCalls ==
  ASSUME MessageInv, CallInv, NEW w \in Worker, WorkerRun(w) PROVE CallInv'
BY TakesCalls, FailsCalls, RepliesCalls, TellsCalls, WorkerConnectsCalls,
   WorkerFailsCalls, WorkerWritesCalls
   DEF WorkerRun

LEMMA StutterCalls == ASSUME CallInv, UNCHANGED vars PROVE CallInv'
<1> USE DEF CallInv, vars, sessVars, workVars, histVars
<1>1. ServerNeat' /\ QueuesNeat'
  BY DEF ServerNeat, QueuesNeat, Dest
<1>2. BusyInv' /\ AtWorker' = AtWorker
  BY BusyKept DEF DroppedKept
<1>3. /\ InSession' = InSession /\ OnServer' = OnServer /\ OnQueue' = OnQueue
      /\ InHand' = InHand /\ Asked' = Asked
  BY DEF InSession, OnServer, OnQueue, InHand, Asked
<1>4. ApartInv'
  BY <1>2, <1>3 DEF ApartInv, Place
<1> QED
  BY <1>1, <1>2, <1>4

LEMMA CallStep == MessageInv /\ CallInv /\ [Next]_vars => CallInv'
<1> SUFFICES ASSUME MessageInv, CallInv, [Next]_vars PROVE CallInv'
  OBVIOUS
<1>1. ASSUME NEW p \in Pxid, SessionRun(p) PROVE CallInv'
  BY <1>1, SessionRunCalls
<1>2. ASSUME NEW p \in Pxid, SessionStart(p) \/ SessionReadsPoll(p) PROVE CallInv'
  BY <1>2, StartCalls, PollsCalls
<1>3. ASSUME NEW p \in Pxid, NEW r \in NextReq, SessionReads(p, r) PROVE CallInv'
  BY <1>3, ReadsCalls
<1>4. ASSUME NEW p \in Pxid, ClientReads(p) \/ \E m \in Moods : ClientTurns(p, m)
      PROVE  CallInv'
  BY <1>4, PollsCalls
<1>5. ASSUME NEW p \in Pxid, Logoff(p) PROVE CallInv'
  BY <1>5, LogoffCalls
<1>6. ASSUME NEW w \in Worker, WorkerRun(w) \/ WorkerKilled(w) PROVE CallInv'
  BY <1>6, WorkerRunCalls, KilledCalls
<1>7. CASE UNCHANGED vars
  BY <1>7, StutterCalls
<1> QED
  BY <1>1, <1>2, <1>3, <1>4, <1>5, <1>6, <1>7 DEF Next

-----------------------------------------------------------------------------
(* The refinement.  Every step is a step of PnoxCalls, or changes nothing   *)
(* that PnoxCalls has.                                                      *)

Present == {p \in Pxid : On(p)}

CallsStep == [Calls!Next]_Calls!vars

LEMMA CallsUnmoved ==
  ASSUME MessageInv, UNCHANGED histVars,
         \/ UNCHANGED spc
         \/ \E p \in Pxid, at \in {"wait", "conn", "write", "out", "poll"} :
              On(p) /\ spc' = [spc EXCEPT ![p] = at]
  PROVE  CallsStep
<1>1. Present' = Present
  BY DEF Present, On, MessageInv, Types, SessionTypes
<1> QED
  BY <1>1 DEF CallsStep, Calls!vars, histVars, Present

LEMMA CallsCome == ASSUME MessageInv, NEW p \in Pxid, SessionStart(p) PROVE CallsStep
<1>1. Present' = Present \union {p} /\ p \notin Present
  BY DEF Present, On, MessageInv, Types, SessionTypes, SessionStart, Goto
<1>2. Calls!Come(p)
  BY <1>1 DEF Calls!Come, SessionStart, Present
<1> QED
  BY <1>2 DEF CallsStep, Calls!Next

LEMMA CallsGo ==
  ASSUME MessageInv, NEW p \in Pxid, On(p), End(p), UNCHANGED histVars PROVE CallsStep
<1>1. Present' = Present \ {p} /\ p \in Present
  BY DEF Present, On, MessageInv, Types, SessionTypes, End
<1>2. Calls!Go(p)
  BY <1>1 DEF Calls!Go, histVars, Present
<1> QED
  BY <1>2 DEF CallsStep, Calls!Next

LEMMA CallsAsk ==
  ASSUME MessageInv, NEW p \in Pxid, NEW r \in NextReq, SessionReads(p, r)
  PROVE  CallsStep
<1>1. Present' = Present /\ p \in Present
  BY DEF Present, On, MessageInv, Types, SessionTypes, SessionReads, Goto
<1>2. r \in Req /\ r \in Calls!Req /\ fate[r] = "new"
  BY DEF NextReq, Req, Calls!Req
<1>3. Calls!Ask(p, r)
  BY <1>1, <1>2 DEF Calls!Ask, Calls!Turn, SessionReads, Present
<1> QED
  BY <1>2, <1>3 DEF CallsStep, Calls!Next

LEMMA CallsDrop ==
  ASSUME MessageInv, NEW r \in Asked, Settle(r, "dropped"), UNCHANGED <<gen, by, got>>,
         Present' = Present
  PROVE  CallsStep
<1>1. r \in Calls!Req /\ r # NoReq /\ fate[r] = "asked"
  BY DEF Asked, Req, Calls!Req, NoReq
<1>2. Calls!Drop(r)
  BY <1>1 DEF Calls!Drop, Calls!Turn, Settle, Present
<1> QED
  BY <1>1, <1>2 DEF CallsStep, Calls!Next

LEMMA CallsAnswer ==
  ASSUME MessageInv, CallInv, NEW p \in Pxid, SessionDelivers(p) PROVE CallsStep
<1>1. Present' = Present /\ p \in Present
  BY DEF Present, On, MessageInv, Types, SessionTypes, SessionDelivers, Goto
<1>2. CASE held[p].kind = "reply"
  <2> DEFINE r == held[p].req
  <2>1. r \in InHand
    BY <1>2 DEF InHand
  <2>2. r \in Place(5)
    BY <2>1 DEF Place
  <2>3. r \in Asked
    BY <2>2 DEF CallInv, ApartInv
  <2>4. by[r].id = p
    BY <1>2 DEF MessageInv, SessionInv, AskedBy
  <2>5. r \in Calls!Req /\ r # NoReq /\ fate[r] = "asked"
    BY <2>3 DEF Asked, Req, Calls!Req, NoReq
  <2>6. /\ got' = Append(got, [req |-> r, id |-> p, gen |-> gen[p]])
        /\ fate' = [fate EXCEPT ![r] = "answered"]
        /\ gen' = gen /\ by' = by
    BY <1>2, <2>5 DEF SessionDelivers, Settle
  <2> HIDE DEF r
  <2>7. Calls!Answer(r)
    BY <1>1, <2>4, <2>5, <2>6 DEF Calls!Answer, Calls!Turn, Present
  <2> QED
    BY <2>5, <2>7 DEF CallsStep, Calls!Next
<1>3. CASE held[p].kind # "reply"
  BY <1>1, <1>3 DEF CallsStep, Calls!vars, SessionDelivers, Present
<1> QED
  BY <1>2, <1>3

LEMMA SessionRunImplements ==
  ASSUME MessageInv, CallInv, NEW p \in Pxid, SessionRun(p) PROVE CallsStep
<1>1. CASE \/ SessionReadsEnd(p) \/ SessionReceivesEnd(p)
           \/ SessionDeliverFails(p) \/ SessionPolledTwice(p)
  BY <1>1, CallsGo
     DEF SessionReadsEnd, SessionReceivesEnd, SessionDeliverFails, SessionPolledTwice, On
<1>2. CASE \/ SessionConnects(p) \/ SessionWrites(p) \/ SessionReceives(p)
           \/ SessionPolls(p) \/ SessionPolled(p)
  BY <1>2, CallsUnmoved
     DEF SessionConnects, SessionWrites, SessionReceives, SessionPolls, SessionPolled,
         Goto, On
<1>3. CASE SessionSendFails(p)
  <2>1. sreq[p] \in InSession
    BY <1>3 DEF SessionSendFails, Goto, InSession
  <2>2. sreq[p] \in Place(1)
    BY <2>1 DEF Place
  <2>3. sreq[p] \in Asked
    BY <2>2 DEF CallInv, ApartInv
  <2>4. Present' = Present
    BY <1>3 DEF Present, On, MessageInv, Types, SessionTypes, SessionSendFails, Goto
  <2> QED
    BY <1>3, <2>3, <2>4, CallsDrop DEF SessionSendFails
<1>4. CASE SessionDelivers(p)
  BY <1>4, CallsAnswer
<1> QED
  BY <1>1, <1>2, <1>3, <1>4 DEF SessionRun

\* What a worker gives up was asked.
LEMMA BusyAsked ==
  ASSUME CallInv, NEW w \in Worker, Busy(w) PROVE wreq[w] \in Asked
<1>1. wreq[w] \in Place(3)
  BY DEF Place, AtWorker
<1> QED
  BY <1>1 DEF CallInv, ApartInv

LEMMA WorkerRunImplements ==
  ASSUME MessageInv, CallInv, NEW w \in Worker, WorkerRun(w) \/ WorkerKilled(w)
  PROVE  CallsStep
<1>0. UNCHANGED spc /\ Present' = Present
  <2>1. UNCHANGED sessVars
    BY DEF WorkerRun, WorkerTakes, ServeFails, ServeReplies, ServeLists, ServeTells,
           SendConnects, SendFails, SendWrites, SendWriteFails, WorkerKilled
  <2> QED
    BY <2>1 DEF sessVars, Present, On
<1>1. CASE \/ \E i \in Done(sq) : WorkerTakes(w, i)
           \/ ServeReplies(w) \/ ServeLists(w) \/ SendConnects(w) \/ SendWrites(w)
           \/ \E a, b \in Pxid : ServeTells(w, a, b)
  <2>1. UNCHANGED histVars
    BY <1>1 DEF WorkerTakes, ServeReplies, ServeLists, ServeTells, SendConnects, SendWrites
  <2> QED
    BY <1>0, <2>1, CallsUnmoved
<1>2. CASE ServeFails(w)
  <2>1. Busy(w) /\ Settle(wreq[w], "dropped") /\ UNCHANGED <<gen, by, got>>
    BY <1>2 DEF ServeFails, WGoto, Busy
  <2> QED
    BY <1>0, <2>1, BusyAsked, CallsDrop
<1>3. CASE SendFails(w) \/ SendWriteFails(w)
  <2>0. /\ wpc[w] \in {"send", "write"} /\ SendNext(w) /\ Failed(w)
        /\ UNCHANGED <<gen, by, got>>
    BY <1>3 DEF SendFails, SendWriteFails
  <2>1. CASE Dest(w).kind = "reply"
    <3>1. Busy(w)
      BY <2>0, <2>1, NextIs
    <3>2. Settle(wreq[w], "dropped")
      BY <2>0, <2>1 DEF Failed
    <3> QED
      BY <1>0, <2>0, <3>1, <3>2, BusyAsked, CallsDrop
  <2>2. CASE Dest(w).kind # "reply"
    BY <1>0, <2>0, <2>2, CallsUnmoved DEF Failed, histVars
  <2> QED
    BY <2>1, <2>2
<1>4. CASE WorkerKilled(w)
  <2>0. /\ wpc[w] # "idle" /\ Settle(wreq[w], "dropped") /\ UNCHANGED <<gen, by, got>>
    BY <1>4 DEF WorkerKilled
  <2>1. CASE Busy(w)
    BY <1>0, <2>0, <2>1, BusyAsked, CallsDrop
  <2>2. CASE ~Busy(w)
    <3>1. fate[wreq[w]] = "dropped"
      BY <2>0, <2>2 DEF CallInv, BusyInv
    <3>2. fate' = fate
      BY <2>0, <3>1 DEF Settle, MessageInv, Types, HistTypes
    <3> QED
      BY <1>0, <2>0, <3>2, CallsUnmoved DEF histVars
  <2> QED
    BY <2>1, <2>2
<1> QED
  BY <1>1, <1>2, <1>3, <1>4 DEF WorkerRun

LEMMA CallsImplemented == MessageInv /\ CallInv /\ [Next]_vars => CallsStep
<1> SUFFICES ASSUME MessageInv, CallInv, [Next]_vars PROVE CallsStep
  OBVIOUS
<1>1. ASSUME NEW p \in Pxid, SessionRun(p) PROVE CallsStep
  BY <1>1, SessionRunImplements
<1>2. ASSUME NEW p \in Pxid, SessionStart(p) PROVE CallsStep
  BY <1>2, CallsCome
<1>3. ASSUME NEW p \in Pxid, NEW r \in NextReq, SessionReads(p, r) PROVE CallsStep
  BY <1>3, CallsAsk
<1>4. ASSUME NEW p \in Pxid,
             \/ SessionReadsPoll(p) \/ ClientReads(p) \/ Logoff(p)
             \/ \E m \in Moods : ClientTurns(p, m)
      PROVE  CallsStep
  <2>1. UNCHANGED <<spc, histVars>>
    BY <1>4 DEF SessionReadsPoll, ClientReads, ClientTurns, Logoff, sessVars
  <2> QED
    BY <2>1, CallsUnmoved
<1>5. ASSUME NEW w \in Worker, WorkerRun(w) \/ WorkerKilled(w) PROVE CallsStep
  BY <1>5, WorkerRunImplements
<1>6. CASE UNCHANGED vars
  BY <1>6, CallsUnmoved DEF vars, sessVars
<1> QED
  BY <1>1, <1>2, <1>3, <1>4, <1>5, <1>6 DEF Next

\* Sessions, queues and workers implement PnoxCalls: whoever was killed, however
\* queues filled and sessions came and went, a request that pxsend sent is
\* answered once at most, and never once it was given up; the answer is given to
\* the client that has the asker's id at that moment.
THEOREM MessagesKeepPromise == Spec => CallsPromise
<1>1. Init => Calls!Init
  BY DEF Init, Calls!Init, On, Req, Calls!Req
<1>2. MessageInv /\ CallInv /\ [Next]_vars => [Calls!Next]_Calls!vars
  BY CallsImplemented DEF CallsStep
<1>3. Spec => [](MessageInv /\ CallInv)
  <2>1. MessageInv /\ CallInv /\ [Next]_vars => (MessageInv /\ CallInv)'
    BY MessageStep, CallStep
  <2>2. Init => MessageInv /\ CallInv
    BY MessageInit, CallInit
  <2> QED
    BY <2>1, <2>2, PTL DEF Spec
<1> QED
  BY <1>1, <1>2, <1>3, PTL DEF Spec, CallsPromise, Calls!Spec

\* A request that was answered is in got, once, and is not open any more.
GotOnce ==
  \A i \in DOMAIN got :
    /\ fate[got[i].req] = "answered"
    /\ \A j \in DOMAIN got : got[i].req = got[j].req => i = j

LEMMA ElementsIn ==
  ASSUME NEW S, NEW q \in Seq(S) PROVE \A i \in DOMAIN q : q[i] \in S
OBVIOUS

LEMMA AppendAdds ==
  ASSUME NEW S, NEW q \in Seq(S), NEW e
  PROVE  /\ DOMAIN Append(q, e) = DOMAIN q \union {Len(q) + 1}
         /\ Append(q, e)[Len(q) + 1] = e
         /\ \A i \in DOMAIN q : Append(q, e)[i] = q[i]
OBVIOUS

LEMMA OnceKept == ASSUME MessageInv, GotOnce, CallsStep PROVE GotOnce'
<1> USE DEF MessageInv, Types, HistTypes, GotOnce
<1> DEFINE S == [req : Req, id : Pxid, gen : 0 .. MaxGen]
<1>0. \A i \in DOMAIN got : got[i].req \in Req
  <2>1. got \in Seq(S)
    OBVIOUS
  <2>2. \A d \in S : d.req \in Req
    OBVIOUS
  <2> HIDE DEF S
  <2>3. \A i \in DOMAIN got : got[i] \in S
    BY <2>1, ElementsIn
  <2> QED
    BY <2>2, <2>3
<1>s. got \in Seq(S)
  OBVIOUS
<1> HIDE DEF S
<1>1. ASSUME NEW r \in Req, UNCHANGED got, fate[r] # "answered",
             NEW f, fate' = [fate EXCEPT ![r] = f]
      PROVE  GotOnce'
  BY <1>1
<1>2. ASSUME NEW p \in Pxid, NEW r \in Calls!Req, Calls!Ask(p, r) PROVE GotOnce'
  BY <1>1, <1>2 DEF Calls!Ask, Calls!Turn, Req, Calls!Req
<1>3. ASSUME NEW r \in Calls!Req, Calls!Drop(r) PROVE GotOnce'
  BY <1>1, <1>3 DEF Calls!Drop, Calls!Turn, Req, Calls!Req
<1>4. ASSUME NEW r \in Calls!Req, Calls!Answer(r) PROVE GotOnce'
  <2> DEFINE n == Len(got) + 1
             d == [req |-> r, id |-> by[r].id, gen |-> gen[by[r].id]]
  <2>1. /\ r \in Req /\ fate[r] = "asked" /\ fate' = [fate EXCEPT ![r] = "answered"]
        /\ got' = Append(got, d)
    BY <1>4 DEF Calls!Answer, Calls!Turn, Req, Calls!Req
  <2>2. d.req = r
    OBVIOUS
  <2> HIDE DEF d
  <2>3. /\ DOMAIN got' = DOMAIN got \union {n} /\ got'[n] = d
        /\ \A i \in DOMAIN got : got'[i] = got[i]
    BY <1>s, <2>1, AppendAdds
  <2>4. \A i \in DOMAIN got : got[i].req \in Req /\ got[i].req # r
    <3>1. \A i \in DOMAIN got : got[i].req \in Req
      BY <1>0
    <3>2. \A i \in DOMAIN got : fate[got[i].req] # fate[r]
      BY <2>1
    <3> QED
      BY <3>1, <3>2
  <2> HIDE DEF n
  <2>5. \A i \in DOMAIN got' : fate'[got'[i].req] = "answered"
    BY <2>1, <2>2, <2>3, <2>4
  <2>6. \A i, j \in DOMAIN got' : got'[i].req = got'[j].req => i = j
    BY <2>2, <2>3, <2>4
  <2> QED
    BY <2>5, <2>6
<1>5. CASE UNCHANGED <<fate, got>>
  BY <1>5
<1> QED
  BY <1>2, <1>3, <1>4, <1>5
     DEF CallsStep, Calls!Next, Calls!vars, Calls!Come, Calls!Go

\* No request is answered twice, and none that a session or a worker gave up:
\* this needs no more than PnoxCalls and the types.
THEOREM AnsweredOnce == Spec => []GotOnce
<1>1. Init => GotOnce
  BY DEF Init, GotOnce
<1>2. MessageInv /\ GotOnce /\ CallsStep => GotOnce'
  BY OnceKept
<1>3. Spec => []MessageInv
  BY MessageInit, MessageStep, PTL DEF Spec
<1>4. CallsPromise => [][Calls!Next]_Calls!vars
  BY PTL DEF CallsPromise, Calls!Spec
<1>5. Spec => Init
  BY DEF Spec
<1>6. [Calls!Next]_Calls!vars => CallsStep
  BY DEF CallsStep
<1>7. MessageInv /\ GotOnce /\ [Calls!Next]_Calls!vars => GotOnce'
  BY <1>2, <1>6
<1> QED
  BY <1>1, <1>3, <1>4, <1>5, <1>7, MessagesKeepPromise, PTL

-----------------------------------------------------------------------------
(* Nothing is lost on the way.  A step that takes a request from one place  *)
(* puts it into the next, or settles it; and nobody's connection to the     *)
(* server is lost before it is written.  So where everything has come to a  *)
(* halt, nobody waits, or everybody does.                                   *)

\* Whoever is about to write to the server has its connection there, nothing
\* there was cut, and a session that holds a reply is about to pass it on.
LinkInv ==
  /\ \A p \in Pxid : spc[p] = "write" => p \in Openers(sq)
  /\ \A i \in DOMAIN sq : sq[i].st # "cut"
  /\ \A p \in Pxid : held[p].kind = "reply" => spc[p] = "out"

\* Who asked had the id, and perhaps still has it.
ByInv ==
  \A r \in Req : fate[r] # "new" => by[r].id \in Pxid /\ by[r].gen <= gen[by[r].id]

Somewhere(r) ==
  r \in InSession \/ r \in OnServer \/ r \in AtWorker \/ r \in OnQueue \/ r \in InHand

\* A request whose client waits for an answer is somewhere.
KeptInv == \A r \in Req : Asking(r) => Somewhere(r)

HaltInv == LinkInv /\ ByInv /\ KeptInv

-----------------------------------------------------------------------------
(* What stays on a queue.                                                  *)

LEMMA AppendStays ==
  ASSUME NEW q \in Seq(Conn), NEW c \in Conn
  PROVE  /\ \A kind : Carried(q, kind) \subseteq Carried(Append(q, c), kind)
         /\ Openers(q) \subseteq Openers(Append(q, c))
         /\ c.st = "open" => c.from \in Openers(Append(q, c))
         /\ \A i \in DOMAIN Append(q, c) :
              Append(q, c)[i] = c \/ \E j \in DOMAIN q : Append(q, c)[i] = q[j]
<1> DEFINE s == Append(q, c)
           n == Len(q) + 1
<1>1. /\ DOMAIN s = DOMAIN q \union {n} /\ s[n] = c
      /\ \A i \in DOMAIN q : s[i] = q[i]
  OBVIOUS
<1> HIDE DEF s, n
<1>2. \A kind : Carried(q, kind) \subseteq Carried(s, kind)
  BY <1>1 DEF Carried
<1>3. Openers(q) \subseteq Openers(s) /\ (c.st = "open" => c.from \in Openers(s))
  BY <1>1 DEF Openers
<1>4. \A i \in DOMAIN s : s[i] = c \/ \E j \in DOMAIN q : s[i] = q[j]
  BY <1>1
<1> QED
  BY <1>2, <1>3, <1>4 DEF s

\* s is q without its k-th connection.
Stays(q, s, k) ==
  /\ \A kind : Carried(q, kind) \subseteq
                 Carried(s, kind) \union (IF Carries(q[k], kind) THEN {q[k].req} ELSE {})
  /\ q[k].st # "open" => Openers(q) \subseteq Openers(s)

LEMMA TheRestStays ==
  ASSUME NEW q, NEW s, NEW k \in DOMAIN q,
         \A i \in DOMAIN q : i # k => \E j \in DOMAIN s : s[j] = q[i]
  PROVE  Stays(q, s, k)
<1>1. ASSUME NEW kind, NEW r \in Carried(q, kind)
      PROVE  r \in Carried(s, kind) \union (IF Carries(q[k], kind) THEN {q[k].req} ELSE {})
  <2>1. PICK i \in DOMAIN q : Carries(q[i], kind) /\ q[i].req = r
    BY <1>1 DEF Carried
  <2>2. CASE i = k
    BY <2>1, <2>2
  <2>3. CASE i # k
    BY <2>1, <2>3 DEF Carried
  <2> QED
    BY <2>2, <2>3
<1>2. ASSUME q[k].st # "open", NEW o \in Openers(q) PROVE o \in Openers(s)
  BY <1>2 DEF Openers
<1> QED
  BY <1>1, <1>2 DEF Stays

LEMMA TailStays ==
  ASSUME NEW q \in Seq(Conn), q # <<>>
  PROVE  Stays(q, Tail(q), 1) /\ Head(q) = q[1] /\ 1 \in DOMAIN q
<1> DEFINE s == Tail(q)
<1>1. /\ DOMAIN q = 1 .. Len(q) /\ DOMAIN s = 1 .. Len(q) - 1 /\ 1 \in DOMAIN q
      /\ Head(q) = q[1] /\ Len(q) \in Nat
      /\ \A i \in DOMAIN q : i # 1 => i - 1 \in DOMAIN s /\ s[i - 1] = q[i]
  OBVIOUS
<1> HIDE DEF s
<1>2. Stays(q, s, 1)
  BY <1>1, TheRestStays
<1> QED
  BY <1>1, <1>2 DEF s

LEMMA RemoveStays ==
  ASSUME NEW q \in Seq(Conn), NEW k \in DOMAIN q
  PROVE  Stays(q, RemoveAt(q, k), k)
<1> DEFINE s == RemoveAt(q, k)
           a == SubSeq(q, 1, k - 1)
           b == SubSeq(q, k + 1, Len(q))
<1>1. /\ a \in Seq(Conn) /\ Len(a) = k - 1
      /\ \A i \in 1 .. k - 1 : i \in DOMAIN q /\ a[i] = q[i]
  OBVIOUS
<1>2. /\ b \in Seq(Conn) /\ Len(b) = Len(q) - k
      /\ \A i \in 1 .. Len(q) - k : i + k \in DOMAIN q /\ b[i] = q[i + k]
  OBVIOUS
<1>3. s = a \o b
  BY DEF RemoveAt
<1>4. k \in 1 .. Len(q) /\ Len(q) \in Nat
  OBVIOUS
<1>d. DOMAIN q = 1 .. Len(q)
  OBVIOUS
<1> HIDE DEF a, b, s
<1>5. /\ DOMAIN s = 1 .. Len(q) - 1
      /\ \A i \in DOMAIN s : s[i] = IF i < k THEN a[i] ELSE b[i - (k - 1)]
  BY <1>1, <1>2, <1>3, <1>4
<1>6. ASSUME NEW i \in DOMAIN q, i # k PROVE \E j \in DOMAIN s : s[j] = q[i]
  <2>1. i \in Int /\ 1 <= i /\ i <= Len(q)
    BY <1>4, <1>d
  <2>2. CASE i < k
    <3>1. i \in DOMAIN s /\ i \in 1 .. k - 1
      BY <1>4, <1>5, <2>1, <2>2
    <3> QED
      BY <1>1, <1>5, <2>2, <3>1
  <2>3. CASE ~(i < k)
    <3>1. i - 1 \in DOMAIN s /\ ~(i - 1 < k) /\ i - k \in 1 .. Len(q) - k
          /\ (i - 1) - (k - 1) = i - k /\ (i - k) + k = i
      BY <1>4, <1>5, <1>6, <2>1, <2>3
    <3>2. s[i - 1] = b[i - k]
      BY <1>5, <3>1
    <3>3. b[i - k] = q[i]
      BY <1>2, <3>1
    <3> QED
      BY <3>1, <3>2, <3>3
  <2> QED
    BY <2>2, <2>3
<1>7. Stays(q, s, k)
  BY <1>6, TheRestStays
<1> QED
  BY <1>7 DEF s

LEMMA WrittenStays ==
  ASSUME NEW q \in Seq(Conn), NEW f, NEW p, NEW k, NEW r
  PROVE  /\ \A kind : Carried(q, kind) \subseteq Carried(Written(q, f, p, k, r), kind)
         /\ f \in Openers(q) => r \in Carried(Written(q, f, p, k, r), k)
         /\ Openers(q) \ {f} \subseteq Openers(Written(q, f, p, k, r))
         /\ \A i \in DOMAIN Written(q, f, p, k, r) :
              \/ Written(q, f, p, k, r)[i].st = "sent"
              \/ \E j \in DOMAIN q : Written(q, f, p, k, r)[i] = q[j]
<1> DEFINE s == Written(q, f, p, k, r)
           c == [from |-> f, pxid |-> p, kind |-> k, req |-> r, st |-> "sent"]
<1>1. /\ DOMAIN s = DOMAIN q
      /\ \A i \in DOMAIN q :
           s[i] = IF q[i].from = f /\ q[i].st = "open" THEN c ELSE q[i]
  BY DEF Written
<1>2. c.st = "sent" /\ c.kind = k /\ c.req = r
  OBVIOUS
<1> HIDE DEF s, c
<1>3. \A kind : Carried(q, kind) \subseteq Carried(s, kind)
  BY <1>1 DEF Carried, Carries
<1>4. f \in Openers(q) => r \in Carried(s, k)
  BY <1>1, <1>2 DEF Openers, Carried, Carries
<1>5. \A i \in DOMAIN s : s[i].st = "sent" \/ \E j \in DOMAIN q : s[i] = q[j]
  BY <1>1, <1>2
<1>6. Openers(q) \ {f} \subseteq Openers(s)
  BY <1>1 DEF Openers
<1> QED
  BY <1>3, <1>4, <1>5, <1>6 DEF s

-----------------------------------------------------------------------------
(* Who waits for an answer.                                                *)

\* Nobody comes to wait, and x, if it is a request, is waited for no more.
FewerAsk(x) == ByInv' /\ \A r \in Req : Asking(r)' => Asking(r) /\ r # x

LEMMA NoneSettled ==
  ASSUME ByInv, UNCHANGED <<gen, by, fate>>, \A p \in Pxid : On(p)' => On(p)
  PROVE  FewerAsk(NoReq)
<1>1. ByInv'
  BY DEF ByInv
<1>2. ASSUME NEW r \in Req, Asking(r)' PROVE Asking(r) /\ r # NoReq
  <2>1. fate[r] = "asked" /\ by[r].id \in Pxid
    BY <1>2 DEF ByInv, Asking
  <2> QED
    BY <1>2, <2>1 DEF Asking, Req, NoReq
<1> QED
  BY <1>1, <1>2 DEF FewerAsk

LEMMA OneSettled ==
  ASSUME HistTypes, ByInv, NEW x, NEW o, AskedBy(x, o), NEW f \in {"answered", "dropped"},
         Settle(x, f), UNCHANGED <<gen, by>>, \A p \in Pxid : On(p)' => On(p)
  PROVE  FewerAsk(x)
<1>1. x \in Req /\ fate[x] # "new" /\ fate' = [fate EXCEPT ![x] = f]
  BY DEF AskedBy, Settle, Req, NoReq
<1>2. ByInv'
  BY <1>1 DEF ByInv, HistTypes
<1>3. ASSUME NEW r \in Req, Asking(r)' PROVE Asking(r) /\ r # x
  <2>1. fate[r] = "asked" /\ r # x
    BY <1>1, <1>3 DEF Asking, HistTypes
  <2>2. by[r].id \in Pxid
    BY <2>1 DEF ByInv
  <2> QED
    BY <1>3, <2>1, <2>2 DEF Asking
<1> QED
  BY <1>2, <1>3 DEF FewerAsk

\* Every request but x stays where it is, or goes on.
LEMMA KeptBut ==
  ASSUME KeptInv, NEW x, FewerAsk(x),
         \A r \in Req : Asking(r)' /\ r # x /\ Somewhere(r) => Somewhere(r)'
  PROVE  ByInv' /\ KeptInv'
BY DEF KeptInv, FewerAsk

LEMMA LinkKept ==
  ASSUME LinkInv, UNCHANGED sq,
         \A p \in Pxid : spc'[p] = "write" => spc[p] = "write",
         \A p \in Pxid : held'[p].kind = "reply" => held'[p] = held[p],
         \A p \in Pxid : spc[p] = "out" => spc'[p] = "out" \/ held'[p].kind # "reply"
  PROVE  LinkInv'
BY DEF LinkInv

-----------------------------------------------------------------------------
(* Sessions lose nothing but what is lost with them.                       *)

LEMMA StartHalts ==
  ASSUME MessageInv, HaltInv, NEW p \in Pxid, SessionStart(p) PROVE HaltInv'
<1> USE DEF MessageInv, Types, HaltInv, SessionStart, Goto
<1>1. LinkInv'
  BY LinkKept DEF SessionTypes
<1>2. ByInv'
  BY DEF ByInv, HistTypes
<1>3. ASSUME NEW r \in Req, Asking(r)' PROVE Asking(r)
  <2>1. fate[r] = "asked" /\ by[r].id \in Pxid /\ by[r].gen <= gen[by[r].id]
        /\ by[r].gen = gen'[by[r].id] /\ On(by[r].id)'
    BY <1>3 DEF Asking, ByInv
  <2>2. by[r].id # p
    BY <2>1 DEF HistTypes
  <2> QED
    BY <2>1, <2>2 DEF Asking, On, SessionTypes, HistTypes
<1>4. \A o \in Pxid : spc[o] \in {"conn", "write"} => spc'[o] \in {"conn", "write"}
  BY DEF SessionTypes
<1>5. \A r \in Req : Somewhere(r) => Somewhere(r)'
  BY <1>4 DEF Somewhere, InSession, OnServer, AtWorker, OnQueue, InHand, Busy, workVars
<1>6. KeptInv'
  BY <1>3, <1>5 DEF KeptInv
<1> QED
  BY <1>1, <1>2, <1>6

LEMMA ReadsHalts ==
  ASSUME MessageInv, HaltInv, NEW p \in Pxid, NEW r \in NextReq, SessionReads(p, r)
  PROVE  HaltInv'
<1> USE DEF MessageInv, Types, HaltInv, SessionReads, Goto
<1>0. /\ r \in Req /\ fate[r] = "new" /\ fate' = [fate EXCEPT ![r] = "asked"]
      /\ by' = [by EXCEPT ![r] = [id |-> p, gen |-> gen[p]]]
  BY DEF NextReq
<1>1. LinkInv'
  BY LinkKept DEF SessionTypes
<1>2. ByInv'
  BY <1>0 DEF ByInv, HistTypes
<1>3. ASSUME NEW s \in Req, s # r, Asking(s)' PROVE Asking(s)
  <2>1. fate[s] = "asked" /\ by'[s] = by[s]
    BY <1>0, <1>3 DEF Asking, HistTypes
  <2>2. by[s].id \in Pxid
    BY <2>1 DEF ByInv
  <2> QED
    BY <1>3, <2>1, <2>2 DEF Asking, On, SessionTypes
<1>4. r \in InSession' /\ InSession \subseteq InSession'
  BY DEF InSession, SessionTypes
<1>5. \A s \in Req : Somewhere(s) => Somewhere(s)'
  BY <1>4 DEF Somewhere, OnServer, AtWorker, OnQueue, InHand, Busy, workVars
<1>6. KeptInv'
  BY <1>3, <1>4, <1>5 DEF KeptInv, Somewhere
<1> QED
  BY <1>1, <1>2, <1>6

LEMMA EndHalts ==
  ASSUME MessageInv, HaltInv, NEW p \in Pxid, End(p), uq' = [uq EXCEPT ![p] = <<>>],
         UNCHANGED <<sq, workVars, histVars, kills, logoffs>>
  PROVE  HaltInv'
<1> USE DEF MessageInv, Types, HaltInv, End
<1>1. LinkInv'
  BY LinkKept DEF SessionTypes, Nothing
<1>2. FewerAsk(NoReq)
  BY NoneSettled DEF On, SessionTypes, histVars
<1>3. ASSUME NEW r \in Req, Asking(r)', Somewhere(r) PROVE Somewhere(r)'
  <2>1. by[r].id # p
    <3>1. fate[r] = "asked" /\ spc'[by[r].id] # "off"
      BY <1>3 DEF Asking, On, histVars
    <3> QED
      BY <3>1 DEF SessionTypes
  <2>2. CASE r \in InSession
    BY <2>1, <2>2 DEF Somewhere, InSession, SessionInv, AskedBy, SessionTypes
  <2>3. CASE r \in InHand
    BY <2>1, <2>3 DEF Somewhere, InHand, SessionInv, AskedBy, SessionTypes
  <2>4. CASE r \in OnQueue
    <3>1. PICK o \in Pxid : r \in Carried(uq[o], "reply")
      BY <2>4 DEF OnQueue
    <3>2. PICK i \in DOMAIN uq[o] : Carries(uq[o][i], "reply") /\ uq[o][i].req = r
      BY <3>1 DEF Carried
    <3>3. o # p
      BY <2>1, <3>2 DEF Carries, QueueInv, AskedBy
    <3>4. r \in Carried(uq'[o], "reply")
      BY <3>1, <3>3 DEF QueueTypes
    <3> QED
      BY <3>4 DEF Somewhere, OnQueue
  <2>5. CASE r \in OnServer \/ r \in AtWorker
    BY <2>5 DEF Somewhere, OnServer, AtWorker, Busy, workVars
  <2> QED
    BY <1>3, <2>2, <2>3, <2>4, <2>5 DEF Somewhere
<1>4. ByInv' /\ KeptInv'
  BY <1>2, <1>3, KeptBut
<1> QED
  BY <1>1, <1>4

\* Polls, reading, leaving.
LEMMA QuietHalts ==
  ASSUME MessageInv, HaltInv, NEW p \in Pxid, NEW at, spc' = [spc EXCEPT ![p] = at],
         at = spc[p] \/ (spc[p] \in {"wait", "poll"} /\ at \in {"wait", "poll"}),
         UNCHANGED <<hid, sreq, held, uq, sq, workVars, histVars, kills, logoffs>>
  PROVE  HaltInv'
<1> USE DEF MessageInv, Types, HaltInv
<1>1. LinkInv'
  BY LinkKept DEF SessionTypes
<1>2. FewerAsk(NoReq)
  BY NoneSettled DEF On, SessionTypes, histVars
<1>3. InSession' = InSession
  BY DEF InSession, SessionTypes
<1>4. \A r \in Req : Somewhere(r) => Somewhere(r)'
  BY <1>3 DEF Somewhere, OnServer, AtWorker, OnQueue, InHand, Busy, workVars
<1>5. ByInv' /\ KeptInv'
  BY <1>2, <1>4, KeptBut
<1> QED
  BY <1>1, <1>5

LEMMA PollsHalts ==
  ASSUME MessageInv, HaltInv, NEW p \in Pxid,
         \/ SessionReadsPoll(p) \/ SessionPolls(p) \/ SessionPolled(p) \/ ClientReads(p)
         \/ \E m \in Moods : ClientTurns(p, m)
  PROVE  HaltInv'
<1>0. spc = [spc EXCEPT ![p] = spc[p]]
  BY DEF MessageInv, Types, SessionTypes
<1>1. CASE SessionReadsPoll(p)
  BY <1>0, <1>1, QuietHalts DEF SessionReadsPoll
<1>2. CASE SessionPolls(p)
  BY <1>2, QuietHalts DEF SessionPolls, Goto
<1>3. CASE SessionPolled(p)
  BY <1>3, QuietHalts DEF SessionPolled, Goto
<1>4. CASE ClientReads(p)
  BY <1>0, <1>4, QuietHalts DEF ClientReads
<1>5. CASE \E m \in Moods : ClientTurns(p, m)
  BY <1>0, <1>5, QuietHalts DEF ClientTurns
<1> QED
  BY <1>1, <1>2, <1>3, <1>4, <1>5

LEMMA ConnectsHalts ==
  ASSUME MessageInv, HaltInv, NEW p \in Pxid, SessionConnects(p) PROVE HaltInv'
<1> USE MessageAssumption DEF MessageInv, Types, HaltInv, SessionConnects, Goto
<1>0. /\ Opened(p) \in Conn /\ Opened(p).st = "open" /\ Opened(p).from = p
      /\ sq \in Seq(Conn)
  BY DEF Opened, Conn, Id, NoReq, QueueTypes
<1>1. /\ Carried(sq, "ask") \subseteq Carried(sq', "ask")
      /\ Openers(sq) \subseteq Openers(sq') /\ p \in Openers(sq')
      /\ \A i \in DOMAIN sq' : sq'[i] = Opened(p) \/ \E j \in DOMAIN sq : sq'[i] = sq[j]
  BY <1>0, AppendStays
<1>2. LinkInv'
  <2>1. \A o \in Pxid : spc'[o] = "write" => o = p \/ spc[o] = "write"
    BY DEF SessionTypes
  <2>2. \A i \in DOMAIN sq' : sq'[i].st # "cut"
    BY <1>0, <1>1 DEF LinkInv
  <2>3. \A o \in Pxid : held[o].kind = "reply" => spc'[o] = "out"
    BY DEF LinkInv, SessionTypes
  <2> QED
    BY <1>1, <2>1, <2>2, <2>3 DEF LinkInv
<1>3. FewerAsk(NoReq)
  BY NoneSettled DEF On, SessionTypes, histVars
<1>4. InSession \subseteq InSession'
  BY DEF InSession, SessionTypes
<1>5. \A r \in Req : Somewhere(r) => Somewhere(r)'
  BY <1>1, <1>4 DEF Somewhere, OnServer, AtWorker, OnQueue, InHand, Busy, workVars
<1>6. ByInv' /\ KeptInv'
  BY <1>3, <1>5, KeptBut
<1> QED
  BY <1>2, <1>6

LEMMA SendFailsHalts ==
  ASSUME MessageInv, HaltInv, NEW p \in Pxid, SessionSendFails(p) PROVE HaltInv'
<1> USE DEF MessageInv, Types, HaltInv, SessionSendFails, Goto
<1>1. LinkInv'
  BY LinkKept DEF SessionTypes, LinkInv
<1>2. FewerAsk(sreq[p])
  <2>1. AskedBy(sreq[p], p)
    BY DEF SessionInv
  <2> QED
    BY <2>1, OneSettled DEF On, SessionTypes
<1>3. InSession \ {sreq[p]} \subseteq InSession'
  BY DEF InSession, SessionTypes
<1>4. \A r \in Req : r # sreq[p] /\ Somewhere(r) => Somewhere(r)'
  BY <1>3 DEF Somewhere, OnServer, AtWorker, OnQueue, InHand, Busy, workVars
<1>5. ByInv' /\ KeptInv'
  BY <1>2, <1>4, KeptBut
<1> QED
  BY <1>1, <1>5

LEMMA WritesHalts ==
  ASSUME MessageInv, HaltInv, NEW p \in Pxid, SessionWrites(p) PROVE HaltInv'
<1> USE DEF MessageInv, Types, HaltInv, SessionWrites, Goto
<1>1. /\ p \in Openers(sq) /\ sq \in Seq(Conn)
      /\ sq' = Written(sq, p, hid[p], "ask", sreq[p])
  BY DEF LinkInv, QueueTypes
<1>2. /\ Carried(sq, "ask") \subseteq Carried(sq', "ask")
      /\ sreq[p] \in Carried(sq', "ask") /\ Openers(sq) \ {p} \subseteq Openers(sq')
      /\ \A i \in DOMAIN sq' : sq'[i].st = "sent" \/ \E j \in DOMAIN sq : sq'[i] = sq[j]
  BY <1>1, WrittenStays
<1>3. LinkInv'
  <2>1. \A o \in Pxid : spc'[o] = "write" => o # p /\ spc[o] = "write"
    BY DEF SessionTypes
  <2>2. \A i \in DOMAIN sq' : sq'[i].st # "cut"
    BY <1>2 DEF LinkInv
  <2>3. \A o \in Pxid : held[o].kind = "reply" => spc'[o] = "out"
    BY DEF LinkInv, SessionTypes
  <2> QED
    BY <1>2, <2>1, <2>2, <2>3 DEF LinkInv
<1>4. FewerAsk(NoReq)
  BY NoneSettled DEF On, SessionTypes, histVars
<1>5. InSession \ {sreq[p]} \subseteq InSession'
  BY DEF InSession, SessionTypes
<1>6. \A r \in Req : Somewhere(r) => Somewhere(r)'
  BY <1>2, <1>5 DEF Somewhere, OnServer, AtWorker, OnQueue, InHand, Busy, workVars
<1>7. ByInv' /\ KeptInv'
  BY <1>4, <1>6, KeptBut
<1> QED
  BY <1>3, <1>7

LEMMA ReceivesHalts ==
  ASSUME MessageInv, HaltInv, NEW p \in Pxid, SessionReceives(p) PROVE HaltInv'
<1> USE DEF MessageInv, Types, HaltInv, SessionReceives, Goto
<1> DEFINE h == Head(uq[p])
<1>1. /\ uq[p] \in Seq(Conn) /\ uq[p] # <<>> /\ held' = [held EXCEPT ![p] = h]
      /\ uq'[p] = Tail(uq[p]) /\ \A o \in Pxid : o # p => uq'[o] = uq[o]
  BY DEF Ready, QueueTypes
<1>2. Stays(uq[p], uq'[p], 1) /\ h = uq[p][1]
  BY <1>1, TailStays
<1> HIDE DEF h
<1>3. held[p].kind # "reply"
  BY DEF LinkInv
<1>4. LinkInv'
  BY DEF LinkInv, SessionTypes
<1>5. FewerAsk(NoReq)
  BY NoneSettled DEF On, SessionTypes, histVars
<1>6. InHand \subseteq InHand'
  BY <1>1, <1>3 DEF InHand, SessionTypes
<1>7. h.kind = "reply" => h.req \in InHand'
  BY <1>1 DEF InHand, SessionTypes
<1>8. \A r \in OnQueue : r \in OnQueue' \/ r \in InHand'
  <2> SUFFICES ASSUME NEW r \in OnQueue, r \notin InHand' PROVE r \in OnQueue'
    OBVIOUS
  <2>1. PICK o \in Pxid : r \in Carried(uq[o], "reply")
    BY DEF OnQueue
  <2>2. r \in Carried(uq'[o], "reply")
    <3>1. CASE o # p
      BY <1>1, <2>1, <3>1
    <3>2. CASE o = p
      <4>1. Carries(h, "reply") => r # h.req
        BY <1>7 DEF Carries
      <4> QED
        BY <1>2, <2>1, <3>2, <4>1 DEF Stays
    <3> QED
      BY <3>1, <3>2
  <2> QED
    BY <2>2 DEF OnQueue
<1>9. InSession \subseteq InSession'
  BY DEF InSession, SessionTypes
<1>10. \A r \in Req : Somewhere(r) => Somewhere(r)'
  BY <1>6, <1>8, <1>9 DEF Somewhere, OnServer, AtWorker, Busy, workVars
<1>11. ByInv' /\ KeptInv'
  BY <1>5, <1>10, KeptBut
<1> QED
  BY <1>4, <1>11

LEMMA DeliversHalts ==
  ASSUME MessageInv, HaltInv, NEW p \in Pxid, SessionDelivers(p) PROVE HaltInv'
<1> USE DEF MessageInv, Types, HaltInv, SessionDelivers, Goto
<1>1. LinkInv'
  BY LinkKept DEF SessionTypes, Nothing
<1>2. InSession \subseteq InSession'
  BY DEF InSession, SessionTypes
<1>3. \A o \in Pxid : On(o)' => On(o)
  BY DEF On, SessionTypes
<1>4. CASE held[p].kind = "reply"
  <2> DEFINE x == held[p].req
  <2>1. AskedBy(x, p)
    BY <1>4 DEF SessionInv
  <2>2. Settle(x, "answered")
    BY <1>4
  <2>3. InHand \ {x} \subseteq InHand'
    BY DEF InHand, SessionTypes
  <2> HIDE DEF x
  <2>4. FewerAsk(x)
    BY <1>3, <2>1, <2>2, OneSettled
  <2>5. \A r \in Req : r # x /\ Somewhere(r) => Somewhere(r)'
    BY <1>2, <2>3 DEF Somewhere, OnServer, AtWorker, OnQueue, Busy, workVars
  <2>6. ByInv' /\ KeptInv'
    BY <2>4, <2>5, KeptBut
  <2> QED
    BY <1>1, <2>6
<1>5. CASE held[p].kind # "reply"
  <2>1. FewerAsk(NoReq)
    BY <1>3, <1>5, NoneSettled
  <2>2. InHand \subseteq InHand'
    BY <1>5 DEF InHand, SessionTypes
  <2>3. \A r \in Req : Somewhere(r) => Somewhere(r)'
    BY <1>2, <2>2 DEF Somewhere, OnServer, AtWorker, OnQueue, Busy, workVars
  <2>4. ByInv' /\ KeptInv'
    BY <2>1, <2>3, KeptBut
  <2> QED
    BY <1>1, <2>4
<1> QED
  BY <1>4, <1>5

\* More on some queues, of which nothing is lost.
LEMMA QueuesGrow ==
  ASSUME \A p \in Pxid : Carried(uq[p], "reply") \subseteq Carried(uq'[p], "reply")
  PROVE  OnQueue \subseteq OnQueue'
BY DEF OnQueue

LEMMA LogoffHalts ==
  ASSUME MessageInv, HaltInv, NEW p \in Pxid, Logoff(p) PROVE HaltInv'
<1> USE MessageAssumption DEF MessageInv, Types, HaltInv, Logoff
<1> DEFINE c == [Opened(NoPxid) EXCEPT !.pxid = p, !.kind = "logoff", !.st = "sent"]
<1>0. c \in Conn
  BY DEF Opened, Conn, Id, NoReq
<1>1. uq'[p] = Append(uq[p], c) /\ \A o \in Pxid : o # p => uq'[o] = uq[o]
  BY DEF QueueTypes
<1> HIDE DEF c
<1>2. Carried(uq[p], "reply") \subseteq Carried(uq'[p], "reply")
  BY <1>0, <1>1, AppendStays DEF QueueTypes
<1>3. OnQueue \subseteq OnQueue'
  BY <1>1, <1>2, QueuesGrow
<1>4. LinkInv'
  BY LinkKept DEF sessVars
<1>5. FewerAsk(NoReq)
  BY NoneSettled DEF On, sessVars, histVars
<1>6. \A r \in Req : Somewhere(r) => Somewhere(r)'
  BY <1>3 DEF Somewhere, InSession, OnServer, AtWorker, InHand, Busy, sessVars, workVars
<1>7. ByInv' /\ KeptInv'
  BY <1>5, <1>6, KeptBut
<1> QED
  BY <1>4, <1>7

-----------------------------------------------------------------------------
(* Workers lose nothing but what is lost with them.                        *)

\* A worker that goes on with its request, if it has one.
LEMMA WorkerStays ==
  ASSUME NEW w \in Worker, OthersWork(w), NEW x,
         Busy(w) => wreq[w] = x \/ (Busy(w)' /\ wreq'[w] = wreq[w])
  PROVE  \A r : r # x /\ r \in AtWorker => r \in AtWorker'
<1>1. \A v \in Worker : v # w => (Busy(v)' <=> Busy(v)) /\ wreq'[v] = wreq[v]
  BY OthersBusy DEF OthersWork
<1> QED
  BY <1>1 DEF AtWorker

\* The sessions and the server's queue are left alone.
LEMMA WorkerHalts ==
  ASSUME HaltInv, UNCHANGED <<sessVars, sq>>, NEW x, FewerAsk(x),
         \A r \in Req : r # x /\ r \in AtWorker => r \in AtWorker' \/ r \in OnQueue',
         OnQueue \subseteq OnQueue'
  PROVE  HaltInv'
<1>1. LinkInv'
  BY LinkKept DEF HaltInv, sessVars
<1>2. InSession' = InSession /\ OnServer' = OnServer /\ InHand' = InHand
  BY WorkerLeaves
<1>3. \A r \in Req : r # x /\ Somewhere(r) => Somewhere(r)'
  BY <1>2 DEF Somewhere
<1>4. ByInv' /\ KeptInv'
  BY <1>3, KeptBut DEF HaltInv
<1> QED
  BY <1>1, <1>4 DEF HaltInv

LEMMA NoneSettledHere ==
  ASSUME HaltInv, UNCHANGED <<gen, by, fate>>, UNCHANGED sessVars
  PROVE  FewerAsk(NoReq)
BY NoneSettled DEF HaltInv, On, sessVars

\* Worker w gives up what it has.
LEMMA WorkerDrops ==
  ASSUME MessageInv, HaltInv, NEW w \in Worker, wpc[w] # "idle",
         Settle(wreq[w], "dropped"), UNCHANGED <<gen, by>>, UNCHANGED sessVars
  PROVE  FewerAsk(wreq[w])
<1>1. AskedBy(wreq[w], wpxid[w])
  BY DEF MessageInv, WorkerInv
<1>2. \A p \in Pxid : On(p)' => On(p)
  BY DEF On, sessVars
<1> QED
  BY <1>1, <1>2, OneSettled DEF MessageInv, Types, HaltInv

LEMMA TakesHalts ==
  ASSUME MessageInv, CallInv, HaltInv, NEW w \in Worker, NEW i \in Done(sq),
         WorkerTakes(w, i)
  PROVE  HaltInv'
<1> USE DEF WorkerTakes, WGoto
<1>0. i \in DOMAIN sq /\ sq \in Seq(Conn) /\ sq' = RemoveAt(sq, i)
  BY DEF Done, MessageInv, Types, QueueTypes
<1>1. Carries(sq[i], "ask") /\ sq[i].st # "open"
  BY <1>0 DEF CallInv, ServerNeat, Carries
<1>2. Stays(sq, sq', i)
  BY <1>0, RemoveStays
<1>3. \A j \in DOMAIN sq' : \E k \in DOMAIN sq : sq'[j] = sq[k]
  BY <1>0, RemovedIs
<1>4. /\ OthersWork(w) /\ Busy(w)' /\ ~Busy(w) /\ wreq'[w] = sq[i].req
  <2>1. /\ wpc \in [Worker -> {"idle", "serve", "send", "write"}] /\ wto[w] = <<>>
        /\ wreq \in [Worker -> Req \union {NoReq}]
    BY DEF MessageInv, Types, WorkTypes
  <2> QED
    BY <2>1 DEF OthersWork, Busy
<1>5. sq[i].req \in AtWorker'
  BY <1>4 DEF AtWorker
<1>6. LinkInv'
  BY <1>1, <1>2, <1>3 DEF HaltInv, LinkInv, Stays, sessVars
<1>7. FewerAsk(NoReq)
  BY NoneSettledHere DEF histVars
<1>8. \A r : r # NoReq /\ r \in AtWorker => r \in AtWorker'
  BY <1>4, WorkerStays
<1>9. \A r \in OnServer : r \in OnServer' \/ r \in AtWorker'
  BY <1>2, <1>5 DEF OnServer, Stays
<1>10. InSession' = InSession /\ InHand' = InHand /\ OnQueue' = OnQueue
  BY DEF InSession, InHand, OnQueue, sessVars
<1>11. \A r \in Req : r # NoReq /\ Somewhere(r) => Somewhere(r)'
  BY <1>8, <1>9, <1>10 DEF Somewhere
<1>12. ByInv' /\ KeptInv'
  BY <1>7, <1>11, KeptBut DEF HaltInv
<1> QED
  BY <1>6, <1>12 DEF HaltInv

LEMMA FailsHalts ==
  ASSUME MessageInv, HaltInv, NEW w \in Worker, ServeFails(w) PROVE HaltInv'
<1> USE DEF ServeFails, WGoto
<1>1. OthersWork(w)
  BY DEF OthersWork, MessageInv, Types, WorkTypes
<1>2. FewerAsk(wreq[w])
  BY WorkerDrops
<1>3. \A r : r # wreq[w] /\ r \in AtWorker => r \in AtWorker'
  BY <1>1, WorkerStays
<1>4. OnQueue' = OnQueue
  BY DEF OnQueue
<1> QED
  BY <1>2, <1>3, <1>4, WorkerHalts

\* It has something to send, a reply among it.
LEMMA AnswersHalts ==
  ASSUME MessageInv, HaltInv, NEW w \in Worker, WGoto(w, "serve", "send"),
         NEW to, wto' = [wto EXCEPT ![w] = to],
         \E i \in DOMAIN to : to[i].kind = "reply",
         UNCHANGED <<sessVars, uq, sq, wreq, histVars>>
  PROVE  HaltInv'
<1>1. OthersWork(w) /\ Busy(w)' /\ wreq'[w] = wreq[w]
  BY DEF OthersWork, Busy, MessageInv, Types, WorkTypes, WGoto
<1>2. FewerAsk(NoReq)
  BY NoneSettledHere DEF histVars
<1>3. \A r : r # NoReq /\ r \in AtWorker => r \in AtWorker'
  BY <1>1, WorkerStays
<1>4. OnQueue' = OnQueue
  BY DEF OnQueue
<1> QED
  BY <1>2, <1>3, <1>4, WorkerHalts

LEMMA RepliesHalts ==
  ASSUME MessageInv, HaltInv, NEW w \in Worker, ServeReplies(w) \/ ServeLists(w)
  PROVE  HaltInv'
<1>1. WGoto(w, "serve", "send") /\ UNCHANGED <<sessVars, uq, sq, wreq, histVars>>
  BY DEF ServeReplies, ServeLists
<1>2. wto' = [wto EXCEPT ![w] = Reply(w, "reply")]
  BY <1>1, ListIsReply DEF ServeReplies, ServeLists, WGoto
<1>3. \E i \in DOMAIN Reply(w, "reply") : Reply(w, "reply")[i].kind = "reply"
  BY <1>1, ReplyIs DEF WGoto
<1> QED
  BY <1>1, <1>2, <1>3, AnswersHalts

LEMMA TellsHalts ==
  ASSUME MessageInv, HaltInv, NEW w \in Worker, NEW a \in Pxid, NEW b \in Pxid,
         ServeTells(w, a, b)
  PROVE  HaltInv'
<1>1. WGoto(w, "serve", "send") /\ wpc[w] = "serve" /\ wto' = [wto EXCEPT ![w] = Told(w, a, b)]
  BY DEF ServeTells, WGoto, Told
<1>2. UNCHANGED <<sessVars, uq, sq, wreq, histVars>>
  BY DEF ServeTells
<1>3. \E i \in DOMAIN Told(w, a, b) : Told(w, a, b)[i].kind = "reply"
  BY <1>1, ToldIs
<1> QED
  BY <1>1, <1>2, <1>3, AnswersHalts

LEMMA WorkerConnectsHalts ==
  ASSUME MessageInv, HaltInv, NEW w \in Worker, SendConnects(w) PROVE HaltInv'
<1> USE DEF SendConnects, WGoto
<1> DEFINE p == Dest(w).to
<1>1. OthersWork(w) /\ wto' = wto /\ wreq' = wreq /\ wpc'[w] = "write" /\ wpc[w] = "send"
  BY DEF OthersWork, MessageInv, Types, WorkTypes
<1>2. FewerAsk(NoReq)
  BY NoneSettledHere DEF histVars
<1>3. \A r : r # NoReq /\ r \in AtWorker => r \in AtWorker'
  <2>1. Busy(w) => Busy(w)' /\ wreq'[w] = wreq[w]
    BY <1>1 DEF Busy
  <2> QED
    BY <1>1, <2>1, WorkerStays
<1>4. OnQueue \subseteq OnQueue'
  <2>1. p \in Pxid /\ uq[p] \in Seq(Conn) /\ uq' = [uq EXCEPT ![p] = Append(@, Opened(w))]
    BY DEF MessageInv, Types, QueueTypes
  <2> HIDE DEF p
  <2>2. uq'[p] = Append(uq[p], Opened(w)) /\ \A o \in Pxid : o # p => uq'[o] = uq[o]
    BY <2>1 DEF MessageInv, Types, QueueTypes
  <2>3. Opened(w) \in Conn
    BY DEF Opened, Conn, Id, NoReq
  <2>4. Carried(uq[p], "reply") \subseteq Carried(uq'[p], "reply")
    BY <2>1, <2>2, <2>3, AppendStays
  <2> QED
    BY <2>2, <2>4, QueuesGrow
<1> QED
  BY <1>2, <1>3, <1>4, WorkerHalts

\* A destination is given up, with the request if it was for the reply.
LEMMA WorkerFailsHalts ==
  ASSUME MessageInv, CallInv, HaltInv, NEW w \in Worker, SendFails(w) \/ SendWriteFails(w)
  PROVE  HaltInv'
<1>0. /\ wpc[w] \in {"send", "write"} /\ SendNext(w) /\ Failed(w)
      /\ UNCHANGED <<sessVars, uq, sq>> /\ UNCHANGED <<gen, by>>
  BY DEF SendFails, SendWriteFails
<1>1. OthersWork(w)
  BY <1>0, NextIs
<1>2. OnQueue' = OnQueue
  BY <1>0 DEF OnQueue
<1>3. CASE Dest(w).kind = "reply"
  <2>1. FewerAsk(wreq[w])
    BY <1>0, <1>3, WorkerDrops DEF Failed
  <2>2. \A r : r # wreq[w] /\ r \in AtWorker => r \in AtWorker'
    BY <1>1, WorkerStays
  <2> QED
    BY <1>0, <1>2, <2>1, <2>2, WorkerHalts
<1>4. CASE Dest(w).kind # "reply"
  <2>1. FewerAsk(NoReq)
    BY <1>0, <1>4, NoneSettledHere DEF Failed
  <2>2. Busy(w) => Busy(w)' /\ wreq'[w] = wreq[w]
    BY <1>0, <1>4, NextIs
  <2>3. \A r : r # NoReq /\ r \in AtWorker => r \in AtWorker'
    BY <1>1, <2>2, WorkerStays
  <2> QED
    BY <1>0, <1>2, <2>1, <2>3, WorkerHalts
<1> QED
  BY <1>3, <1>4

LEMMA WorkerWritesHalts ==
  ASSUME MessageInv, CallInv, HaltInv, NEW w \in Worker, SendWrites(w) PROVE HaltInv'
<1> USE DEF SendWrites
<1> DEFINE p == Dest(w).to
           k == Dest(w).kind
           q == Written(uq[p], w, Dest(w).pxid, k, wreq[w])
<1>0. wpc[w] = "write" /\ SendNext(w) /\ UNCHANGED <<sessVars, sq>>
  OBVIOUS
<1>1. OthersWork(w)
  BY <1>0, NextIs
<1>2. p \in Pxid /\ w \in Openers(uq[p]) /\ uq[p] \in Seq(Conn)
  BY <1>0 DEF MessageInv, WorkerInv, HasOpen, Openers, Types, QueueTypes
<1>3. uq'[p] = q /\ \A o \in Pxid : o # p => uq'[o] = uq[o]
  BY <1>2 DEF MessageInv, Types, QueueTypes
<1>4. Carried(uq[p], "reply") \subseteq Carried(q, "reply") /\ wreq[w] \in Carried(q, k)
  <2> HIDE DEF p, k
  <2> QED
    BY <1>2, WrittenStays
<1> HIDE DEF q
<1>5. OnQueue \subseteq OnQueue'
  BY <1>3, <1>4, QueuesGrow
<1>6. FewerAsk(NoReq)
  BY <1>0, NoneSettledHere DEF histVars
<1>7. \A r \in Req : r # NoReq /\ r \in AtWorker => r \in AtWorker' \/ r \in OnQueue'
  <2>1. CASE k = "reply"
    <3>1. wreq[w] \in OnQueue'
      BY <1>2, <1>3, <1>4, <2>1 DEF OnQueue
    <3>2. \A r : r # wreq[w] /\ r \in AtWorker => r \in AtWorker'
      BY <1>1, WorkerStays
    <3> QED
      BY <3>1, <3>2
  <2>2. CASE k # "reply"
    <3>1. Busy(w) => Busy(w)' /\ wreq'[w] = wreq[w]
      BY <1>0, <2>2, NextIs
    <3> QED
      BY <1>1, <3>1, WorkerStays
  <2> QED
    BY <2>1, <2>2
<1> QED
  BY <1>0, <1>5, <1>6, <1>7, WorkerHalts

LEMMA KilledHalts ==
  ASSUME MessageInv, CallInv, HaltInv, NEW w \in Worker, WorkerKilled(w) PROVE HaltInv'
<1> USE DEF WorkerKilled
<1>1. OthersWork(w)
  BY DEF OthersWork
<1>2. FewerAsk(wreq[w])
  BY WorkerDrops
<1>3. \A r : r # wreq[w] /\ r \in AtWorker => r \in AtWorker'
  BY <1>1, WorkerStays
<1>4. OnQueue \subseteq OnQueue'
  <2>1. ASSUME NEW p \in Pxid
        PROVE  Carried(uq[p], "reply") \subseteq Carried(uq'[p], "reply")
    <3>1. uq'[p] = Cut(uq[p], w) /\ uq[p] \in Seq(Conn) /\ Neat(uq[p], "reply")
      BY DEF MessageInv, Types, QueueTypes, CallInv, QueuesNeat
    <3> QED
      BY <3>1, NeatCut
  <2> QED
    BY <2>1, QueuesGrow
<1> QED
  BY <1>2, <1>3, <1>4, WorkerHalts

-----------------------------------------------------------------------------
(* All steps, and the halt.                                                *)

LEMMA HaltInit == Init => HaltInv
<1> SUFFICES ASSUME Init PROVE HaltInv
  OBVIOUS
<1>1. LinkInv
  BY DEF Init, LinkInv, Nothing
<1>2. ByInv /\ KeptInv
  BY DEF Init, ByInv, KeptInv, Asking
<1> QED
  BY <1>1, <1>2 DEF HaltInv

LEMMA SessionRunHalts ==
  ASSUME MessageInv, HaltInv, NEW p \in Pxid, SessionRun(p) PROVE HaltInv'
<1>1. CASE SessionReadsEnd(p) \/ SessionReceivesEnd(p)
           \/ SessionDeliverFails(p) \/ SessionPolledTwice(p)
  <2>1. /\ End(p) /\ uq' = [uq EXCEPT ![p] = <<>>]
        /\ UNCHANGED <<sq, workVars, histVars, kills, logoffs>>
    BY <1>1 DEF SessionReadsEnd, SessionReceivesEnd, SessionDeliverFails, SessionPolledTwice
  <2> QED
    BY <2>1, EndHalts
<1> QED
  BY <1>1, ConnectsHalts, SendFailsHalts, WritesHalts, ReceivesHalts, DeliversHalts,
     PollsHalts DEF SessionRun

LEMMA WorkerRunHalts ==
  ASSUME MessageInv, CallInv, HaltInv, NEW w \in Worker, WorkerRun(w) PROVE HaltInv'
BY TakesHalts, FailsHalts, RepliesHalts, TellsHalts, WorkerConnectsHalts,
   WorkerFailsHalts, WorkerWritesHalts DEF WorkerRun

LEMMA StutterHalts == ASSUME HaltInv, UNCHANGED vars PROVE HaltInv'
<1>1. LinkInv'
  BY LinkKept DEF HaltInv, vars, sessVars
<1>2. ByInv'
  BY DEF HaltInv, ByInv, vars, histVars
<1>3. \A r : Somewhere(r)' <=> Somewhere(r)
  BY DEF Somewhere, InSession, OnServer, AtWorker, OnQueue, InHand, Busy, vars, sessVars,
         workVars
<1>4. KeptInv'
  BY <1>3 DEF HaltInv, KeptInv, Asking, On, vars, sessVars, histVars
<1> QED
  BY <1>1, <1>2, <1>4 DEF HaltInv

LEMMA HaltStep == MessageInv /\ CallInv /\ HaltInv /\ [Next]_vars => HaltInv'
<1> SUFFICES ASSUME MessageInv, CallInv, HaltInv, [Next]_vars PROVE HaltInv'
  OBVIOUS
<1>1. CASE \E p \in Pxid : SessionRun(p)
  BY <1>1, SessionRunHalts
<1>2. CASE \E p \in Pxid : SessionStart(p) \/ SessionReadsPoll(p) \/ ClientReads(p) \/ Logoff(p)
  BY <1>2, StartHalts, PollsHalts, LogoffHalts
<1>3. CASE \E p \in Pxid : \E r \in NextReq : SessionReads(p, r)
  BY <1>3, ReadsHalts
<1>4. CASE \E p \in Pxid : \E m \in Moods : ClientTurns(p, m)
  BY <1>4, PollsHalts
<1>5. CASE \E w \in Worker : WorkerRun(w) \/ WorkerKilled(w)
  BY <1>5, WorkerRunHalts, KilledHalts
<1>6. CASE UNCHANGED vars
  BY <1>6, StutterHalts
<1> QED
  BY <1>1, <1>2, <1>3, <1>4, <1>5, <1>6 DEF Next

\* Where nothing moves, all that is on a queue was written.
LEMMA HaltedQueues ==
  ASSUME MessageInv, CallInv, HaltInv,
         \A p \in Pxid : ~SessionCanMove(p), \A w \in Worker : ~WorkerCanMove(w)
  PROVE  /\ \A i \in DOMAIN sq : sq[i].st = "sent"
         /\ \A p \in Pxid : uq[p] # <<>> => Ready(uq[p])
<1>1. \A p \in Pxid : spc[p] # "write"
  BY DEF SessionCanMove
<1>2. \A w \in Worker : wpc[w] # "write"
  BY DEF WorkerCanMove
<1>3. Openers(sq) = {} /\ sq \in Seq(Conn)
  BY <1>1 DEF CallInv, ServerNeat, MessageInv, Types, QueueTypes
<1>4. ASSUME NEW i \in DOMAIN sq PROVE sq[i].st = "sent"
  <2>1. sq[i] \in Conn
    BY <1>3, ElementsIn
  <2>2. sq[i].st \in {"open", "sent", "cut"}
    BY <2>1 DEF Conn
  <2> QED
    BY <1>3, <2>2 DEF Openers, HaltInv, LinkInv
<1>5. ASSUME NEW p \in Pxid, uq[p] # <<>> PROVE Ready(uq[p])
  <2>1. Openers(uq[p]) = {} /\ uq[p] \in Seq(Conn)
    BY <1>2 DEF CallInv, QueuesNeat, MessageInv, Types, QueueTypes
  <2>2. Head(uq[p]) = uq[p][1] /\ 1 \in DOMAIN uq[p]
    BY <1>5, <2>1, TailIs
  <2> QED
    BY <1>5, <2>1, <2>2 DEF Openers, Ready
<1> QED
  BY <1>4, <1>5

LEMMA HaltsFrom == MessageInv /\ CallInv /\ HaltInv => HaltsInCircle
<1> SUFFICES ASSUME MessageInv, CallInv, HaltInv,
                    \A p \in Pxid : ~SessionCanMove(p), \A w \in Worker : ~WorkerCanMove(w)
             PROVE  CircularWait \/ \A r \in Req : ~Asking(r)
  BY DEF HaltsInCircle
<1> USE DEF SessionCanMove, WorkerCanMove
<1>1. /\ \A i \in DOMAIN sq : sq[i].st = "sent"
      /\ \A p \in Pxid : uq[p] # <<>> => Ready(uq[p])
  BY HaltedQueues
<1>2. /\ spc \in [Pxid -> {"off", "wait", "conn", "write", "out", "poll"}]
      /\ wpc \in [Worker -> {"idle", "serve", "send", "write"}]
      /\ sq \in Seq(Conn) /\ uq \in [Pxid -> Seq(Conn)]
  BY DEF MessageInv, Types, SessionTypes, WorkTypes, QueueTypes
\* A session that is not gone waits for the server, or has nothing on its queue.
<1>3. \A p \in Pxid : On(p) => spc[p] = "conn" \/ uq[p] = <<>>
  BY <1>1, <1>2 DEF On
\* A worker that sends waits for a session that waits for the server.
<1>4. ASSUME NEW w \in Worker, wpc[w] = "send"
      PROVE  Dest(w).to \in Pxid /\ spc[Dest(w).to] = "conn" /\ Len(uq[Dest(w).to]) >= Room
  <2> DEFINE p == Dest(w).to
  <2>1. p \in Pxid /\ On(p) /\ ~(Len(uq[p]) < Room)
    BY <1>4
  <2> HIDE DEF p
  <2>2. Len(uq[p]) \in Nat /\ Room \in Nat \ {0} /\ uq[p] \in Seq(Conn)
    BY <1>2, <2>1, MessageAssumption
  <2>3. uq[p] # <<>> /\ Len(uq[p]) >= Room
    BY <2>1, <2>2
  <2> QED
    BY <1>3, <2>1, <2>3 DEF p
<1>5. CASE sq # <<>>
  <2>1. 1 \in Done(sq) /\ sq[1].st = "sent"
    BY <1>1, <1>2, <1>5 DEF Done
  <2>2. \A w \in Worker : wpc[w] = "send"
    BY <1>2, <2>1
  <2>3. CircularWait
    BY <1>4, <2>2 DEF CircularWait
  <2> QED
    BY <2>3
<1>6. CASE sq = <<>>
  <2>1. \A p \in Pxid : spc[p] # "conn"
    BY <1>6, MessageAssumption
  <2>2. \A w \in Worker : wpc[w] = "idle"
    BY <1>2, <1>4, <2>1
  <2>3. AtWorker = {} /\ OnServer = {} /\ InSession = {}
    <3>1. \A w \in Worker : ~Busy(w)
      BY <2>2 DEF Busy, MessageInv, Types, WorkTypes
    <3> QED
      BY <1>6, <2>1, <3>1 DEF AtWorker, OnServer, InSession, Carried
  <2>4. InHand = {}
    BY DEF InHand, HaltInv, LinkInv
  <2>5. ASSUME NEW r \in Req, Asking(r) PROVE FALSE
    <3>1. r \in OnQueue
      BY <2>3, <2>4, <2>5 DEF HaltInv, KeptInv, Somewhere
    <3>2. PICK p \in Pxid : r \in Carried(uq[p], "reply")
      BY <3>1 DEF OnQueue
    <3>3. PICK i \in DOMAIN uq[p] : Carries(uq[p][i], "reply") /\ uq[p][i].req = r
      BY <3>2 DEF Carried
    <3>4. by[r].id = p
      BY <3>3 DEF Carries, MessageInv, QueueInv, AskedBy
    <3>5. On(p) /\ uq[p] # <<>>
      BY <2>5, <3>3, <3>4 DEF Asking
    <3> QED
      BY <1>3, <2>1, <3>5
  <2> QED
    BY <2>5
<1> QED
  BY <1>5, <1>6

\* What stops is a circle: when no session and no worker can go on, nobody waits
\* for an answer, or every worker waits for room on the queue of a session that
\* waits for room on the server's.  So nothing that was asked is lost in between,
\* whatever was refused, killed, cut off or given to another client meanwhile, for
\* queues of any size and any number of sessions and workers.
THEOREM StopsInCircle == Spec => []HaltsInCircle
<1> QED
  BY MessageInit, MessageStep, CallInit, CallStep, HaltInit, HaltStep, HaltsFrom,
     PTL DEF Spec
=============================================================================
