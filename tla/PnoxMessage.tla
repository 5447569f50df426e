----------------------------- MODULE PnoxMessage -----------------------------
(***************************************************************************)
(* Transactions: a session thread of pnoxsca passes its client's requests  *)
(* to the queue of a server built on tpsmain.c; the server's workers take  *)
(* them, call the application, and send replies and notices to the queues  *)
(* u<pxid> of sessions, which pass them on to their clients.               *)
(*                                                                         *)
(* A message is a connection: connect, which blocks while the listener's   *)
(* backlog is full, write, close.  A listener takes the first connection   *)
(* and reads to its end.  Neither side knows whether the other still lives,*)
(* and an id is given to a new client when its session has ended.          *)
(***************************************************************************)
EXTENDS Integers, Sequences, SequencesExt

CONSTANTS
  Pxid,       \* session ids
  NoPxid,     \* 0, and other numbers no session has
  Worker,     \* workers of the server
  Room,       \* connections on a listener, the accepted one included, at
              \* which connect blocks
  OutRoom,    \* messages a client connection holds before write fails
  MaxReq,     \* bound: requests clients send
  MaxGen,     \* bound: clients that get the same id, one after another
  MaxKill,    \* bound: workers killed
  MaxLogoff,  \* bound: pxlogoff messages operators send
  Polling,    \* bound: whether the ten seconds of a select ever pass
  Outcomes,   \* what the application does: see ServeFails ... ServeTells
  Moods       \* what clients may turn to: "silent", "left"

ASSUME MessageAssumption ==
  /\ NoPxid \notin Pxid
  /\ Room \in Nat \ {0}
  /\ OutRoom \in Nat \ {0}
  /\ MaxReq \in Nat
  /\ MaxGen \in Nat
  /\ MaxKill \in Nat
  /\ MaxLogoff \in Nat
  /\ Polling \in BOOLEAN
  /\ Outcomes \subseteq {"reply", "list", "tell", "fail", "nosuch"}
  /\ Moods \subseteq {"silent", "left"}

Req == 1 .. MaxReq
Id == Pxid \union {NoPxid}
NoReq == 0

VARIABLES
  spc,      \* where each session thread is
  hid,      \* tHandle.pxid of the session
  pollf,    \* poll_f: a poll is unanswered
  client,   \* the client on the other end
  out,      \* messages in the client connection, unread
  sreq,     \* the request the session is sending
  held,     \* the message it is passing to its client
  uq,       \* connections on each session's queue
  sq,       \* connections on the server's queue
  wpc,      \* where each worker is
  wpxid,    \* tHandle.pxid of the worker
  wulst,    \* tHandle.ulst, as long as tHandle.nusr says
  wto,      \* what it has still to send
  wreq,     \* the request it works on
  gen,      \* history: how many clients have had the id
  by,       \* history: the id and client a request came from
  fate,     \* history: what became of a request
  got,      \* history: which clients were sent replies to which requests
  kills,
  logoffs

sessVars == <<spc, hid, pollf, client, out, sreq, held>>
workVars == <<wpc, wpxid, wulst, wto, wreq>>
histVars == <<gen, by, fate, got>>
vars == <<sessVars, uq, sq, workVars, histVars, kills, logoffs>>

-----------------------------------------------------------------------------
\* A connection: who made it, the header, and whether it was written ("sent"),
\* not yet ("open"), or closed without ("cut").
Conn == [from : Id \union Worker, pxid : Id, kind : {"ask", "reply", "note",
         "logoff", "none"}, req : Req \union {NoReq}, st : {"open", "sent", "cut"}]

Nothing ==
  [from |-> NoPxid, pxid |-> NoPxid, kind |-> "none", req |-> NoReq, st |-> "sent"]
Opened(f) ==
  [from |-> f, pxid |-> NoPxid, kind |-> "none", req |-> NoReq, st |-> "open"]

\* f's open connection in q is written, or closed.
Written(q, f, p, k, r) ==
  [i \in DOMAIN q |->
     IF q[i].from = f /\ q[i].st = "open"
     THEN [from |-> f, pxid |-> p, kind |-> k, req |-> r, st |-> "sent"]
     ELSE q[i]]
Cut(q, f) ==
  [i \in DOMAIN q |->
     IF q[i].from = f /\ q[i].st = "open" THEN [q[i] EXCEPT !.st = "cut"]
     ELSE q[i]]
HasOpen(q, f) == \E i \in DOMAIN q : q[i].from = f /\ q[i].st = "open"

\* pxrecv waits for the writer of the connection it accepted; with several
\* readers those before this one are in the others' hands.
Ready(q) == q # <<>> /\ Head(q).st # "open"
Done(q) ==
  {i \in DOMAIN q : q[i].st # "open" /\ \A j \in 1 .. i - 1 : q[j].st = "open"}

Send == [to : Id, pxid : Id, kind : {"reply", "note"}]
On(p) == spc[p] # "off"

Init ==
  /\ spc = [p \in Pxid |-> "off"]
  /\ hid = [p \in Pxid |-> NoPxid]
  /\ pollf = [p \in Pxid |-> FALSE]
  /\ client = [p \in Pxid |-> "none"]
  /\ out = [p \in Pxid |-> 0]
  /\ sreq = [p \in Pxid |-> NoReq]
  /\ held = [p \in Pxid |-> Nothing]
  /\ uq = [p \in Pxid |-> <<>>]
  /\ sq = <<>>
  /\ wpc = [w \in Worker |-> "idle"]
  /\ wpxid = [w \in Worker |-> NoPxid]
  /\ wulst = [w \in Worker |-> <<>>]
  /\ wto = [w \in Worker |-> <<>>]
  /\ wreq = [w \in Worker |-> NoReq]
  /\ gen = [p \in Pxid |-> 0]
  /\ by = [r \in Req |-> [id |-> NoPxid, gen |-> 0]]
  /\ fate = [r \in Req |-> "new"]
  /\ got = <<>>
  /\ kills = 0
  /\ logoffs = 0

-----------------------------------------------------------------------------
(* The session thread: exec_thread's loop, service_user, service_svr,      *)
(* service_poll.  How it comes and goes is in PnoxSession.                 *)

Goto(p, from, to) == spc[p] = from /\ spc' = [spc EXCEPT ![p] = to]

\* The next client that is given the id.
SessionStart(p) ==
  /\ gen[p] < MaxGen
  /\ Goto(p, "off", "wait")
  /\ hid' = [hid EXCEPT ![p] = p]
  /\ client' = [client EXCEPT ![p] = "here"]
  /\ gen' = [gen EXCEPT ![p] = @ + 1]
  /\ UNCHANGED <<pollf, out, sreq, held, uq, sq, workVars, by, fate, got, kills,
                 logoffs>>

\* The thread ends; pxclose closes its queue, with all that is on it.
End(p) ==
  /\ spc' = [spc EXCEPT ![p] = "off"]
  /\ hid' = [hid EXCEPT ![p] = NoPxid]
  /\ pollf' = [pollf EXCEPT ![p] = FALSE]
  /\ client' = [client EXCEPT ![p] = "none"]
  /\ out' = [out EXCEPT ![p] = 0]
  /\ sreq' = [sreq EXCEPT ![p] = NoReq]
  /\ held' = [held EXCEPT ![p] = Nothing]

\* service_user reads a request.
NextReq == {r \in Req : fate[r] = "new" /\ \A s \in Req : fate[s] = "new" => r <= s}

SessionReads(p, r) ==
  /\ Goto(p, "wait", "conn")
  /\ client[p] = "here"
  /\ sreq' = [sreq EXCEPT ![p] = r]
  /\ by' = [by EXCEPT ![r] = [id |-> p, gen |-> gen[p]]]
  /\ fate' = [fate EXCEPT ![r] = "asked"]
  /\ pollf' = [pollf EXCEPT ![p] = FALSE]
  /\ UNCHANGED <<hid, client, out, held, uq, sq, workVars, gen, got, kills,
                 logoffs>>

\* It reads the answer to a poll.
SessionReadsPoll(p) ==
  /\ spc[p] = "wait" /\ client[p] = "here" /\ pollf[p]
  /\ pollf' = [pollf EXCEPT ![p] = FALSE]
  /\ UNCHANGED <<spc, hid, client, out, sreq, held, uq, sq, workVars, histVars,
                 kills, logoffs>>

\* It reads that the client has left.
SessionReadsEnd(p) ==
  /\ spc[p] = "wait" /\ client[p] = "left"
  /\ End(p)
  /\ uq' = [uq EXCEPT ![p] = <<>>]
  /\ UNCHANGED <<sq, workVars, histVars, kills, logoffs>>

Settle(r, f) == fate' = IF r = NoReq THEN fate ELSE [fate EXCEPT ![r] = f]

\* pxsend to the server: connect, blocking, ...
SessionConnects(p) ==
  /\ Goto(p, "conn", "write")
  /\ Len(sq) < Room
  /\ sq' = Append(sq, Opened(p))
  /\ UNCHANGED <<hid, pollf, client, out, sreq, held, uq, workVars, histVars,
                 kills, logoffs>>

\* No server has a queue of that name: the failure is logged, and that is all.
SessionSendFails(p) ==
  /\ "nosuch" \in Outcomes
  /\ Goto(p, "conn", "wait")
  /\ sreq' = [sreq EXCEPT ![p] = NoReq]
  /\ Settle(sreq[p], "dropped")
  /\ UNCHANGED <<hid, pollf, client, out, held, uq, sq, workVars, gen, by, got,
                 kills, logoffs>>

\* ... then write, with the handle's id in the header, and close.
SessionWrites(p) ==
  /\ Goto(p, "write", "wait")
  /\ sq' = Written(sq, p, hid[p], "ask", sreq[p])
  /\ sreq' = [sreq EXCEPT ![p] = NoReq]
  /\ UNCHANGED <<hid, pollf, client, out, held, uq, workVars, histVars, kills,
                 logoffs>>

\* service_svr: pxrecv puts the header's id into the handle.
SessionReceives(p) ==
  /\ Ready(uq[p]) /\ Head(uq[p]).st = "sent" /\ Head(uq[p]).kind # "logoff"
  /\ Goto(p, "wait", "out")
  /\ hid' = [hid EXCEPT ![p] = Head(uq[p]).pxid]
  /\ held' = [held EXCEPT ![p] = Head(uq[p])]
  /\ uq' = [uq EXCEPT ![p] = Tail(@)]
  /\ pollf' = [pollf EXCEPT ![p] = FALSE]
  /\ UNCHANGED <<client, out, sreq, sq, workVars, histVars, kills, logoffs>>

\* pxrecv fails on a connection that was closed too soon, and the session ends;
\* or it is pxlogoff.
SessionReceivesEnd(p) ==
  /\ spc[p] = "wait" /\ Ready(uq[p])
  /\ Head(uq[p]).st = "cut" \/ Head(uq[p]).kind = "logoff"
  /\ End(p)
  /\ uq' = [uq EXCEPT ![p] = <<>>]
  /\ UNCHANGED <<sq, workVars, histVars, kills, logoffs>>

\* The write to the client goes through ...
SessionDelivers(p) ==
  /\ Goto(p, "out", "wait")
  /\ client[p] # "left" /\ out[p] < OutRoom
  /\ out' = [out EXCEPT ![p] = @ + 1]
  /\ IF held[p].kind = "reply"
     THEN /\ got' = Append(got, [req |-> held[p].req, id |-> p, gen |-> gen[p]])
          /\ Settle(held[p].req, "answered")
     ELSE UNCHANGED <<got, fate>>
  /\ held' = [held EXCEPT ![p] = Nothing]
  /\ UNCHANGED <<hid, pollf, client, sreq, uq, sq, workVars, gen, by, kills,
                 logoffs>>

\* ... or fails: the client has left, or has not read what it was sent before.
\* pxrcvfd has made the socket one that does not block.
SessionDeliverFails(p) ==
  /\ spc[p] = "out"
  /\ client[p] = "left" \/ out[p] >= OutRoom
  /\ End(p)
  /\ uq' = [uq EXCEPT ![p] = <<>>]
  /\ UNCHANGED <<sq, workVars, histVars, kills, logoffs>>

\* select times out after ten seconds: a client that is there has answered the
\* last poll by then.
SessionPolls(p) ==
  /\ Polling /\ uq[p] = <<>>
  /\ client[p] = "silent" \/ (client[p] = "here" /\ ~pollf[p])
  /\ Goto(p, "wait", "poll")
  /\ UNCHANGED <<hid, pollf, client, out, sreq, held, uq, sq, workVars, histVars,
                 kills, logoffs>>

\* Wrong variant: poll_f is not set.
SessionPolledForgets(p) ==
  /\ ~pollf[p]
  /\ Goto(p, "poll", "wait")
  /\ UNCHANGED <<hid, pollf, client, out, sreq, held, uq, sq, workVars, histVars,
                 kills, logoffs>>

\* The poll is written, or not, which is all the same; the second one without
\* an answer ends the session.
SessionPolled(p) ==
  /\ ~pollf[p]
  /\ Goto(p, "poll", "wait")
  /\ pollf' = [pollf EXCEPT ![p] = TRUE]
  /\ UNCHANGED <<hid, client, out, sreq, held, uq, sq, workVars, histVars, kills,
                 logoffs>>

SessionPolledTwice(p) ==
  /\ spc[p] = "poll" /\ pollf[p]
  /\ End(p)
  /\ uq' = [uq EXCEPT ![p] = <<>>]
  /\ UNCHANGED <<sq, workVars, histVars, kills, logoffs>>

SessionRun(p) ==
  \/ SessionReadsEnd(p) \/ SessionConnects(p) \/ SessionSendFails(p) \/ SessionWrites(p)
  \/ SessionReceives(p) \/ SessionReceivesEnd(p)
  \/ SessionDelivers(p) \/ SessionDeliverFails(p)
  \/ SessionPolls(p) \/ SessionPolled(p) \/ SessionPolledTwice(p)

-----------------------------------------------------------------------------
(* Clients and operators.                                                  *)

ClientTurns(p, m) ==
  /\ client[p] = "here"
  /\ client' = [client EXCEPT ![p] = m]
  /\ UNCHANGED <<spc, hid, pollf, out, sreq, held, uq, sq, workVars, histVars,
                 kills, logoffs>>

ClientReads(p) ==
  /\ client[p] = "here" /\ out[p] > 0
  /\ out' = [out EXCEPT ![p] = @ - 1]
  /\ UNCHANGED <<spc, hid, pollf, client, sreq, held, uq, sq, workVars, histVars,
                 kills, logoffs>>

\* pxlogout(p).
Logoff(p) ==
  /\ logoffs < MaxLogoff /\ logoffs' = logoffs + 1
  /\ On(p) /\ Len(uq[p]) < Room
  /\ uq' = [uq EXCEPT ![p] =
              Append(@, [Opened(NoPxid) EXCEPT !.pxid = p, !.kind = "logoff",
                                               !.st = "sent"])]
  /\ UNCHANGED <<sessVars, sq, workVars, histVars, kills>>

-----------------------------------------------------------------------------
(* A worker: the loop of tpsmain.c.                                        *)

WGoto(w, from, to) == wpc[w] = from /\ wpc' = [wpc EXCEPT ![w] = to]

\* Wrong variant: tHandle.nusr is not set back to 0.
WorkerTakesKeepsList(w, i) ==
  /\ sq[i].st = "sent"
  /\ WGoto(w, "idle", "serve")
  /\ sq' = RemoveAt(sq, i)
  /\ wpxid' = [wpxid EXCEPT ![w] = sq[i].pxid]
  /\ wreq' = [wreq EXCEPT ![w] = sq[i].req]
  /\ UNCHANGED <<sessVars, uq, wulst, wto, histVars, kills, logoffs>>

\* pxrecv, by whichever worker accepts first; nusr was set to 0 before.
WorkerTakes(w, i) ==
  /\ sq[i].st = "sent"
  /\ WGoto(w, "idle", "serve")
  /\ sq' = RemoveAt(sq, i)
  /\ wpxid' = [wpxid EXCEPT ![w] = sq[i].pxid]
  /\ wulst' = [wulst EXCEPT ![w] = <<>>]
  /\ wreq' = [wreq EXCEPT ![w] = sq[i].req]
  /\ UNCHANGED <<sessVars, uq, wto, histVars, kills, logoffs>>

\* Wrong variant: pxsend to a list leaves the handle's id in the header.
MultiStale(w, list, kind) ==
  [i \in DOMAIN list |-> [to |-> list[i], pxid |-> wpxid[w], kind |-> kind]]

\* pxsend puts each id of the list into the handle, and so into the header.
Multi(w, list, kind) ==
  [i \in DOMAIN list |-> [to |-> list[i], pxid |-> list[i], kind |-> kind]]

\* tpsmain sends to u<pxid>, or to the handle's list if there is one.
Reply(w, kind) ==
  IF wulst[w] = <<>>
  THEN <<[to |-> wpxid[w], pxid |-> wpxid[w], kind |-> kind]>>
  ELSE Multi(w, wulst[w], kind)

\* The application refuses the message: no reply.
ServeFails(w) ==
  /\ "fail" \in Outcomes
  /\ WGoto(w, "serve", "idle")
  /\ wreq' = [wreq EXCEPT ![w] = NoReq]
  /\ Settle(wreq[w], "dropped")
  /\ UNCHANGED <<sessVars, uq, sq, wpxid, wulst, wto, gen, by, got, kills,
                 logoffs>>

\* Wrong variant: the application sends the reply itself, and tpsmain again.
ServeRepliesTwice(w) ==
  /\ "reply" \in Outcomes
  /\ WGoto(w, "serve", "send")
  /\ wto' = [wto EXCEPT ![w] = Reply(w, "reply") \o Reply(w, "reply")]
  /\ UNCHANGED <<sessVars, uq, sq, wpxid, wulst, wreq, histVars, kills, logoffs>>

ServeReplies(w) ==
  /\ "reply" \in Outcomes
  /\ WGoto(w, "serve", "send")
  /\ wto' = [wto EXCEPT ![w] = Reply(w, "reply")]
  /\ UNCHANGED <<sessVars, uq, sq, wpxid, wulst, wreq, histVars, kills, logoffs>>

\* It has the reply sent to a list, with the asker alone: it sets tHandle.nusr
\* and ulst, and the list stays on the worker's handle.
ServeLists(w) ==
  /\ "list" \in Outcomes
  /\ WGoto(w, "serve", "send")
  /\ wulst' = [wulst EXCEPT ![w] = <<wpxid[w]>>]
  /\ wto' = [wto EXCEPT ![w] = Multi(w, <<wpxid[w]>>, "reply")]
  /\ UNCHANGED <<sessVars, uq, sq, wpxid, wreq, histVars, kills, logoffs>>

\* It tells others something, with a handle of its own, and lets tpsmain reply.
ServeTells(w, a, b) ==
  /\ "tell" \in Outcomes
  /\ WGoto(w, "serve", "send")
  /\ wto' = [wto EXCEPT ![w] = Multi(w, <<a, b>>, "note") \o Reply(w, "reply")]
  /\ UNCHANGED <<sessVars, uq, sq, wpxid, wulst, wreq, histVars, kills, logoffs>>

\* The destination is done with, well or badly; pxsend goes on to the next.
SendNext(w) ==
  LET rest == Tail(wto[w])
  IN  /\ wto' = [wto EXCEPT ![w] = rest]
      /\ wpc' = [wpc EXCEPT ![w] = IF rest = <<>> THEN "idle" ELSE "send"]
      /\ wreq' = [wreq EXCEPT ![w] = IF rest = <<>> THEN NoReq ELSE @]

Dest(w) == Head(wto[w])
Failed(w) == IF Dest(w).kind = "reply" THEN Settle(wreq[w], "dropped")
             ELSE UNCHANGED fate

\* connect, blocking, to the queue of a session that is there ...
SendConnects(w) ==
  /\ WGoto(w, "send", "write")
  /\ Dest(w).to \in Pxid /\ On(Dest(w).to) /\ Len(uq[Dest(w).to]) < Room
  /\ uq' = [uq EXCEPT ![Dest(w).to] = Append(@, Opened(w))]
  /\ UNCHANGED <<sessVars, sq, wpxid, wulst, wto, wreq, histVars, kills, logoffs>>

\* Wrong variant: tries again until the name is there.
SendFailsRetries(w) ==
  /\ wpc[w] = "send"
  /\ Dest(w).to \in Pxid => ~On(Dest(w).to)
  /\ UNCHANGED vars

\* Wrong variant: the rest of the list is given up with it.
SendFailsGivesUp(w) ==
  /\ wpc[w] = "send"
  /\ Dest(w).to \in Pxid => ~On(Dest(w).to)
  /\ wpc' = [wpc EXCEPT ![w] = "idle"]
  /\ wto' = [wto EXCEPT ![w] = <<>>]
  /\ wreq' = [wreq EXCEPT ![w] = NoReq]
  /\ Failed(w)
  /\ UNCHANGED <<sessVars, uq, sq, wpxid, wulst, gen, by, got, kills, logoffs>>

\* ... or to a name that is not there.
SendFails(w) ==
  /\ wpc[w] = "send"
  /\ Dest(w).to \in Pxid => ~On(Dest(w).to)
  /\ SendNext(w)
  /\ Failed(w)
  /\ UNCHANGED <<sessVars, uq, sq, wpxid, wulst, gen, by, got, kills, logoffs>>

\* write and close.
SendWrites(w) ==
  /\ wpc[w] = "write" /\ HasOpen(uq[Dest(w).to], w)
  /\ uq' = [uq EXCEPT ![Dest(w).to] =
              Written(@, w, Dest(w).pxid, Dest(w).kind, wreq[w])]
  /\ SendNext(w)
  /\ UNCHANGED <<sessVars, sq, wpxid, wulst, histVars, kills, logoffs>>

\* The session ended after the connect.
SendWriteFails(w) ==
  /\ wpc[w] = "write" /\ ~HasOpen(uq[Dest(w).to], w)
  /\ SendNext(w)
  /\ Failed(w)
  /\ UNCHANGED <<sessVars, uq, sq, wpxid, wulst, gen, by, got, kills, logoffs>>

\* A worker is killed; its parent forks another (PnoxDaemon).
WorkerKilled(w) ==
  /\ wpc[w] # "idle"
  /\ kills < MaxKill /\ kills' = kills + 1
  /\ wpc' = [wpc EXCEPT ![w] = "idle"]
  /\ wpxid' = [wpxid EXCEPT ![w] = NoPxid]
  /\ wulst' = [wulst EXCEPT ![w] = <<>>]
  /\ wto' = [wto EXCEPT ![w] = <<>>]
  /\ wreq' = [wreq EXCEPT ![w] = NoReq]
  /\ uq' = [p \in Pxid |-> Cut(uq[p], w)]
  /\ Settle(wreq[w], "dropped")
  /\ UNCHANGED <<sessVars, sq, gen, by, got, logoffs>>

WorkerRun(w) ==
  \/ \E i \in Done(sq) : WorkerTakes(w, i)
  \/ ServeFails(w) \/ ServeReplies(w) \/ ServeLists(w)
  \/ \E a, b \in Pxid : a # b /\ ServeTells(w, a, b)
  \/ SendConnects(w) \/ SendFails(w) \/ SendWrites(w) \/ SendWriteFails(w)

-----------------------------------------------------------------------------
Next ==
  \/ \E p \in Pxid :
       \/ SessionRun(p)
       \/ SessionStart(p) \/ SessionReadsPoll(p)
       \/ \E r \in NextReq : SessionReads(p, r)
       \/ \E m \in Moods : ClientTurns(p, m)
       \/ ClientReads(p) \/ Logoff(p)
  \/ \E w \in Worker : WorkerRun(w) \/ WorkerKilled(w)

Spec == Init /\ [][Next]_vars

\* Threads and workers that can run do run, and a client that is there reads
\* what it is sent and answers polls.
FairSpec ==
  /\ Spec
  /\ \A p \in Pxid :
       WF_vars(SessionRun(p)) /\ WF_vars(ClientReads(p))
       /\ WF_vars(SessionReadsPoll(p))
  /\ \A w \in Worker : WF_vars(WorkerRun(w))

-----------------------------------------------------------------------------
(* Properties.                                                             *)

\* Every variable has its type, no queue is over its limit, and a worker that
\* is back at its queue has tried every destination of its list.
TypeOK ==
  /\ spc \in [Pxid -> {"off", "wait", "conn", "write", "out", "poll"}]
  /\ hid \in [Pxid -> Id]
  /\ pollf \in [Pxid -> BOOLEAN]
  /\ client \in [Pxid -> {"none", "here", "silent", "left"}]
  /\ out \in [Pxid -> 0 .. OutRoom]
  /\ sreq \in [Pxid -> Req \union {NoReq}]
  /\ held \in [Pxid -> Conn]
  /\ uq \in [Pxid -> Seq(Conn)] /\ \A p \in Pxid : Len(uq[p]) <= Room
  /\ sq \in Seq(Conn) /\ Len(sq) <= Room
  /\ wpc \in [Worker -> {"idle", "serve", "send", "write"}]
  /\ wpxid \in [Worker -> Id]
  /\ wulst \in [Worker -> Seq(Id)]
  /\ wto \in [Worker -> Seq(Send)]
  /\ \A w \in Worker : wpc[w] \in {"idle", "serve"} <=> wto[w] = <<>>
  /\ wreq \in [Worker -> Req \union {NoReq}]
  /\ gen \in [Pxid -> 0 .. MaxGen]
  /\ by \in [Req -> [id : Id, gen : 0 .. MaxGen]]
  /\ fate \in [Req -> {"new", "asked", "answered", "dropped"}]
  /\ got \in Seq([req : Req, id : Pxid, gen : 0 .. MaxGen])
  /\ kills \in 0 .. MaxKill
  /\ logoffs \in 0 .. MaxLogoff

\* Queues, workers and session threads keep what PnoxCalls promises: a request is
\* answered once at most, to the client that has the asker's id by then, and
\* not after it was dropped.
Calls == INSTANCE PnoxCalls WITH here <- {p \in Pxid : On(p)}
CallsPromise == Calls!Spec

\* A reply goes to the client that asked, or to one that got its id after it:
\* never to a client with another id, whatever lists and notices a worker sent
\* before.
RepliesToAsker ==
  \A i \in DOMAIN got :
    LET d == got[i] IN by[d.req].id = d.id /\ by[d.req].gen <= d.gen

\* pxrecv overwrites the session's own id with the one in the header, and that
\* is the same id as long as the session lasts: its requests, its counters and
\* its log are its own.
SessionKeepsId == \A p \in Pxid : On(p) => hid[p] = p

\* Every worker waits for room on the queue of a session that itself waits for
\* room on the server's queue.
CircularWait ==
  \A w \in Worker :
    /\ wpc[w] = "send" /\ Dest(w).to \in Pxid
    /\ spc[Dest(w).to] = "conn" /\ Len(uq[Dest(w).to]) >= Room

Asking(r) ==
  /\ fate[r] = "asked"
  /\ On(by[r].id) /\ gen[by[r].id] = by[r].gen

\* What a session and a worker can go on with; select's ten seconds are not counted.
SessionCanMove(p) ==
  \/ spc[p] = "conn" /\ Len(sq) < Room
  \/ spc[p] \in {"write", "out", "poll"}
  \/ spc[p] = "wait" /\ (client[p] = "left" \/ Ready(uq[p]))

WorkerCanMove(w) ==
  \/ wpc[w] = "idle" /\ \E i \in Done(sq) : sq[i].st = "sent"
  \/ wpc[w] \in {"serve", "write"}
  \/ /\ wpc[w] = "send"
     /\ (Dest(w).to \in Pxid /\ On(Dest(w).to)) => Len(uq[Dest(w).to]) < Room

\* When no session and no worker can go on, no request is left half-way: it has been
\* answered or dropped, or its client is gone.  Only a circle of full queues holds
\* requests up for good.
HaltsInCircle ==
  \/ \E p \in Pxid : SessionCanMove(p)
  \/ \E w \in Worker : WorkerCanMove(w)
  \/ CircularWait
  \/ \A r \in Req : ~Asking(r)

\* A request is answered, or refused, or its client is gone in the end, unless
\* a circle of full queues holds up everything.
Answered ==
  <>[](CircularWait \/ \A r \in Req : ~Asking(r))

\* A client whose host has gone without a word loses its session: two polls
\* without an answer, or a write that fails.
SilentClientDropped ==
  <>[](CircularWait \/ \A p \in Pxid : client[p] # "silent")
=============================================================================
