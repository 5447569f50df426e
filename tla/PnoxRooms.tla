------------------------------ MODULE PnoxRooms ------------------------------
(***************************************************************************)
(* The talk rooms of src/app/src/tpsmtalk.  Workers of tpsmtalk take the   *)
(* clients' transactions: 1001 (mtalk001) puts a join or a leave on a      *)
(* message queue, 1002 (mtalk002) looks the sender's room up in a shared   *)
(* segment and sends the text to its two members.  mtalk010 reads the      *)
(* queue and is the only writer of the rooms (the program pxlogoff would   *)
(* take a room down, but has the segment attached for reading only).       *)
(* There is no lock: a room may be moved, row by row, while a worker reads *)
(* the rows.  Workers and mtalk010 may be killed at any point; tpsmain and *)
(* pnoxd start them again.                                                 *)
(*                                                                         *)
(* mtalk001 looks at nothing that the others write, and any client may     *)
(* call it at any time: what mtalk010 takes from the queue next is any     *)
(* message at all.                                                         *)
(***************************************************************************)
EXTENDS Integers

CONSTANTS
  Pxid,       \* session ids of clients that talk
  NoPxid,     \* 0, and whatever else is no session's id
  Worker,     \* workers of tpsmtalk
  MaxRoom,    \* rows of the segment (MAX_MJMTALK)
  NoWorker,
  Killed      \* a worker that is no more, as the owner of a queue name

ASSUME RoomAssumption ==
  /\ MaxRoom \in Nat \ {0}
  /\ NoPxid \notin Pxid
  /\ NoWorker \notin Worker
  /\ Killed \notin Worker \union {NoWorker}

Id == Pxid \union {NoPxid}
Pair == Id \X Id
Row == 1 .. MaxRoom
Empty == <<NoPxid, NoPxid>>

\* What mtalk001 can put on the queue.
Msg == [type : {"j", "q"}, pxid : Pxid]
NoMsg == [type |-> "none", pxid |-> NoPxid]

VARIABLES
  room,     \* mbmtalk->mjmtalk[].pxid
  vrec,     \* mbmtalk->vrec
  mpc,      \* where mtalk010 is
  stmsg,    \* the message it works on, cleared for each
  pxid,     \* its two-place array of ids
  index,    \* the place the next join goes to, counted from 0
  at,       \* the row l_mtdelr is about to overwrite, or 0
  wpc,      \* where each worker is in mtalk002
  wid,      \* the client it works for
  wat,      \* the row it looks at; then the row its pointer is to
  qname,    \* the worker the queue name "mtalk002" is bound to
  before,   \* history: the rooms when the delete under way began
  moved     \* history: rows moved since the worker began to look, or found

shared == <<room, vrec, qname>>
mainVars == <<mpc, stmsg, pxid, index, at>>
workVars == <<wpc, wid, wat>>
histVars == <<before, moved>>
vars == <<shared, mainVars, workVars, histVars>>

-----------------------------------------------------------------------------
Members(r) == {room[r][1], room[r][2]}
Rooms == 1 .. vrec

\* Rows in which a scan for a or b stops, and the last of some rows.
Having(a, b) == {r \in Rooms : Members(r) \intersect {a, b} # {}}
LastOf(S) == {r \in S : \A s \in S : s <= r}
InRoom(p) == Having(p, p) # {}

NoRooms == [r \in Row |-> Empty]
NoDelete == [rows |-> NoRooms, n |-> 0, gone |-> 0]

\* mtalk010 clears the segment when it starts; its array of ids is not set.
Init ==
  /\ room = NoRooms
  /\ vrec = 0
  /\ mpc = "get"
  /\ pxid \in Pair
  /\ index = 0
  /\ before = NoDelete
  /\ stmsg = NoMsg
  /\ at = 0
  /\ wpc = [w \in Worker |-> "idle"]
  /\ wid = [w \in Worker |-> NoPxid]
  /\ wat = [w \in Worker |-> 0]
  /\ qname = NoWorker
  /\ moved = [w \in Worker |-> FALSE]

-----------------------------------------------------------------------------
(* mtalk010.                                                               *)

Take(m, type) == mpc = "get" /\ m.type = type

\* The message is done with.
NextMessage ==
  /\ mpc' = "get"
  /\ stmsg' = NoMsg
  /\ at' = 0

\* The first of two joins: remember who waits.
JoinFirst(m) ==
  /\ Take(m, "j") /\ index = 0
  /\ pxid' = [pxid EXCEPT ![1] = m.pxid]
  /\ index' = 1
  /\ UNCHANGED <<room, vrec, qname, mpc, stmsg, at, workVars, histVars>>

\* l_mtaddr finds a room of either, or makes a new one.  (Its members are told,
\* which changes no state here.)
AddFinds(a, b) ==
  /\ Having(a, b) # {}
  /\ UNCHANGED <<room, vrec>>

\* Wrong variant: l_mtaddr looks for the first id only.
AddAppendsTwice(a, b) ==
  /\ Having(a, a) = {} /\ vrec < MaxRoom
  /\ room' = [room EXCEPT ![vrec + 1] = <<a, b>>]
  /\ vrec' = vrec + 1

AddAppends(a, b) ==
  /\ Having(a, b) = {} /\ vrec < MaxRoom
  /\ room' = [room EXCEPT ![vrec + 1] = <<a, b>>]
  /\ vrec' = vrec + 1

Add(a, b) == AddFinds(a, b) \/ AddAppends(a, b)

\* It returns NULL: mtalk010 closes its queue and ends.
AddFull(a, b) ==
  /\ Having(a, b) = {} /\ vrec >= MaxRoom
  /\ mpc' = "end"
  /\ UNCHANGED <<room, vrec>>

\* The second join: make a room of the two.
JoinSecond(m) ==
  /\ Take(m, "j") /\ index = 1
  /\ stmsg' = m
  /\ pxid' = [pxid EXCEPT ![2] = m.pxid]
  /\ \/ Add(pxid[1], m.pxid) /\ mpc' = "join" /\ index' = 0
     \/ AddFull(pxid[1], m.pxid) /\ UNCHANGED index
  /\ UNCHANGED <<qname, at, workVars, histVars>>

\* Both were told: the room stands.  Otherwise it is taken down again.
JoinTold ==
  /\ mpc = "join"
  /\ NextMessage
  /\ UNCHANGED <<shared, pxid, index, workVars, histVars>>

\* A leave: the notice goes to the room of the two ids in the array, which is
\* made if there is none; then the sender's room is taken down.
Leave(m) ==
  /\ Take(m, "q")
  /\ stmsg' = m
  /\ \/ Add(pxid[1], pxid[2]) /\ mpc' = "leave"
     \/ AddFull(pxid[1], pxid[2])
  /\ UNCHANGED <<qname, pxid, index, at, workVars, histVars>>

\* l_mtdelr: the last row with the id, or none.
DeleteFinds ==
  /\ mpc \in {"join", "leave"}
  /\ \E r \in LastOf(Having(stmsg.pxid, stmsg.pxid)) :
       /\ at' = r
       /\ before' = [rows |-> room, n |-> vrec, gone |-> r]
  /\ mpc' = "shift"
  /\ stmsg' = NoMsg    \* not read again
  /\ UNCHANGED <<shared, pxid, index, workVars, moved>>

DeleteFindsNone ==
  /\ mpc \in {"join", "leave"} /\ ~InRoom(stmsg.pxid)
  /\ NextMessage
  /\ UNCHANGED <<shared, pxid, index, workVars, histVars>>

\* The rows above move down one by one, under the eyes of the workers.
AllMoved == [w \in Worker |-> moved[w] \/ wpc[w] \in {"scan", "found", "open"}]

DeleteMoves ==
  /\ mpc = "shift" /\ at < vrec
  /\ room' = [room EXCEPT ![at] = room[at + 1]]
  /\ at' = at + 1
  /\ moved' = AllMoved
  /\ UNCHANGED <<vrec, qname, mpc, stmsg, pxid, index, workVars,
                 before>>

\* Wrong variant: the loop stops one row early.
DeleteEndsEarly ==
  /\ mpc = "shift" /\ at >= vrec - 1
  /\ room' = [room EXCEPT ![vrec] = Empty]
  /\ vrec' = vrec - 1
  /\ NextMessage
  /\ moved' = AllMoved
  /\ before' = NoDelete
  /\ UNCHANGED <<qname, pxid, index, workVars>>

\* The last row is cleared and given back.
DeleteEnds ==
  /\ mpc = "shift" /\ at >= vrec
  /\ room' = [room EXCEPT ![vrec] = Empty]
  /\ vrec' = vrec - 1
  /\ NextMessage
  /\ moved' = AllMoved
  /\ before' = NoDelete
  /\ UNCHANGED <<qname, pxid, index, workVars>>

\* pnoxd starts mtalk010 again, which clears all rooms.
Restart ==
  /\ mpc = "end"
  /\ room' = NoRooms
  /\ vrec' = 0
  /\ NextMessage
  /\ pxid' \in Pair
  /\ index' = 0
  /\ moved' = AllMoved
  /\ before' = NoDelete
  /\ UNCHANGED <<qname, workVars>>

\* A signal or a fault ends it anywhere: its memory is gone, a delete under way
\* stays half done.
MainKilled ==
  /\ mpc # "end" /\ mpc' = "end"
  /\ stmsg' = NoMsg
  /\ pxid' = Empty
  /\ index' = 0
  /\ UNCHANGED <<shared, at, workVars, histVars>>

Main ==
  \/ \E m \in Msg : JoinFirst(m) \/ JoinSecond(m) \/ Leave(m)
  \/ JoinTold
  \/ DeleteFinds \/ DeleteFindsNone \/ DeleteMoves \/ DeleteEnds
  \/ Restart \/ MainKilled

-----------------------------------------------------------------------------
(* mtalk002, in a worker.                                                  *)

\* The call is over; its local variables are gone.
LeavesFor(w, to) ==
  /\ wpc' = [wpc EXCEPT ![w] = to]
  /\ wid' = [wid EXCEPT ![w] = NoPxid]
  /\ wat' = [wat EXCEPT ![w] = 0]
  /\ moved' = [moved EXCEPT ![w] = FALSE]

Returns(w) == LeavesFor(w, "idle")

TalkStarts(w, p) ==
  /\ wpc[w] = "idle"
  /\ wpc' = [wpc EXCEPT ![w] = "scan"]
  /\ wid' = [wid EXCEPT ![w] = p]
  /\ wat' = [wat EXCEPT ![w] = 1]
  /\ UNCHANGED <<shared, mainVars, before, moved>>

\* l_mtread, a row at a time.  vrec is read again for every row.
TalkScans(w) ==
  /\ wpc[w] = "scan" /\ wat[w] <= vrec /\ wid[w] \notin Members(wat[w])
  /\ wat' = [wat EXCEPT ![w] = @ + 1]
  /\ UNCHANGED <<shared, mainVars, wpc, wid, histVars>>

TalkFinds(w) ==
  /\ wpc[w] = "scan" /\ wat[w] <= vrec /\ wid[w] \in Members(wat[w])
  /\ wpc' = [wpc EXCEPT ![w] = "found"]
  /\ moved' = [moved EXCEPT ![w] = FALSE]
  /\ UNCHANGED <<shared, mainVars, wid, wat, before>>

\* No room: the client is told that its partner is gone.
TalkFindsNone(w) ==
  /\ wpc[w] = "scan" /\ wat[w] > vrec
  /\ Returns(w)
  /\ UNCHANGED <<shared, mainVars, before>>

\* mtalk002 opens a queue for the one message it sends, always by one name: a
\* second worker finds it bound, removes it, and tells its client of a failure.
\* (That there is no socket to be had is left out.)
TalkOpens(w) ==
  /\ wpc[w] = "found" /\ qname = NoWorker
  /\ qname' = w
  /\ wpc' = [wpc EXCEPT ![w] = "open"]
  /\ UNCHANGED <<room, vrec, mainVars, wid, wat, histVars>>

TalkOpenFails(w) ==
  /\ wpc[w] = "found" /\ qname # NoWorker
  /\ qname' = NoWorker
  /\ Returns(w)
  /\ UNCHANGED <<room, vrec, mainVars, before>>

\* Only now are the ids read from the row, through the pointer, and the message
\* is sent to them.
SendsTo(w) == Members(wat[w])

TalkSends(w) ==
  /\ wpc[w] = "open"
  /\ wpc' = [wpc EXCEPT ![w] = "sent"]
  /\ wid' = [wid EXCEPT ![w] = NoPxid]
  /\ wat' = [wat EXCEPT ![w] = 0]
  /\ moved' = [moved EXCEPT ![w] = FALSE]
  /\ UNCHANGED <<shared, mainVars, before>>

\* Wrong variant: the queue stays open between two messages.
TalkEndsOpen(w) ==
  /\ wpc[w] = "sent"
  /\ Returns(w)
  /\ UNCHANGED <<room, vrec, qname, mainVars, before>>

\* pxclose, and the reply to the client.
TalkEnds(w) ==
  /\ wpc[w] = "sent"
  /\ qname' = NoWorker
  /\ Returns(w)
  /\ UNCHANGED <<room, vrec, mainVars, before>>

\* A signal or a fault ends the worker: a name it has bound stays.
WorkerKilled(w) ==
  /\ wpc[w] \notin {"idle", "dead"}
  /\ qname' = IF qname = w THEN Killed ELSE qname
  /\ LeavesFor(w, "dead")
  /\ UNCHANGED <<room, vrec, mainVars, before>>

\* check_proc of tpsmain forks another in its place.
WorkerReplaced(w) ==
  /\ wpc[w] = "dead"
  /\ wpc' = [wpc EXCEPT ![w] = "idle"]
  /\ UNCHANGED <<shared, mainVars, wid, wat, histVars>>

Talk(w) ==
  \/ TalkScans(w) \/ TalkFinds(w) \/ TalkFindsNone(w)
  \/ TalkOpens(w) \/ TalkOpenFails(w) \/ TalkSends(w) \/ TalkEnds(w)
  \/ WorkerKilled(w) \/ WorkerReplaced(w)

-----------------------------------------------------------------------------
Next ==
  \/ Main
  \/ \E w \in Worker : Talk(w) \/ \E p \in Pxid : TalkStarts(w, p)

Spec == Init /\ [][Next]_vars

-----------------------------------------------------------------------------
(* Properties.                                                             *)

\* No client is in two rooms.  While a delete moves the rows, the row copied last
\* and the next one to be overwritten are the same room twice; so they stay if
\* mtalk010 is killed there, until its successor clears all rooms.
RoomsDisjoint ==
  \A r, s \in Rooms :
    r < s /\ Members(r) \intersect Members(s) # {} =>
      mpc \in {"shift", "end"} /\ s = at /\ r = at - 1 /\ before.gone < s

\* Taking a room down, if mtalk010 comes to the end of it, keeps every other room,
\* in order, and takes nothing else; and its two members are in no room then, so
\* that a leave always helps, if only against a room that an earlier client of
\* the id has left behind.
DeleteKeepsOthers ==
  [][mpc = "shift" /\ mpc' = "get" =>
       /\ vrec' = before.n - 1
       /\ \A r \in 1 .. before.n - 1 :
            /\ room'[r] = before.rows[IF r < before.gone THEN r ELSE r + 1]
            /\ \A i, j \in {1, 2} : room'[r][i] # before.rows[before.gone][j]]_vars

\* What becomes of a message that mtalk002 does not lose by being killed.  It goes
\* to the room of its sender, unless rows moved between the lookup and the
\* sending.  It is refused for want of a room only when the sender has none, or
\* rows moved under the lookup, which then may have missed the room.  Else it is
\* refused only when another worker is in the middle of sending one, under the
\* name they share, or was killed there (sockets being there for all).
TalkSentOrRefused ==
  [][\A w \in Worker :
       /\ wpc[w] = "open" /\ wpc'[w] = "sent" /\ ~moved[w] => wid[w] \in SendsTo(w)
       /\ wpc[w] = "scan" /\ wpc'[w] = "idle" /\ ~moved[w] => ~InRoom(wid[w])
       /\ wpc[w] = "found" /\ wpc'[w] = "idle" =>
            \/ qname = Killed
            \/ \E v \in Worker \ {w} : wpc[v] \in {"open", "sent"}]_vars
=============================================================================
