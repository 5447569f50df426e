---------------------------- MODULE PnoxAppsProofs ---------------------------
(***************************************************************************)
(* Proofs about the two services of src/app: the talk rooms, for any       *)
(* number of clients, workers and rows, and omok, for any board, length of *)
(* a line and patterns.                                                    *)
(*                                                                         *)
(* Rooms: nobody holds a lock, so the rows are disjoint only between two   *)
(* deletes; while one is under way, or left half done, every row still is  *)
(* one of the rows it began with, and which one follows from how far it    *)
(* has come.  A worker's pointer is good as long as no row has moved since *)
(* the lookup, and a lookup has seen the rows it went past as long as none *)
(* has moved since it began.                                               *)
(*                                                                         *)
(* Omok: a line read from its other end begins where ai_isend looks; the   *)
(* loop over the patterns stops before it has rated anything, and the      *)
(* choice among the free cells has an answer.                              *)
(***************************************************************************)
EXTENDS PnoxRooms, PnoxOmok, FiniteSetTheorems, WellFoundedInduction, TLAPS

-----------------------------------------------------------------------------
(* PnoxRooms.                                                              *)

MainTypes ==
  /\ mpc \in {"get", "join", "leave", "shift", "end"}
  /\ pxid \in Pair
  /\ index \in {0, 1}
  /\ stmsg \in Msg \union {NoMsg}
  /\ at \in Nat
  /\ before \in [rows : [Row -> Pair], n : Nat, gone : Nat]

RoomTypes == room \in [Row -> Pair] /\ vrec \in 0 .. MaxRoom

WorkTypes ==
  /\ wpc \in [Worker -> {"idle", "scan", "found", "open", "sent", "dead"}]
  /\ wid \in [Worker -> Id]
  /\ wat \in [Worker -> Nat]
  /\ moved \in [Worker -> BOOLEAN]
  /\ \A w \in Worker : wpc[w] = "scan" => wat[w] >= 1

Types == MainTypes /\ RoomTypes /\ WorkTypes

\* No id is in two of the first n rows.
Disjoint(rows, n) ==
  \A r, s \in 1 .. n : r < s => \A i, j \in {1, 2} : rows[r][i] # rows[s][j]

StillInv == at = 0 => Disjoint(room, vrec)

\* A delete that has come to row `at' has moved the rows between.
Source(r) == IF before.gone <= r /\ r < at THEN r + 1 ELSE r

ShiftInv ==
  /\ mpc = "shift" => at # 0
  /\ at # 0 =>
       /\ mpc \in {"shift", "end"}
       /\ vrec = before.n /\ before.gone \in 1 .. at /\ at <= vrec
       /\ \A r \in Rooms : room[r] = before.rows[Source(r)]
       /\ Disjoint(before.rows, before.n)

\* The rows a lookup went past are not its client's, and the pointer of a worker
\* is to a room of its client, until rows move.
PointerInv ==
  \A w \in Worker : ~moved[w] =>
    /\ wpc[w] = "scan" =>
         \A r \in Row : r < wat[w] => r \in Rooms /\ wid[w] \notin Members(r)
    /\ wpc[w] \in {"found", "open"} =>
         wat[w] \in Rooms /\ wid[w] \in Members(wat[w])

\* The name belongs to a worker that sends, or was left by one that was killed.
NameInv ==
  qname \notin {NoWorker, Killed} =>
    qname \in Worker /\ wpc[qname] \in {"open", "sent"}

RoomInv == Types /\ StillInv /\ ShiftInv /\ PointerInv /\ NameInv

-----------------------------------------------------------------------------
LEMMA RoomInit == Init => RoomInv
<1> SUFFICES ASSUME Init PROVE RoomInv
  OBVIOUS
<1>1. MainTypes
  BY DEF Init, MainTypes, NoDelete, NoRooms, Pair, Id, Empty
<1>2. RoomTypes
  BY RoomAssumption DEF Init, RoomTypes, NoRooms, Pair, Id, Empty
<1>3. WorkTypes
  BY DEF Init, WorkTypes, Id
<1>4. StillInv /\ ShiftInv /\ PointerInv /\ NameInv
  BY DEF Init, StillInv, ShiftInv, PointerInv, NameInv, Disjoint
<1> QED
  BY <1>1, <1>2, <1>3, <1>4 DEF RoomInv, Types

\* Pointers stay good while their rows stay.
LEMMA PointersStay ==
  ASSUME RoomInv, UNCHANGED <<wpc, wid, wat, moved>>,
         \A r \in Rooms : r \in Rooms' /\ room'[r] = room[r]
  PROVE  PointerInv'
<1> SUFFICES ASSUME NEW w \in Worker, ~moved[w]
             PROVE  /\ wpc[w] = "scan" =>
                         \A r \in Row : r < wat[w] =>
                           r \in Rooms' /\ wid[w] \notin {room'[r][1], room'[r][2]}
                    /\ wpc[w] \in {"found", "open"} =>
                         /\ wat[w] \in Rooms'
                         /\ wid[w] \in {room'[wat[w]][1], room'[wat[w]][2]}
  BY DEF PointerInv, Members
<1>1. ASSUME wpc[w] = "scan", NEW r \in Row, r < wat[w]
      PROVE  r \in Rooms' /\ wid[w] \notin {room'[r][1], room'[r][2]}
  <2>1. r \in Rooms /\ wid[w] \notin Members(r)
    BY <1>1 DEF RoomInv, PointerInv
  <2> QED
    BY <2>1 DEF Members
<1>2. ASSUME wpc[w] \in {"found", "open"}
      PROVE  wat[w] \in Rooms' /\ wid[w] \in {room'[wat[w]][1], room'[wat[w]][2]}
  <2>1. wat[w] \in Rooms /\ wid[w] \in Members(wat[w])
    BY <1>2 DEF RoomInv, PointerInv
  <2> QED
    BY <2>1 DEF Members
<1> QED
  BY <1>1, <1>2

\* Nothing is promised to a pointer once rows have moved.
LEMMA PointersLost ==
  ASSUME RoomInv, UNCHANGED <<wpc, wid, wat>>, moved' = AllMoved
  PROVE  PointerInv' /\ WorkTypes'
<1>1. \A w \in Worker : wpc[w] \in {"scan", "found", "open"} => moved'[w] = TRUE
  BY DEF AllMoved
<1>2. moved' \in [Worker -> BOOLEAN]
  BY DEF AllMoved, RoomInv, Types, WorkTypes
<1> QED
  BY <1>1, <1>2 DEF PointerInv, RoomInv, Types, WorkTypes

LEMMA NameStays ==
  ASSUME RoomInv, UNCHANGED <<qname, wpc>> PROVE NameInv'
  BY DEF RoomInv, NameInv

\* A room found for two ids, or made for them, leaves the others as they are, and
\* no id in two of them.
LEMMA AddKeeps ==
  ASSUME RoomInv, at = 0, NEW a \in Id, NEW b \in Id, Add(a, b)
  PROVE  /\ RoomTypes' /\ Disjoint(room', vrec')
         /\ \A r \in Rooms : r \in Rooms' /\ room'[r] = room[r]
<1>1. RoomTypes /\ Disjoint(room, vrec)
  BY DEF RoomInv, Types, StillInv
<1>2. CASE AddFinds(a, b)
  BY <1>1, <1>2 DEF AddFinds, RoomTypes, Rooms
<1>3. CASE AddAppends(a, b)
  <2>1. /\ vrec \in Nat /\ vrec + 1 \in Row /\ vrec' = vrec + 1
        /\ room' = [room EXCEPT ![vrec + 1] = <<a, b>>]
        /\ room \in [Row -> Pair]
    BY <1>1, <1>3, RoomAssumption DEF AddAppends, RoomTypes, Row
  <2>2. RoomTypes'
    BY <2>1, RoomAssumption DEF RoomTypes, Pair, Row
  <2>3. \A r \in Rooms : r \in Rooms' /\ room'[r] = room[r]
    <3>1. \A r \in Rooms : r \in 1 .. vrec + 1 /\ r \in Row /\ r # vrec + 1
      BY <1>1, <2>1, RoomAssumption DEF Rooms, Row, RoomTypes
    <3> QED
      BY <3>1, <2>1 DEF Rooms
  <2>4. room'[vrec + 1] = <<a, b>>
    BY <2>1
  <2>5. \A r \in Rooms : \A i \in {1, 2} : room[r][i] # a /\ room[r][i] # b
    BY <1>3 DEF AddAppends, Having, Members
  <2>6. ASSUME NEW r \in 1 .. vrec', NEW s \in 1 .. vrec', r < s,
               NEW i \in {1, 2}, NEW j \in {1, 2}
        PROVE  room'[r][i] # room'[s][j]
    <3>1. r \in Rooms /\ room'[r] = room[r]
      BY <2>6, <2>1, <2>3 DEF Rooms
    <3>2. CASE s = vrec + 1
      <4>1. room'[s][j] = a \/ room'[s][j] = b
        BY <2>4, <3>2
      <4> QED
        BY <3>1, <4>1, <2>5
    <3>3. CASE s # vrec + 1
      <4>1. s \in Rooms /\ room'[s] = room[s]
        BY <3>3, <2>1, <2>3 DEF Rooms
      <4> QED
        BY <2>6, <3>1, <4>1, <1>1 DEF Disjoint, Rooms
    <3> QED
      BY <3>2, <3>3
  <2> QED
    BY <2>2, <2>3, <2>6 DEF Disjoint
<1> QED
  BY <1>2, <1>3 DEF Add

\* A step of mtalk010 between two deletes.
LEMMA MainKeeps ==
  ASSUME RoomInv, at' = 0, mpc' # "shift", MainTypes', RoomTypes',
         Disjoint(room', vrec'), UNCHANGED <<qname, wpc, wid, wat, moved>>,
         \A r \in Rooms : r \in Rooms' /\ room'[r] = room[r]
  PROVE  RoomInv'
<1>1. PointerInv' /\ NameInv'
  BY PointersStay, NameStays
<1>2. WorkTypes'
  BY DEF RoomInv, Types, WorkTypes
<1>3. StillInv' /\ ShiftInv'
  BY DEF StillInv, ShiftInv
<1> QED
  BY <1>1, <1>2, <1>3 DEF RoomInv, Types

\* Joins and leaves, and what is done with them.
LEMMA MessageKeeps ==
  ASSUME RoomInv,
         \/ \E m \in Msg : JoinFirst(m) \/ JoinSecond(m) \/ Leave(m)
         \/ JoinTold \/ DeleteFindsNone
  PROVE  RoomInv'
<1>1. /\ MainTypes /\ RoomTypes /\ pxid[1] \in Id /\ pxid[2] \in Id
      /\ \A m \in Msg : m.pxid \in Id
  BY DEF RoomInv, Types, MainTypes, Pair, Msg, Id
<1>0. at = 0 /\ at' = 0 /\ mpc' # "shift"
  BY DEF RoomInv, ShiftInv, JoinFirst, JoinSecond, Leave, JoinTold, DeleteFindsNone, Take,
       NextMessage, AddFull
<1>2. CASE (room' = room /\ vrec' = vrec)
           /\ (\/ \E m \in Msg : JoinFirst(m) \/ JoinSecond(m) \/ Leave(m)
               \/ JoinTold \/ DeleteFindsNone)
  <2>1. UNCHANGED <<qname, wpc, wid, wat, moved>>
    BY <1>2 DEF JoinFirst, JoinSecond, Leave, JoinTold, DeleteFindsNone, Take, NextMessage,
         AddFull, workVars, histVars, shared
  <2>2. MainTypes'
    BY <1>1, <1>2 DEF JoinFirst, JoinSecond, Leave, JoinTold, DeleteFindsNone, Take,
         NextMessage, AddFull, workVars, histVars, shared, MainTypes, Pair
  <2>3. RoomTypes' /\ Disjoint(room', vrec')
    BY <1>0, <1>1, <1>2, <2>1 DEF RoomTypes, RoomInv, StillInv
  <2>4. \A r \in Rooms : r \in Rooms' /\ room'[r] = room[r]
    BY <1>2 DEF Rooms
  <2> QED
    BY <1>0, <2>1, <2>2, <2>3, <2>4, MainKeeps
<1>3. CASE \E m \in Msg : (JoinSecond(m) /\ Add(pxid[1], m.pxid))
                          \/ (Leave(m) /\ Add(pxid[1], pxid[2]))
  <2>1. UNCHANGED <<qname, wpc, wid, wat, moved>>
    BY <1>3 DEF JoinSecond, Leave, Take, workVars, histVars
  <2>2. MainTypes'
    BY <1>1, <1>3 DEF JoinSecond, Leave, AddFull, workVars, histVars, MainTypes, Pair
  <2>3. PICK a \in Id, b \in Id : Add(a, b)
    BY <1>1, <1>3
  <2>4. /\ RoomTypes' /\ Disjoint(room', vrec')
        /\ \A r \in Rooms : r \in Rooms' /\ room'[r] = room[r]
    BY <1>0, <2>3, AddKeeps
  <2> QED
    BY <1>0, <2>1, <2>2, <2>4, MainKeeps
<1> QED
  BY <1>2, <1>3 DEF JoinFirst, JoinSecond, Leave, JoinTold, DeleteFindsNone, AddFull, shared

\* The delete begins at the row that is to go.
LEMMA DeleteFindsKeeps ==
  ASSUME RoomInv, DeleteFinds PROVE RoomInv'
<1>1. /\ at = 0 /\ mpc' = "shift" /\ stmsg' = NoMsg
      /\ UNCHANGED <<room, vrec, qname, pxid, index, wpc, wid, wat, moved>>
  BY DEF DeleteFinds, shared, workVars, RoomInv, ShiftInv
<1>2. PICK r \in Rooms : at' = r /\ before' = [rows |-> room, n |-> vrec, gone |-> r]
  BY DEF DeleteFinds, LastOf, Having
<1>3. /\ RoomTypes /\ Disjoint(room, vrec) /\ MainTypes
      /\ r \in Nat /\ 1 <= r /\ r <= vrec /\ vrec \in Nat
  BY <1>1, RoomAssumption DEF RoomInv, Types, StillInv, Rooms, RoomTypes
<1>4. MainTypes' /\ RoomTypes'
  BY <1>1, <1>2, <1>3 DEF MainTypes, RoomTypes
<1>5. ShiftInv'
  <2>1. \A s \in Rooms : Source(s)' = s
    BY <1>2, <1>3 DEF Source, Rooms
  <2>2. \A s \in Rooms' : room'[s] = before'.rows[Source(s)']
    BY <2>1, <1>1, <1>2 DEF Rooms
  <2> QED
    BY <2>2, <1>1, <1>2, <1>3 DEF ShiftInv
<1>6. StillInv'
  BY <1>2, <1>3 DEF StillInv
<1>7. PointerInv' /\ NameInv'
  <2>1. \A s \in Rooms : s \in Rooms' /\ room'[s] = room[s]
    BY <1>1 DEF Rooms
  <2> QED
    BY <2>1, <1>1, PointersStay, NameStays
<1>8. WorkTypes'
  BY <1>1 DEF RoomInv, Types, WorkTypes
<1> QED
  BY <1>4, <1>5, <1>6, <1>7, <1>8 DEF RoomInv, Types

\* One more row takes the place of the one below.
LEMMA DeleteMovesKeeps ==
  ASSUME RoomInv, DeleteMoves PROVE RoomInv'
<1>1. /\ mpc = "shift" /\ at < vrec /\ at' = at + 1 /\ moved' = AllMoved
      /\ room' = [room EXCEPT ![at] = room[at + 1]]
      /\ UNCHANGED <<vrec, qname, mpc, stmsg, pxid, index, wpc, wid, wat, before>>
  BY DEF DeleteMoves, workVars
<1>2. /\ MainTypes /\ RoomTypes
      /\ vrec = before.n /\ before.gone \in 1 .. at /\ at <= vrec
      /\ \A r \in Rooms : room[r] = before.rows[Source(r)]
      /\ Disjoint(before.rows, before.n)
  BY <1>1 DEF RoomInv, Types, ShiftInv
<1>3. /\ at \in Nat /\ vrec \in Nat /\ at \in Rooms /\ at + 1 \in Rooms
      /\ at \in Row /\ at + 1 \in Row /\ before.gone \in Nat /\ 1 <= before.gone
      /\ before.gone <= at
  BY <1>1, <1>2, RoomAssumption DEF MainTypes, RoomTypes, Rooms, Row
<1>4. MainTypes' /\ RoomTypes'
  BY <1>1, <1>2, <1>3 DEF MainTypes, RoomTypes
<1>5. ASSUME NEW r \in Rooms PROVE room'[r] = before.rows[Source(r)']
  <2>1. r \in Row /\ r \in Nat
    BY <1>2, RoomAssumption DEF Rooms, Row, RoomTypes
  <2>2. CASE r = at
    <3>1. room'[r] = room[at + 1]
      BY <2>2, <1>1, <1>2, <1>3 DEF RoomTypes
    <3>2. Source(at + 1) = at + 1
      BY <1>3 DEF Source
    <3>3. Source(r)' = at + 1
      BY <2>2, <1>1, <1>3 DEF Source
    <3> QED
      BY <3>1, <3>2, <3>3, <1>2, <1>3
  <2>3. CASE r # at
    <3>1. room'[r] = room[r]
      BY <2>1, <2>3, <1>1, <1>2 DEF RoomTypes
    <3>2. Source(r)' = Source(r)
      BY <2>1, <2>3, <1>1, <1>3 DEF Source
    <3> QED
      BY <3>1, <3>2, <1>2
  <2> QED
    BY <2>2, <2>3
<1>6. ShiftInv'
  <2>1. \A r \in Rooms' : room'[r] = before'.rows[Source(r)']
    BY <1>1, <1>5 DEF Rooms
  <2>2. before.gone \in 1 .. at + 1 /\ at + 1 <= vrec
    BY <1>1, <1>3
  <2> QED
    BY <2>1, <2>2, <1>1, <1>2 DEF ShiftInv
<1>7. StillInv'
  BY <1>1, <1>3 DEF StillInv
<1>8. PointerInv' /\ WorkTypes' /\ NameInv'
  BY <1>1, PointersLost, NameStays
<1> QED
  BY <1>4, <1>6, <1>7, <1>8 DEF RoomInv, Types

\* What is left when the last row has been given back: the rows there were but
\* the one that went.
LEMMA RowsLeft ==
  ASSUME RoomInv, DeleteEnds
  PROVE  /\ vrec \in Nat /\ vrec = before.n /\ before.n - 1 \in Nat
         /\ before.gone \in 1 .. before.n
         /\ \A r \in 1 .. before.n - 1 :
              room'[r] = before.rows[IF r < before.gone THEN r ELSE r + 1]
         /\ Disjoint(before.rows, before.n)
<1>1. /\ mpc = "shift" /\ at >= vrec /\ room' = [room EXCEPT ![vrec] = Empty]
  BY DEF DeleteEnds
<1>2. /\ MainTypes /\ RoomTypes
      /\ vrec = before.n /\ before.gone \in 1 .. at /\ at <= vrec
      /\ \A r \in Rooms : room[r] = before.rows[Source(r)]
      /\ Disjoint(before.rows, before.n)
  BY <1>1 DEF RoomInv, Types, ShiftInv
<1>3. /\ at \in Nat /\ vrec \in Nat /\ at = vrec /\ before.gone \in Nat
      /\ 1 <= before.gone /\ before.gone <= at
  BY <1>1, <1>2, RoomAssumption DEF MainTypes, RoomTypes
<1>4. ASSUME NEW r \in 1 .. before.n - 1
      PROVE  room'[r] = before.rows[IF r < before.gone THEN r ELSE r + 1]
  <2>1. r \in Rooms /\ r # vrec /\ r \in Row /\ r \in Nat
    BY <1>2, <1>3, RoomAssumption DEF Rooms, Row, RoomTypes
  <2>2. room'[r] = room[r]
    BY <2>1, <1>1, <1>2 DEF RoomTypes
  <2>3. Source(r) = IF r < before.gone THEN r ELSE r + 1
    BY <2>1, <1>2, <1>3 DEF Source
  <2> QED
    BY <2>1, <2>2, <2>3, <1>2
<1> QED
  BY <1>2, <1>3, <1>4

LEMMA DeleteEndsKeeps ==
  ASSUME RoomInv, DeleteEnds PROVE RoomInv'
<1>1. /\ room' = [room EXCEPT ![vrec] = Empty] /\ vrec' = vrec - 1
      /\ mpc' = "get" /\ stmsg' = NoMsg /\ at' = 0 /\ moved' = AllMoved
      /\ before' = NoDelete
      /\ UNCHANGED <<qname, pxid, index, wpc, wid, wat>>
  BY DEF DeleteEnds, NextMessage, workVars
<1>2. MainTypes /\ RoomTypes
  BY DEF RoomInv, Types
<1>3. /\ vrec \in Nat /\ vrec = before.n /\ before.n - 1 \in Nat
      /\ before.gone \in 1 .. before.n
      /\ \A r \in 1 .. before.n - 1 :
           room'[r] = before.rows[IF r < before.gone THEN r ELSE r + 1]
      /\ Disjoint(before.rows, before.n)
  BY RowsLeft
<1>4. MainTypes' /\ RoomTypes'
  <2>1. Empty \in Pair
    BY DEF Empty, Pair, Id
  <2>2. RoomTypes'
    <3>1. vrec' \in 0 .. MaxRoom
      BY <1>1, <1>2, <1>3, RoomAssumption DEF RoomTypes
    <3>2. room' \in [Row -> Pair]
      BY <2>1, <1>1, <1>2 DEF RoomTypes
    <3> QED
      BY <3>1, <3>2 DEF RoomTypes
  <2>3. NoDelete \in [rows : [Row -> Pair], n : Nat, gone : Nat]
    BY <2>1 DEF NoDelete, NoRooms
  <2> QED
    BY <2>2, <2>3, <1>1, <1>2 DEF MainTypes
<1>5. Disjoint(room', vrec')
  <2> SUFFICES ASSUME NEW r \in 1 .. before.n - 1, NEW s \in 1 .. before.n - 1, r < s,
                      NEW i \in {1, 2}, NEW j \in {1, 2}
               PROVE  room'[r][i] # room'[s][j]
    BY <1>1, <1>3 DEF Disjoint
  <2> DEFINE src(x) == IF x < before.gone THEN x ELSE x + 1
  <2>1. src(r) \in 1 .. before.n /\ src(s) \in 1 .. before.n /\ src(r) < src(s)
    BY <1>3
  <2>2. room'[r] = before.rows[src(r)] /\ room'[s] = before.rows[src(s)]
    BY <1>3
  <2> HIDE DEF src
  <2> QED
    BY <2>1, <2>2, <1>3 DEF Disjoint
<1>6. StillInv' /\ ShiftInv'
  BY <1>1, <1>5 DEF StillInv, ShiftInv
<1>7. PointerInv' /\ WorkTypes' /\ NameInv'
  BY <1>1, PointersLost, NameStays
<1> QED
  BY <1>4, <1>6, <1>7 DEF RoomInv, Types

LEMMA RestartKeeps ==
  ASSUME RoomInv, Restart PROVE RoomInv'
<1>1. /\ room' = NoRooms /\ vrec' = 0 /\ mpc' = "get" /\ stmsg' = NoMsg /\ at' = 0
      /\ pxid' \in Pair /\ index' = 0 /\ moved' = AllMoved
      /\ before' = NoDelete /\ UNCHANGED <<qname, wpc, wid, wat>>
  BY DEF Restart, NextMessage, workVars
<1>2. MainTypes' /\ RoomTypes'
  BY <1>1, RoomAssumption
  DEF RoomInv, Types, MainTypes, RoomTypes, NoDelete, NoRooms, Empty, Pair, Id
<1>3. StillInv' /\ ShiftInv'
  BY <1>1 DEF StillInv, ShiftInv, Disjoint
<1>4. PointerInv' /\ WorkTypes' /\ NameInv'
  BY <1>1, PointersLost, NameStays
<1> QED
  BY <1>2, <1>3, <1>4 DEF RoomInv, Types

\* The rows stay as they are, in the middle of a delete or not.
LEMMA MainKilledKeeps ==
  ASSUME RoomInv, MainKilled PROVE RoomInv'
<1>1. /\ mpc' = "end" /\ stmsg' = NoMsg /\ pxid' = Empty /\ index' = 0
      /\ UNCHANGED <<room, vrec, qname, at, before, wpc, wid, wat, moved>>
  BY DEF MainKilled, shared, workVars, histVars
<1>2. MainTypes' /\ RoomTypes' /\ WorkTypes'
  BY <1>1 DEF RoomInv, Types, MainTypes, RoomTypes, WorkTypes, Empty, Pair, Id
<1>3. StillInv' /\ ShiftInv'
  BY <1>1 DEF RoomInv, StillInv, ShiftInv, Disjoint, Rooms, Source
<1>4. PointerInv' /\ NameInv'
  <2>1. \A r \in Rooms : r \in Rooms' /\ room'[r] = room[r]
    BY <1>1 DEF Rooms
  <2> QED
    BY <1>1, <2>1, PointersStay, NameStays
<1> QED
  BY <1>2, <1>3, <1>4 DEF RoomInv, Types

-----------------------------------------------------------------------------
\* A worker's call goes on; only its own pointer changes.
LEMMA TalkKeeps ==
  ASSUME RoomInv, NEW w \in Worker, Talk(w) \/ \E p \in Pxid : TalkStarts(w, p)
  PROVE  RoomInv'
<1>1. UNCHANGED <<room, vrec, mpc, stmsg, pxid, index, at, before>>
  BY DEF Talk, TalkStarts, TalkScans, TalkFinds, TalkFindsNone, TalkOpens, TalkOpenFails,
       TalkSends, TalkEnds, WorkerKilled, WorkerReplaced, shared, mainVars, histVars
<1>2. /\ MainTypes' /\ RoomTypes' /\ StillInv'
  BY <1>1 DEF RoomInv, Types, MainTypes, RoomTypes, StillInv, Disjoint
<1>3. ShiftInv'
  BY <1>1 DEF RoomInv, ShiftInv, Source, Rooms, Disjoint
<1>4. WorkTypes /\ vrec \in Nat
  BY DEF RoomInv, Types, RoomTypes
<1>5. WorkTypes'
  <2>1. NoPxid \in Id /\ Pxid \subseteq Id
    BY DEF Id
  <2>2. CASE TalkScans(w) \/ TalkOpens(w)
    BY <2>2, <1>4 DEF TalkScans, TalkOpens, WorkTypes, histVars
  <2>6. CASE TalkFinds(w)
    BY <2>6, <1>4 DEF TalkFinds, WorkTypes
  <2>7. CASE WorkerReplaced(w)
    BY <2>7, <1>4 DEF WorkerReplaced, WorkTypes, histVars
  <2>3. CASE TalkFindsNone(w) \/ TalkOpenFails(w) \/ TalkEnds(w) \/ WorkerKilled(w)
    <3>1. PICK to \in {"idle", "dead"} : LeavesFor(w, to)
      BY <2>3 DEF TalkFindsNone, TalkOpenFails, TalkEnds, WorkerKilled, Returns
    <3>2. /\ wid' = [wid EXCEPT ![w] = NoPxid] /\ wat' = [wat EXCEPT ![w] = 0]
          /\ moved' = [moved EXCEPT ![w] = FALSE]
      BY <3>1 DEF LeavesFor
    <3>3. /\ wpc' \in [Worker -> {"idle", "scan", "found", "open", "sent", "dead"}]
          /\ \A v \in Worker : wpc'[v] = "scan" => v # w /\ wpc[v] = "scan"
      BY <3>1, <1>4 DEF LeavesFor, WorkTypes
    <3> QED
      BY <2>1, <3>2, <3>3, <1>4 DEF WorkTypes
  <2>4. CASE TalkSends(w)
    BY <2>1, <2>4, <1>4 DEF TalkSends, WorkTypes
  <2>5. CASE \E p \in Pxid : TalkStarts(w, p)
    BY <2>1, <2>5, <1>4 DEF TalkStarts, WorkTypes
  <2> QED
    BY <2>2, <2>3, <2>4, <2>5, <2>6, <2>7 DEF Talk
<1>6. \A v \in Worker \ {w} : /\ wpc'[v] = wpc[v] /\ wid'[v] = wid[v]
                              /\ wat'[v] = wat[v] /\ moved'[v] = moved[v]
  BY <1>4 DEF Talk, TalkStarts, TalkScans, TalkFinds, TalkFindsNone, TalkOpens,
       TalkOpenFails, TalkSends, TalkEnds, WorkerKilled, WorkerReplaced, Returns,
       LeavesFor, WorkTypes, histVars
<1>7. PointerInv'
  <2> SUFFICES ASSUME NEW v \in Worker, ~moved'[v]
               PROVE  /\ wpc'[v] = "scan" =>
                           \A r \in Row : r < wat'[v] =>
                             r \in Rooms /\ wid'[v] \notin Members(r)
                      /\ wpc'[v] \in {"found", "open"} =>
                           wat'[v] \in Rooms /\ wid'[v] \in Members(wat'[v])
    BY <1>1 DEF PointerInv, Rooms, Members
  <2>1. CASE v # w
    BY <2>1, <1>6 DEF RoomInv, PointerInv
  <2>2. CASE v = w /\ TalkFinds(w)
    <3>1. /\ wat'[w] = wat[w] /\ wid'[w] = wid[w] /\ wat[w] <= vrec
          /\ wid[w] \in Members(wat[w]) /\ wpc[w] = "scan" /\ wpc'[w] = "found"
      BY <2>2, <1>4 DEF TalkFinds, WorkTypes
    <3>2. wat[w] \in Rooms
      BY <3>1, <1>4 DEF Rooms, WorkTypes
    <3> QED
      BY <2>2, <3>1, <3>2
  <2>3. CASE v = w /\ TalkOpens(w)
    <3>1. /\ wat'[w] = wat[w] /\ wid'[w] = wid[w] /\ moved'[w] = moved[w]
          /\ wpc[w] = "found" /\ wpc'[w] = "open"
      BY <2>3, <1>4 DEF TalkOpens, histVars, WorkTypes
    <3> QED
      BY <2>3, <3>1 DEF RoomInv, PointerInv
  <2>4. CASE v = w /\ TalkScans(w)
    <3>1. /\ wat'[w] = wat[w] + 1 /\ wid'[w] = wid[w] /\ moved'[w] = moved[w]
          /\ wpc[w] = "scan" /\ wpc'[w] = "scan" /\ wat[w] <= vrec
          /\ wid[w] \notin Members(wat[w]) /\ wat[w] \in Nat
      BY <2>4, <1>4 DEF TalkScans, histVars, WorkTypes
    <3>2. ASSUME NEW r \in Row, r < wat'[w]
          PROVE  r \in Rooms /\ wid[w] \notin Members(r)
      <4>1. r \in Nat /\ 1 <= r
        BY RoomAssumption DEF Row
      <4>2. CASE r = wat[w]
        BY <3>1, <4>1, <4>2, <1>4 DEF Rooms
      <4>3. CASE r < wat[w]
        BY <2>4, <3>1, <4>3 DEF RoomInv, PointerInv
      <4> QED
        BY <3>1, <3>2, <4>1, <4>2, <4>3
    <3> QED
      BY <2>4, <3>1, <3>2
  <2>5. CASE v = w /\ \E p \in Pxid : TalkStarts(w, p)
    <3>1. wpc'[w] = "scan" /\ wat'[w] = 1
      BY <2>5, <1>4 DEF TalkStarts, WorkTypes
    <3>2. \A r \in Row : ~(r < 1)
      BY RoomAssumption DEF Row
    <3> QED
      BY <2>5, <3>1, <3>2
  <2>6. CASE v = w /\ \/ TalkFindsNone(w) \/ TalkOpenFails(w) \/ TalkSends(w)
                       \/ TalkEnds(w) \/ WorkerKilled(w) \/ WorkerReplaced(w)
    <3>1. wpc'[w] \in {"idle", "sent", "dead"}
      BY <2>6, <1>4 DEF TalkFindsNone, TalkOpenFails, TalkSends, TalkEnds, WorkerKilled,
           WorkerReplaced, Returns, LeavesFor, WorkTypes
    <3> QED
      BY <2>6, <3>1
  <2> QED
    BY <2>1, <2>2, <2>3, <2>4, <2>5, <2>6 DEF Talk
<1>8. NameInv'
  <2> SUFFICES ASSUME qname' \notin {NoWorker, Killed}
               PROVE  qname' \in Worker /\ wpc'[qname'] \in {"open", "sent"}
    BY DEF NameInv
  <2>1. CASE TalkOpens(w)
    BY <2>1, <1>4 DEF TalkOpens, WorkTypes
  <2>2. CASE TalkOpenFails(w) \/ TalkEnds(w)
    BY <2>2 DEF TalkOpenFails, TalkEnds
  <2>3. CASE TalkSends(w)
    <3>1. qname' = qname /\ wpc'[w] = "sent"
      BY <2>3, <1>4 DEF TalkSends, shared, WorkTypes
    <3> QED
      BY <3>1, <1>6 DEF RoomInv, NameInv
  <2>4. CASE \/ TalkScans(w) \/ TalkFinds(w) \/ TalkFindsNone(w) \/ WorkerReplaced(w)
             \/ \E p \in Pxid : TalkStarts(w, p)
    <3>1. qname' = qname /\ wpc[w] \in {"idle", "scan", "dead"}
      BY <2>4 DEF TalkScans, TalkFinds, TalkFindsNone, TalkStarts, WorkerReplaced, shared
    <3>2. qname \in Worker \ {w} /\ wpc[qname] \in {"open", "sent"}
      BY <3>1 DEF RoomInv, NameInv
    <3> QED
      BY <3>1, <3>2, <1>6
  <2>5. CASE WorkerKilled(w)
    <3>1. qname' = qname /\ qname # w
      BY <2>5 DEF WorkerKilled
    <3>2. qname \in Worker \ {w} /\ wpc[qname] \in {"open", "sent"}
      BY <3>1 DEF RoomInv, NameInv
    <3> QED
      BY <3>1, <3>2, <1>6
  <2> QED
    BY <2>1, <2>2, <2>3, <2>4, <2>5 DEF Talk
<1> QED
  BY <1>2, <1>3, <1>5, <1>7, <1>8 DEF RoomInv, Types

LEMMA RoomStep == RoomInv /\ [Next]_vars => RoomInv'
<1> SUFFICES ASSUME RoomInv, [Next]_vars PROVE RoomInv'
  OBVIOUS
<1>1. CASE UNCHANGED vars
  <2>1. /\ UNCHANGED <<room, vrec, mpc, stmsg, pxid, index, at, before>>
        /\ UNCHANGED <<wpc, wid, wat, moved, qname>>
    BY <1>1 DEF vars, shared, mainVars, workVars, histVars
  <2>2. MainTypes' /\ RoomTypes' /\ WorkTypes'
    BY <2>1 DEF RoomInv, Types, MainTypes, RoomTypes, WorkTypes
  <2>3. StillInv' /\ ShiftInv'
    BY <2>1 DEF RoomInv, StillInv, ShiftInv, Source, Rooms, Disjoint
  <2>4. PointerInv' /\ NameInv'
    BY <2>1 DEF RoomInv, PointerInv, NameInv, Rooms, Members
  <2> QED
    BY <2>2, <2>3, <2>4 DEF RoomInv, Types
<1>2. CASE Main
  BY <1>2, MessageKeeps, DeleteFindsKeeps, DeleteMovesKeeps, DeleteEndsKeeps, RestartKeeps,
     MainKilledKeeps
  DEF Main
<1>3. ASSUME NEW w \in Worker, Talk(w) \/ \E p \in Pxid : TalkStarts(w, p)
      PROVE  RoomInv'
  BY <1>3, TalkKeeps
<1> QED
  BY <1>1, <1>2, <1>3 DEF Next

LEMMA RoomInvAlways == Spec => []RoomInv
  BY RoomInit, RoomStep, PTL DEF Spec

-----------------------------------------------------------------------------
\* No client is in two rooms, except that the row l_mtdelr copied last is still
\* there twice, until mtalk010, if it is killed there, is started again.
THEOREM NobodyTwice == Spec => []RoomsDisjoint
<1>1. RoomInv => RoomsDisjoint
  <2> SUFFICES ASSUME RoomInv, NEW r \in Rooms, NEW s \in Rooms, r < s,
                      Members(r) \intersect Members(s) # {}
               PROVE  /\ mpc \in {"shift", "end"}
                      /\ s = at /\ r = at - 1 /\ before.gone < s
    BY DEF RoomsDisjoint
  <2>1. PICK i \in {1, 2}, j \in {1, 2} : room[r][i] = room[s][j]
    BY DEF Members
  <2>2. at # 0
    BY <2>1 DEF RoomInv, StillInv, Disjoint, Rooms
  <2>3. /\ mpc \in {"shift", "end"}
        /\ vrec = before.n /\ before.gone \in 1 .. at /\ at <= vrec
        /\ room[r] = before.rows[Source(r)] /\ room[s] = before.rows[Source(s)]
        /\ Disjoint(before.rows, before.n)
    BY <2>2 DEF RoomInv, ShiftInv
  <2>4. /\ vrec \in Nat /\ at \in Nat /\ before.gone \in Nat
        /\ r \in Nat /\ s \in Nat /\ 1 <= r /\ r <= vrec /\ 1 <= s /\ s <= vrec
    BY RoomAssumption DEF RoomInv, Types, MainTypes, RoomTypes, Rooms
  <2>5. Source(r) \in 1 .. before.n /\ Source(s) \in 1 .. before.n
    BY <2>3, <2>4 DEF Source
  <2>6. ~(Source(r) < Source(s))
    BY <2>1, <2>3, <2>5 DEF Disjoint
  <2> QED
    BY <2>2, <2>3, <2>4, <2>6 DEF Source
<1> QED
  BY <1>1, RoomInvAlways, PTL

\* l_mtdelr takes down one room and keeps the others, in order, and the members
\* of the one are in no room then.
THEOREM OthersKept == Spec => DeleteKeepsOthers
<1> DEFINE Kept ==
      mpc = "shift" /\ mpc' = "get" =>
       /\ vrec' = before.n - 1
       /\ \A r \in 1 .. before.n - 1 :
            /\ room'[r] = before.rows[IF r < before.gone THEN r ELSE r + 1]
            /\ \A i, j \in {1, 2} : room'[r][i] # before.rows[before.gone][j]
<1>1. RoomInv /\ [Next]_vars => [Kept]_vars
  <2> SUFFICES ASSUME RoomInv, [Next]_vars, mpc = "shift", mpc' = "get"
               PROVE  Kept
    OBVIOUS
  <2>1. DeleteEnds
    BY DEF Next, vars, mainVars, Main, JoinFirst, JoinSecond, Leave, Take, JoinTold,
         DeleteFinds, DeleteFindsNone, DeleteMoves, Restart, MainKilled, Talk, TalkStarts,
         TalkScans, TalkFinds, TalkFindsNone, TalkOpens, TalkOpenFails, TalkSends,
         TalkEnds, WorkerKilled, WorkerReplaced
  <2>2. /\ vrec \in Nat /\ vrec = before.n /\ before.n - 1 \in Nat
        /\ before.gone \in 1 .. before.n
        /\ \A r \in 1 .. before.n - 1 :
             room'[r] = before.rows[IF r < before.gone THEN r ELSE r + 1]
        /\ Disjoint(before.rows, before.n)
    BY <2>1, RowsLeft
  <2>3. ASSUME NEW r \in 1 .. before.n - 1, NEW i \in {1, 2}, NEW j \in {1, 2}
        PROVE  room'[r][i] # before.rows[before.gone][j]
    <3> DEFINE q == IF r < before.gone THEN r ELSE r + 1
    <3>1. /\ q \in 1 .. before.n /\ (q < before.gone \/ before.gone < q)
          /\ room'[r] = before.rows[q]
      BY <2>2
    <3> HIDE DEF q
    <3> QED
      BY <3>1, <2>2 DEF Disjoint
  <2> QED
    BY <2>1, <2>2, <2>3 DEF DeleteEnds
<1> QED
  BY <1>1, RoomInvAlways, PTL DEF Spec, DeleteKeepsOthers

\* A message of mtalk002 goes to its sender's room unless rows moved since the
\* lookup; it is refused for want of a room only if the sender has none or rows
\* moved under the lookup, and else only while another worker sends one or when
\* one was killed over it.
THEOREM SentOrRefused == Spec => TalkSentOrRefused
<1> DEFINE Right ==
      \A w \in Worker :
       /\ wpc[w] = "open" /\ wpc'[w] = "sent" /\ ~moved[w] => wid[w] \in SendsTo(w)
       /\ wpc[w] = "scan" /\ wpc'[w] = "idle" /\ ~moved[w] => ~InRoom(wid[w])
       /\ wpc[w] = "found" /\ wpc'[w] = "idle" =>
            \/ qname = Killed
            \/ \E v \in Worker \ {w} : wpc[v] \in {"open", "sent"}
<1>1. RoomInv /\ [Next]_vars => [Right]_vars
  <2> SUFFICES ASSUME RoomInv, [Next]_vars, NEW w \in Worker
               PROVE  /\ wpc[w] = "open" /\ ~moved[w] => wid[w] \in SendsTo(w)
                      /\ wpc[w] = "scan" /\ wpc'[w] = "idle" /\ ~moved[w] =>
                           ~InRoom(wid[w])
                      /\ wpc[w] = "found" /\ wpc'[w] = "idle" =>
                           \/ qname = Killed
                           \/ \E v \in Worker \ {w} : wpc[v] \in {"open", "sent"}
    OBVIOUS
  <2>0. wpc \in [Worker -> {"idle", "scan", "found", "open", "sent", "dead"}]
    BY DEF RoomInv, Types, WorkTypes
  <2>1. wpc[w] = "open" /\ ~moved[w] => wid[w] \in SendsTo(w)
    BY DEF RoomInv, PointerInv, SendsTo
  <2>2. ASSUME wpc[w] \in {"scan", "found"}, wpc'[w] = "idle"
        PROVE  TalkFindsNone(w) \/ TalkOpenFails(w)
    <3>1. PICK v \in Worker : Talk(v) \/ \E p \in Pxid : TalkStarts(v, p)
      BY <2>2 DEF Next, vars, workVars, Main, JoinFirst, JoinSecond, Leave, JoinTold,
           DeleteFinds, DeleteFindsNone, DeleteMoves, DeleteEnds, Restart, MainKilled
    <3>2. v = w
      BY <2>0, <2>2, <3>1 DEF Talk, TalkStarts, TalkScans, TalkFinds, TalkFindsNone,
           TalkOpens, TalkOpenFails, TalkSends, TalkEnds, WorkerKilled, WorkerReplaced,
           Returns, LeavesFor
    <3> QED
      BY <2>0, <2>2, <3>1, <3>2 DEF Talk, TalkStarts, TalkScans, TalkFinds, TalkOpens,
           TalkSends, TalkEnds, WorkerKilled, WorkerReplaced, LeavesFor
  <2>3. ASSUME wpc[w] = "scan", wpc'[w] = "idle", ~moved[w]
        PROVE  ~InRoom(wid[w])
    <3>1. wat[w] > vrec /\ wat[w] \in Nat /\ vrec \in 0 .. MaxRoom
      BY <2>2, <2>3 DEF TalkFindsNone, TalkOpenFails, RoomInv, Types, RoomTypes, WorkTypes
    <3>2. \A r \in Rooms : r \in Row /\ r < wat[w]
      BY <3>1, RoomAssumption DEF Rooms, Row
    <3>3. \A r \in Rooms : wid[w] \notin Members(r)
      BY <2>3, <3>2 DEF RoomInv, PointerInv
    <3> QED
      BY <3>3 DEF InRoom, Having
  <2>4. ASSUME wpc[w] = "found", wpc'[w] = "idle", qname # Killed
        PROVE  qname \in Worker /\ qname # w /\ wpc[qname] \in {"open", "sent"}
    <3>1. qname # NoWorker
      BY <2>2, <2>4 DEF TalkFindsNone, TalkOpenFails
    <3> QED
      BY <2>4, <3>1 DEF RoomInv, NameInv
  <2> QED
    BY <2>1, <2>3, <2>4
<1> QED
  BY <1>1, RoomInvAlways, PTL DEF Spec, TalkSentOrRefused

-----------------------------------------------------------------------------
(* PnoxOmok: the board, and the end of the game.                           *)

\* A reply names the player only if it has a line, and the computer only if
\* the player has none; it answers before the player moves again.
Boards == [Cell -> {0, MAN, COM}]

LEMMA CoordTurned ==
  ASSUME NEW x \in Int, NEW y \in -1 .. 1, NEW n \in Int, NEW k \in Int
  PROVE  (x + n * y) + k * (-y) = x + (n - k) * y
<1>1. CASE y = -1
  BY <1>1
<1>2. CASE y = 0
  BY <1>2
<1>3. CASE y = 1
  BY <1>3
<1> QED
  BY <1>1, <1>2, <1>3

\* A line seen from its other end.
LEMMA LineTurned ==
  ASSUME NEW c \in Int \X Int, NEW s \in (-1 .. 1) \X (-1 .. 1), NEW n \in Int,
         NEW k \in Int
  PROVE  Along(Along(c, s, n), <<-s[1], -s[2]>>, k) = Along(c, s, n - k)
<1>1. /\ c[1] \in Int /\ c[2] \in Int
      /\ s[1] \in -1 .. 1 /\ s[2] \in -1 .. 1
  OBVIOUS
<1>2. (c[1] + n * s[1]) + k * (-s[1]) = c[1] + (n - k) * s[1]
  BY <1>1, CoordTurned
<1>3. (c[2] + n * s[2]) + k * (-s[2]) = c[2] + (n - k) * s[2]
  BY <1>1, CoordTurned
<1> QED
  BY <1>2, <1>3 DEF Along

LEMMA LineForward ==
  ASSUME NEW b, NEW who, NEW drec \in 0 .. 3, NEW c \in Cell,
         \A k \in 0 .. Five - 1 : Along(c, Step(drec), k) \in Stones(b, who)
  PROVE  ai_isend(b, who)
<1>1. c[1] \in 0 .. MaxRow - 1 /\ c[2] \in 0 .. MaxRow - 1 /\ c = <<c[1], c[2]>>
  BY DEF Cell, Index
<1>2. MaxRow \in Nat /\ Five \in Nat /\ 2 <= Five /\ Five <= MaxRow
  BY OmokAssumption
<1>3. Along(c, Step(drec), Five - 1) \in Cell
  BY <1>2 DEF Stones
<1>4. c \in Starts(drec)
  <2>1. CASE drec = 0
    BY <1>1, <1>2, <1>3, <2>1 DEF Along, Step, Starts, Cell, Index
  <2>2. CASE drec = 1
    BY <1>1, <1>2, <1>3, <2>2 DEF Along, Step, Starts, Cell, Index
  <2>3. CASE drec = 2
    BY <1>1, <1>2, <1>3, <2>3 DEF Along, Step, Starts, Cell, Index
  <2>4. CASE drec = 3
    BY <1>1, <1>2, <1>3, <2>4 DEF Along, Step, Starts, Cell, Index
  <2> QED
    BY <2>1, <2>2, <2>3, <2>4
<1> QED
  BY <1>4 DEF ai_isend, Stones

LEMMA LineFound ==
  ASSUME NEW b, NEW who, Line(who, b)
  PROVE  ai_isend(b, who)
<1>1. PICK c \in Stones(b, who), s \in (-1 .. 1) \X (-1 .. 1) :
        s # <<0, 0>> /\ \A k \in 0 .. Five - 1 : Along(c, s, k) \in Stones(b, who)
  BY DEF Line
<1>2. MaxRow \in Nat /\ Five \in Nat /\ 2 <= Five
  BY OmokAssumption
<1>3. c \in Cell /\ c \in Int \X Int
  BY <1>1, <1>2 DEF Stones, Cell, Index
<1> DEFINE e == Along(c, s, Five - 1)
           t == <<-s[1], -s[2]>>
<1>4. e \in Cell
  BY <1>1, <1>2 DEF Stones
<1>5. \A k \in 0 .. Five - 1 : Along(e, t, k) \in Stones(b, who)
  <2> SUFFICES ASSUME NEW k \in 0 .. Five - 1
               PROVE  Along(e, t, k) \in Stones(b, who)
    OBVIOUS
  <2>1. Five - 1 \in Int /\ k \in Int /\ (Five - 1) - k \in 0 .. Five - 1
    BY <1>2
  <2>2. Along(e, t, k) = Along(c, s, (Five - 1) - k)
    BY <1>1, <1>3, <2>1, LineTurned
  <2> QED
    BY <1>1, <2>1, <2>2
<1>6. \/ s \in {<<0, 1>>, <<1, 0>>, <<1, 1>>, <<-1, 1>>}
      \/ t \in {<<0, 1>>, <<1, 0>>, <<1, 1>>, <<-1, 1>>}
  <2>1. s = <<s[1], s[2]>> /\ s[1] \in {-1, 0, 1} /\ s[2] \in {-1, 0, 1}
    BY <1>1
  <2> QED
    BY <1>1, <2>1
<1>7. \A d \in {<<0, 1>>, <<1, 0>>, <<1, 1>>, <<-1, 1>>} :
        \E drec \in 0 .. 3 : Step(drec) = d
  <2>1. /\ Step(0) = <<0, 1>> /\ Step(1) = <<1, 0>>
        /\ Step(2) = <<1, 1>> /\ Step(3) = <<-1, 1>>
    BY DEF Step
  <2> QED
    BY <2>1
<1>8. CASE \E drec \in 0 .. 3 : Step(drec) = s
  BY <1>1, <1>3, <1>8, LineForward
<1>9. CASE \E drec \in 0 .. 3 : Step(drec) = t
  <2> HIDE DEF e, t
  <2> QED
    BY <1>4, <1>5, <1>9, LineForward
<1> QED
  BY <1>6, <1>7, <1>8, <1>9

LEMMA FoundLine ==
  ASSUME NEW b, NEW who, ai_isend(b, who)
  PROVE  Line(who, b)
<1>1. PICK drec \in 0 .. 3 : \E c \in Starts(drec) :
        \A k \in 0 .. Five - 1 : Along(c, Step(drec), k) \in Stones(b, who)
  BY DEF ai_isend, Stones
<1>0. PICK c \in Starts(drec) :
        \A k \in 0 .. Five - 1 : Along(c, Step(drec), k) \in Stones(b, who)
  BY <1>1
<1>2. MaxRow \in Nat /\ Five \in Nat /\ 2 <= Five
  BY OmokAssumption
<1>3. Step(drec) \in (-1 .. 1) \X (-1 .. 1) /\ Step(drec) # <<0, 0>>
  BY DEF Step
<1>4. c \in Int \X Int
  BY <1>0, <1>2 DEF Starts, Index
<1>5. Along(c, Step(drec), 0) = c
  BY <1>3, <1>4 DEF Along
<1>6. c \in Stones(b, who)
  BY <1>0, <1>2, <1>5
<1> QED
  BY <1>0, <1>3, <1>6 DEF Line

LEMMA EndIsLine ==
  ASSUME NEW b, NEW who
  PROVE  ai_isend(b, who) <=> Line(who, b)
BY LineFound, FoundLine

\* Fewer stones make no new line.
LEMMA FewerStones ==
  ASSUME NEW b, NEW d, NEW who, Stones(d, who) \subseteq Stones(b, who), Line(who, d)
  PROVE  Line(who, b)
BY DEF Line

GameTypes == board \in [Cell -> {0, MAN, COM}] /\ stat \in 0 .. 2

\* While the computer is to move it has no line; a reply tells whose line is
\* on the board.
GameInv ==
  /\ GameTypes
  /\ turn = "com" => ~Line(COM, board)
  /\ turn = "man" => /\ stat = 1 <=> Line(MAN, board)
                     /\ stat # 1 => (stat = 2 <=> Line(COM, board))

LEMMA GameInitInv == GameInit => GameInv
<1> SUFFICES ASSUME GameInit PROVE GameInv
  OBVIOUS
<1>1. \A who \in {MAN, COM} : Stones(board, who) = {}
  BY DEF GameInit, Stones, MAN, COM
<1>2. ~Line(MAN, board) /\ ~Line(COM, board)
  BY <1>1 DEF Line
<1> QED
  BY <1>2 DEF GameInit, GameInv, GameTypes

LEMMA ManMovesInv ==
  ASSUME GameInv, NEW c \in Cell, ManMoves(c)
  PROVE  GameInv'
<1>1. board' \in [Cell -> {0, MAN, COM}] /\ stat' \in 0 .. 2 /\ turn' = "com"
  BY DEF ManMoves, GameInv, GameTypes
<1>2. Stones(board', COM) \subseteq Stones(board, COM)
  BY DEF ManMoves, GameInv, GameTypes, Stones, MAN, COM
<1>3. ~Line(COM, board)
  BY DEF ManMoves, GameInv
<1>4. ~Line(COM, board')
  BY <1>2, <1>3, FewerStones
<1> QED
  BY <1>1, <1>4 DEF GameInv, GameTypes

LEMMA ComMovesInv ==
  ASSUME GameInv, ComMoves
  PROVE  GameInv'
<1>1. turn' = "man"
  BY DEF ComMoves
<1>2. CASE ai_isend(board, MAN)
  <2>1. stat' = 1 /\ board' = board
    BY <1>2 DEF ComMoves
  <2>2. Line(MAN, board)
    BY <1>2, EndIsLine
  <2>3. Line(MAN, board')
    BY <2>1, <2>2
  <2> QED
    BY <1>1, <2>1, <2>3 DEF GameInv, GameTypes
<1>3. CASE ~ai_isend(board, MAN)
  <2>1. PICK c \in ai_determine(RateByAll(board)) :
          /\ board' = [d \in Cell |-> IF d = c THEN COM ELSE board[d]]
          /\ stat' = IF ai_isend(board', COM) THEN 2 ELSE 0
    BY <1>3 DEF ComMoves
  <2>2. board' \in [Cell -> {0, MAN, COM}] /\ stat' \in {0, 2}
    BY <2>1 DEF GameInv, GameTypes
  <2>3. Stones(board', MAN) \subseteq Stones(board, MAN)
    BY <2>1 DEF GameInv, GameTypes, Stones, MAN, COM
  <2>4. ~Line(MAN, board)
    BY <1>3, EndIsLine
  <2>5. ~Line(MAN, board')
    BY <2>3, <2>4, FewerStones
  <2>6. stat' = 2 <=> Line(COM, board')
    <3>1. ai_isend(board', COM) <=> Line(COM, board')
      BY EndIsLine
    <3> QED
      BY <2>1, <3>1
  <2> QED
    BY <1>1, <2>2, <2>5, <2>6 DEF GameInv, GameTypes
<1> QED
  BY <1>2, <1>3

LEMMA GameInvHolds == Game => []GameInv
<1>1. GameInit => GameInv
  BY GameInitInv
<1>2. GameInv /\ [GameNext]_gameVars => GameInv'
  <2> SUFFICES ASSUME GameInv, [GameNext]_gameVars PROVE GameInv'
    OBVIOUS
  <2>1. CASE ComMoves
    BY <2>1, ComMovesInv
  <2>2. ASSUME NEW c \in Cell, ManMoves(c)
        PROVE  GameInv'
    BY <2>2, ManMovesInv
  <2>3. CASE UNCHANGED gameVars
    BY <2>3 DEF GameInv, GameTypes, gameVars, Line, Stones
  <2> QED
    BY <2>1, <2>2, <2>3 DEF GameNext
<1> QED
  BY <1>1, <1>2, PTL DEF Game

\* However large the board and however long the line that wins: ai_isend, which
\* looks in four directions and only from where a line still fits, finds a line
\* exactly if there is one, and the reply names the one who has it, also when
\* the computer's stone went to a cell of the player's or to none.
THEOREM EndIsExact == Game => []EndExact
<1>1. GameInv => EndExact
  <2> SUFFICES ASSUME GameInv PROVE EndExact
    OBVIOUS
  <2>1. \A who \in {MAN, COM} : ai_isend(board, who) <=> Line(who, board)
    BY EndIsLine
  <2> QED
    BY <2>1 DEF GameInv, EndExact
<1> QED
  BY <1>1, GameInvHolds, PTL

-----------------------------------------------------------------------------
(* The computer's move.  ai_npgo's loop stops at the first pattern, so that *)
(* the board ai_determine rates has stones and empty cells only.            *)

\* Some numbers none of which is above n have a largest one.
LEMMA LargestIs ==
  ASSUME NEW S, S \subseteq Int, S # {}, NEW n \in Int, \A x \in S : x <= n
  PROVE  \E x \in S : \A y \in S : y <= x
<1> DEFINE T == {n - x : x \in S}
           R == OpToRel(<, Nat)
<1>1. T \subseteq Nat /\ T # {}
  <2>1. \A x \in S : n - x \in Nat
    OBVIOUS
  <2> QED
    BY <2>1
<1>2. PICK t \in T : \A u \in T : ~(<<u, t>> \in R)
  <2>1. IsWellFoundedOn(R, Nat)
    BY NatLessThanWellFounded
  <2> HIDE DEF R, T
  <2> QED
    BY <1>1, <2>1, WFMin
<1>3. PICK x \in S : t = n - x
  OBVIOUS
<1>4. ASSUME NEW y \in S
      PROVE  y <= x
  <2>1. n - y \in T /\ n - y \in Nat /\ t \in Nat
    BY <1>1
  <2>2. ~(n - y < t)
    BY <1>2, <2>1 DEF OpToRel
  <2> QED
    BY <1>3, <2>2
<1> QED
  BY <1>4

LEMMA MaxIs ==
  ASSUME NEW n \in Nat, NEW S \in SUBSET (1 .. n), S # {}
  PROVE  Max(S) \in S
<1>1. S \subseteq Int /\ n \in Int /\ \A x \in S : x <= n
  OBVIOUS
<1>2. \E x \in S : \A y \in S : y <= x
  BY <1>1, LargestIs
<1>3. \E x \in S : \A y \in S : x >= y
  BY <1>1, <1>2
<1> QED
  BY <1>3 DEF Max

LEMMA RatesNothing ==
  ASSUME NEW b
  PROVE  RateByAll(b) = b
<1> DEFINE D == DOMAIN Patterns
           Body(g, s) ==
             IF s = {} THEN [b |-> b, done |-> FALSE]
             ELSE IF g[s \ {Max(s)}].done \/ Ends(Patterns[Max(s)])
                  THEN [g[s \ {Max(s)}] EXCEPT !.done = TRUE]
                  ELSE [g[s \ {Max(s)}] EXCEPT !.b = RateBy(@, Patterns[Max(s)])]
           it == CHOOSE g : g = [s \in SUBSET D |-> Body(g, s)]
           h == [s \in SUBSET D |-> [b |-> b, done |-> s # {}]]
<1>1. RateByAll(b) = it[D].b
  BY DEF RateByAll, FoldLeft, MapThenFoldSet
<1>2. PICK n \in Nat : D = 1 .. n
  BY OmokAssumption
<1>3. ASSUME NEW s \in SUBSET D, s # {}
      PROVE  Max(s) \in s /\ Ends(Patterns[Max(s)]) /\ s \ {Max(s)} \in SUBSET D
  <2>1. Max(s) \in s
    BY <1>2, <1>3, MaxIs
  <2>2. Max(s) \in D
    BY <2>1
  <2>3. Patterns[Max(s)] \in [flag : {"D", "A"}, p : Seq(Int)]
    <3> DEFINE Pattern == [flag : {"D", "A"}, p : Seq(Int)]
    <3>1. Patterns \in Seq(Pattern)
      BY OmokAssumption
    <3> HIDE DEF Pattern
    <3>2. Patterns[Max(s)] \in Pattern
      BY <2>2, <3>1
    <3> QED
      BY <3>2 DEF Pattern
  <2> QED
    BY <2>1, <2>3 DEF Ends
<1>4. h = [s \in SUBSET D |-> Body(h, s)]
  <2>1. ASSUME NEW s \in SUBSET D
        PROVE  h[s] = Body(h, s)
    BY <1>3, <2>1
  <2> QED
    BY <2>1
<1>5. it = [s \in SUBSET D |-> Body(it, s)]
  <2>1. \E g : g = [s \in SUBSET D |-> Body(g, s)]
    BY <1>4
  <2> QED
    BY <2>1
<1> DEFINE Good == [b : {b}, done : BOOLEAN]
           Bad == {s \in SUBSET D : it[s] \notin Good}
<1> HIDE DEF it, D
<1>6. Bad = {}
  <2> SUFFICES ASSUME Bad # {} PROVE FALSE
    OBVIOUS
  <2>1. IsWellFoundedOn(StrictSubsetOrdering(D), SUBSET D)
    <3>1. IsFiniteSet(D)
      BY <1>2, FS_Interval
    <3>2. FiniteSubsetsOf(D) = SUBSET D
      BY <3>1, FS_FiniteSubsetsOfFinite
    <3>3. IsWellFoundedOn(StrictSubsetOrdering(D), FiniteSubsetsOf(D))
      BY FS_StrictSubsetOrderingWellFounded
    <3> QED
      BY <3>2, <3>3
  <2>2. Bad \subseteq SUBSET D
    OBVIOUS
  <2>3. PICK s \in Bad : \A t \in Bad : ~(<<t, s>> \in StrictSubsetOrdering(D))
    <3> HIDE DEF Bad
    <3> QED
      BY <2>1, <2>2, WFMin
  <2>4. it[s] = Body(it, s)
    BY <1>5, <2>2
  <2>5. s # {}
    <3>1. s = {} => it[s] = [b |-> b, done |-> FALSE]
      BY <2>4
    <3>2. [b |-> b, done |-> FALSE] \in Good
      OBVIOUS
    <3> QED
      BY <3>1, <3>2
  <2>6. s \ {Max(s)} \notin Bad
    <3>1. <<s \ {Max(s)}, s>> \in StrictSubsetOrdering(D)
      BY <1>3, <2>5 DEF StrictSubsetOrdering
    <3> QED
      BY <2>3, <3>1
  <2>7. it[s \ {Max(s)}] \in Good
    BY <1>3, <2>5, <2>6
  <2>8. it[s] = [it[s \ {Max(s)}] EXCEPT !.done = TRUE]
    BY <1>3, <2>4, <2>5
  <2> QED
    BY <2>7, <2>8
<1> QED
  BY <1>1, <1>6

\* A board without ratings: the best rating is 0, which empty cells have.
LEMMA EmptyAreBest ==
  ASSUME NEW b \in [Cell -> {0, MAN, COM}]
  PROVE  Best(b) = {c \in Cell : b[c] = 0}
<1>1. Nice(b) = {}
  BY DEF Nice, MAN, COM, MAX_NICE
<1>2. ai_maxnice(b) = 0
  BY <1>1 DEF ai_maxnice
<1> QED
  BY <1>2 DEF Best

LEMMA AreaBounded ==
  ASSUME NEW c \in Cell
  PROVE  Area(c) \in Int /\ Area(c) <= MaxRow * MaxRow
<1>1. MaxRow \in Nat
  BY OmokAssumption
<1>2. c[1] \in 0 .. MaxRow - 1 /\ c[2] \in 0 .. MaxRow - 1
  BY DEF Cell, Index
<1>3. \A i \in 0 .. MaxRow - 1 : Distance(i) \in 0 .. MaxRow
  BY <1>1 DEF Distance, Least
<1>4. \A x, y \in 0 .. MaxRow : x * y \in Int /\ x * y <= MaxRow * MaxRow
  <2> SUFFICES ASSUME NEW x \in 0 .. MaxRow, NEW y \in 0 .. MaxRow
               PROVE  x * y \in Int /\ x * y <= MaxRow * MaxRow
    OBVIOUS
  <2>1. x * y <= x * MaxRow
    BY <1>1
  <2>2. x * MaxRow <= MaxRow * MaxRow
    BY <1>1
  <2> QED
    BY <1>1, <2>1, <2>2
<1> QED
  BY <1>2, <1>3, <1>4 DEF Area

\* The cell ai_determine chooses among good ones.
LEMMA DeterminesBest ==
  ASSUME NEW b, NEW e \in Best(b), Area(e) > 0
  PROVE  \A c \in ai_determine(b) : c \in Best(b)
<1> DEFINE inner == {c \in Best(b) : Area(c) > 0}
           large == {c \in inner : \A d \in inner : Area(d) <= Area(c)}
           first(c, d) == c[1] * MaxRow + c[2] <= d[1] * MaxRow + d[2]
           place(c) == c[1] * MaxRow + c[2]
<1>1. inner \subseteq Cell /\ inner # {}
  BY DEF Best
<1>2. \E c \in inner : \A d \in inner : Area(d) <= Area(c)
  <2> DEFINE S == {Area(c) : c \in inner}
  <2>1. S \subseteq Int /\ S # {} /\ \A x \in S : x <= MaxRow * MaxRow
    BY <1>1, AreaBounded
  <2>2. MaxRow * MaxRow \in Int
    BY OmokAssumption
  <2>3. PICK x \in S : \A y \in S : y <= x
    <3> HIDE DEF S
    <3> QED
      BY <2>1, <2>2, LargestIs
  <2> QED
    BY <2>3
<1>3. \E c \in large : \A d \in large : first(c, d)
  <2> DEFINE S == {-place(c) : c \in large}
  <2>1. \A c \in Cell : place(c) \in Int /\ -place(c) \in Int /\ -place(c) <= 0
    <3> SUFFICES ASSUME NEW c \in Cell
                 PROVE  place(c) \in Int /\ -place(c) \in Int /\ -place(c) <= 0
      OBVIOUS
    <3>1. c[1] \in Nat /\ c[2] \in Nat /\ MaxRow \in Nat
      BY OmokAssumption DEF Cell, Index
    <3>2. c[1] * MaxRow \in Nat
      BY <3>1
    <3> QED
      BY <3>1, <3>2
  <2>2. large \subseteq Cell /\ large # {}
    BY <1>1, <1>2
  <2> HIDE DEF large, place
  <2>3. S \subseteq Int /\ S # {} /\ \A x \in S : x <= 0
    BY <2>1, <2>2
  <2>4. PICK x \in S : \A y \in S : y <= x
    <3>1. \E n \in Int : \A x \in S : x <= n
      BY <2>3
    <3> HIDE DEF S
    <3> QED
      BY <2>3, <3>1, LargestIs
  <2>5. PICK c \in large : x = -place(c)
    OBVIOUS
  <2>6. ASSUME NEW d \in large
        PROVE  place(c) <= place(d)
    <3>1. -place(d) <= -place(c)
      BY <2>4, <2>5
    <3>2. place(c) \in Int /\ place(d) \in Int
      BY <2>1, <2>2
    <3> QED
      BY <3>1, <3>2
  <2> QED
    BY <2>6 DEF place
<1>4. ai_determine(b) = {CHOOSE c \in large : \A d \in large : first(c, d)}
  BY <1>1 DEF ai_determine
<1>5. (CHOOSE c \in large : \A d \in large : first(c, d)) \in large
  BY <1>3
<1> QED
  BY <1>4, <1>5

\* With whatever patterns: as long as a cell is free that is neither in the first
\* row nor in the first column, omok0001's reply has one stone of its own more, on
\* a cell that was free, and no stone of the player's is gone.
THEOREM StonePlaysFree == Game => PlaysFree
<1>1. GameInv /\ [GameNext]_gameVars =>
        [turn = "com" /\ stat' # 1 /\ (\E c \in Cell : board[c] = 0 /\ Area(c) > 0) =>
           \E c \in Cell : board[c] = 0 /\ board' = [board EXCEPT ![c] = COM]]_gameVars
  <2> SUFFICES ASSUME GameInv, GameNext, turn = "com", stat' # 1,
                      NEW e \in Cell, board[e] = 0, Area(e) > 0
               PROVE  \E c \in Cell : board[c] = 0 /\ board' = [board EXCEPT ![c] = COM]
    OBVIOUS
  <2>1. board \in [Cell -> {0, MAN, COM}]
    BY DEF GameInv, GameTypes
  <2>2. ComMoves
    BY DEF GameNext, ManMoves
  <2>3. PICK c \in ai_determine(RateByAll(board)) :
          board' = [d \in Cell |-> IF d = c THEN COM ELSE board[d]]
    BY <2>2 DEF ComMoves
  <2>4. e \in Best(board)
    BY <2>1, EmptyAreBest
  <2>5. c \in ai_determine(board)
    BY <2>3, RatesNothing
  <2>6. c \in Best(board)
    BY <2>4, <2>5, DeterminesBest
  <2>7. c \in Cell /\ board[c] = 0
    BY <2>1, <2>6, EmptyAreBest
  <2>8. board' = [board EXCEPT ![c] = COM]
    BY <2>1, <2>3, <2>7
  <2> QED
    BY <2>7, <2>8
<1> QED
  BY <1>1, GameInvHolds, PTL DEF Game, PlaysFree
=============================================================================
