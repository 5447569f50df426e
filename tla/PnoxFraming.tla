----------------------------- MODULE PnoxFraming -----------------------------
(***************************************************************************)
(* How a message is cut out of the bytes of a TCP connection.  Four        *)
(* programs have the same reader: service_user in pnoxsca, service_rta in  *)
(* pnoxrtc, service_rtc in pnoxrta and recv_thread in pnoxcli.  It reads a *)
(* header, then asks for as many bytes as the header says there are until  *)
(* it has them.  In the first three the socket does not block, and a read  *)
(* that finds nothing ends the message; the first and the last end the     *)
(* connection when a header is wrong, the two routers go on.               *)
(*                                                                         *)
(* A byte is the message it belongs to and its place in it.                *)
(***************************************************************************)
EXTENDS Integers, Sequences, FiniteSetsExt

CONSTANTS
  Kinds,      \* the readers: "session", "router" or "client"
  HeadLen,    \* bytes of a header
  MaxBody,    \* bound: bytes of data of a message
  MaxMsg      \* bound: messages

ASSUME FramingAssumption ==
  /\ Kinds \subseteq {"session", "router", "client"}
  /\ HeadLen \in Nat \ {0}
  /\ MaxBody \in Nat
  /\ MaxMsg \in Nat

Msg == 1 .. MaxMsg
Zero == <<0, 0>>     \* a byte of the cleared buffer

VARIABLES
  kind,     \* which reader it is
  split,    \* whether messages arrive in pieces
  body,     \* the length of the data of each message
  sent,     \* how many messages the sender has begun to write
  net,      \* bytes on their way
  shut,     \* the sender has closed
  buf,      \* bytes that have arrived
  pc,       \* "idle" in select, "body", or "end"
  rcv,      \* rcvb[0 .. rcvl - 1]
  datl,     \* what the header says
  passed    \* messages passed on: the header's, and the data

setVars == <<kind, split, body>>
vars == <<setVars, sent, net, shut, buf, pc, rcv, datl, passed>>

-----------------------------------------------------------------------------
Bytes(m) == [k \in 1 .. HeadLen + body[m] |-> <<m, k>>]
Data(m) == [k \in 1 .. body[m] |-> <<m, HeadLen + k>>]

Init ==
  /\ kind \in Kinds
  /\ split \in BOOLEAN
  /\ body \in [Msg -> 0 .. MaxBody]
  /\ sent = 0
  /\ net = <<>>
  /\ shut = FALSE
  /\ buf = <<>>
  /\ pc = "idle"
  /\ rcv = <<>>
  /\ datl = 0
  /\ passed = <<>>

\* The sender writes a message ...
SenderWrites ==
  /\ ~shut /\ sent < MaxMsg
  /\ sent' = sent + 1
  /\ net' = net \o Bytes(sent + 1)
  /\ UNCHANGED <<setVars, shut, buf, pc, rcv, datl, passed>>

\* ... or part of one, and closes: it fails, or its own socket took no more.
SenderCloses ==
  /\ ~shut /\ shut' = TRUE
  /\ \/ UNCHANGED <<sent, net>>
     \/ /\ sent < MaxMsg /\ split
        /\ sent' = sent + 1
        /\ \E n \in 1 .. Len(Bytes(sent + 1)) - 1 :
             net' = net \o SubSeq(Bytes(sent + 1), 1, n)
  /\ UNCHANGED <<setVars, buf, pc, rcv, datl, passed>>

\* Bytes arrive: all of a message, or one at a time.
Arriving == IF split THEN 1 ELSE HeadLen + body[net[1][1]]

Arrives ==
  /\ net # <<>>
  /\ buf' = buf \o SubSeq(net, 1, Arriving)
  /\ net' = SubSeq(net, Arriving + 1, Len(net))
  /\ UNCHANGED <<setVars, sent, shut, pc, rcv, datl, passed>>

Eof == shut /\ net = <<>> /\ buf = <<>>

-----------------------------------------------------------------------------
(* read(sock, b, n): what there is, at most n.                             *)
Taken(n) == SubSeq(buf, 1, Min({n, Len(buf)}))
Left(n) == SubSeq(buf, Min({n, Len(buf)}) + 1, Len(buf))

\* rcvb starts with the mask of a header: data has no such bytes.
Framed(r) == r[1][2] = 1

\* atoi of what stands where the length should be.
Announced(h) == IF Framed(h) THEN {body[h[1][1]]} ELSE 0 .. MaxBody

\* The whole header is there.
ReadHeader ==
  /\ pc = "idle" /\ Len(buf) >= HeadLen
  /\ rcv' = Taken(HeadLen)
  /\ buf' = Left(HeadLen)
  /\ datl' \in Announced(Taken(HeadLen))
  /\ pc' = "body"
  /\ UNCHANGED <<setVars, sent, net, shut, passed>>

\* The connection is over, or less than a header is there: the reader ends.
ReadHeaderFails ==
  /\ pc = "idle" /\ Len(buf) < HeadLen
  /\ buf # <<>> \/ Eof
  /\ pc' = "end"
  /\ UNCHANGED <<setVars, sent, net, shut, buf, rcv, datl, passed>>

Short == Len(rcv) < HeadLen + datl

\* Wrong variant: reads whatever there is.
ReadBodyGreedy ==
  /\ pc = "body" /\ Short /\ buf # <<>>
  /\ rcv' = rcv \o buf
  /\ buf' = <<>>
  /\ UNCHANGED <<setVars, sent, net, shut, pc, datl, passed>>

\* Asks for datl bytes each time, also when some have been read before.
ReadBody ==
  /\ pc = "body" /\ Short /\ buf # <<>>
  /\ rcv' = rcv \o Taken(datl)
  /\ buf' = Left(datl)
  /\ UNCHANGED <<setVars, sent, net, shut, pc, datl, passed>>

\* Wrong variant: waits for the rest on a socket that does not block.
ReadStopsBlocking ==
  pc = "body" /\ ~Short

\* Wrong variant: on any socket, what is there is enough.
ReadStopsWhenEmpty ==
  pc = "body" /\ (~Short \/ buf = <<>>)

\* The message is there, or, where the socket does not block, no more of it is.
ReadStops ==
  /\ pc = "body"
  /\ ~Short \/ (buf = <<>> /\ kind # "client")

\* The mask is not there: the connection is closed ...
FormatErrorCloses ==
  /\ kind # "router"
  /\ pc' = "end"

\* ... or, in a router, the reader takes the next bytes for a header.
FormatErrorSkips ==
  /\ kind = "router"
  /\ pc' = "idle"

FormatError ==
  /\ ReadStops /\ ~Framed(rcv)
  /\ FormatErrorCloses \/ FormatErrorSkips
  /\ rcv' = <<>>
  /\ UNCHANGED <<setVars, sent, net, shut, buf, datl, passed>>

\* The message is passed on with datl bytes of the buffer, read or not.
Pass ==
  /\ ReadStops /\ Framed(rcv)
  /\ passed' = Append(passed, [msg |-> rcv[1][1],
                 data |-> [k \in 1 .. datl |-> IF HeadLen + k <= Len(rcv)
                                               THEN rcv[HeadLen + k] ELSE Zero]])
  /\ pc' = "idle"
  /\ rcv' = <<>>
  /\ UNCHANGED <<setVars, sent, net, shut, buf, datl>>

Reader == ReadHeader \/ ReadHeaderFails \/ ReadBody \/ FormatError \/ Pass

Next == SenderWrites \/ SenderCloses \/ Arrives \/ Reader

Spec == Init /\ [][Next]_vars

\* Bytes arrive in the end, and the reader reads what there is.
FairSpec == Spec /\ WF_vars(Arrives) /\ WF_vars(Reader)

-----------------------------------------------------------------------------
(* Properties.                                                             *)

Whole(p) == p.data = Data(p.msg)

\* No message is passed on twice or late.  When every message arrives in one
\* piece, those passed on are those that were sent, each with its own data (the
\* header's dlen, pnox.h).  Where messages arrive in pieces, a session may pass on
\* one without all of its data, but then no other: it takes the rest of the data
\* for a header and ends.  A client, whose socket blocks, never does.
Intact ==
  \A i \in DOMAIN passed :
    /\ \A j \in 1 .. i - 1 : passed[j].msg < passed[i].msg
    /\ ~split => passed[i].msg = i
    /\ \/ Whole(passed[i])
       \/ split /\ (kind = "router" \/ (kind = "session" /\ i = Len(passed)))

\* A reader on a socket that does not block ends when the other side has closed,
\* wherever in a message that is.
EndsAtEof == shut /\ kind # "client" ~> pc = "end"
=============================================================================
