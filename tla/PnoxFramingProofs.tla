-------------------------- MODULE PnoxFramingProofs --------------------------
(***************************************************************************)
(* Proofs about PnoxFraming, for any number of messages, any length of     *)
(* their headers and data, and any way they arrive.                        *)
(*                                                                         *)
(* What has been read, has arrived and is on its way is a stretch of what  *)
(* was sent.  FramingInv says which one, and what the place where it       *)
(* begins says of the messages passed on.                                  *)
(***************************************************************************)
EXTENDS PnoxFraming, SequenceTheorems, TLAPS

Byte == Nat \X Nat
Passed == [msg : Nat, data : Seq(Byte)]

Full(m) == HeadLen + body[m]
Stream == rcv \o (buf \o net)

Types ==
  /\ kind \in Kinds /\ split \in BOOLEAN
  /\ body \in [Msg -> 0 .. MaxBody]
  /\ sent \in 0 .. MaxMsg
  /\ shut \in BOOLEAN
  /\ pc \in {"idle", "body", "end"}
  /\ datl \in 0 .. MaxBody
  /\ rcv \in Seq(Byte) /\ buf \in Seq(Byte) /\ net \in Seq(Byte)
  /\ passed \in Seq(Passed)

\* The bytes of s are bytes of messages sent, in their order; a byte is followed
\* by the rest of its message, and a whole message by the next one.
OfSent(s) ==
  \A i \in 1 .. Len(s) : s[i][1] \in 1 .. sent /\ s[i][2] \in 1 .. Full(s[i][1])

Later(x, y) == x[1] < y[1] \/ (x[1] = y[1] /\ x[2] < y[2])
InOrder(s) == \A i, j \in 1 .. Len(s) : i < j => Later(s[i], s[j])

InRuns(s) ==
  \A i, j \in 1 .. Len(s) :
    i <= j /\ s[i][2] + (j - i) <= Full(s[i][1]) =>
      s[j][1] = s[i][1] /\ s[j][2] = s[i][2] + (j - i)

Follows(s) ==
  \A i \in 1 .. Len(s) :
    s[i][2] = Full(s[i][1]) /\ i + 1 <= Len(s) =>
      s[i + 1][1] = s[i][1] + 1 /\ s[i + 1][2] = 1

Flows(s) == OfSent(s) /\ InOrder(s) /\ InRuns(s) /\ Follows(s)

\* The last byte is the last one sent: the end of a message, unless the sender
\* has closed in the middle of one.
LastSent(s) ==
  s # <<>> =>
    /\ s[Len(s)][1] = sent
    /\ ~shut \/ ~split => s[Len(s)][2] = Full(sent)

StreamInv == Flows(Stream) /\ LastSent(Stream)

\* While a body is read the header is there, and datl is what it says.
ReadInv ==
  /\ pc # "body" => rcv = <<>>
  /\ pc = "body" => /\ Len(rcv) >= HeadLen
                    /\ Framed(rcv) => datl = body[rcv[1][1]]

\* No message is passed on twice or late, and what comes belongs to later ones,
\* or to the rest of one.
OrderInv ==
  \A i \in 1 .. Len(passed) :
    /\ \A j \in 1 .. i - 1 : passed[j].msg < passed[i].msg
    /\ passed[i].msg \in 1 .. sent
    /\ \A k \in 1 .. Len(Stream) :
         passed[i].msg < Stream[k][1] \/ (passed[i].msg = Stream[k][1] /\ Stream[k][2] > 1)

\* No header is found any more: the reader has ended, stands within a message,
\* or nothing comes.
Lost ==
  \/ pc = "end"
  \/ Stream = <<>> /\ shut
  \/ Stream # <<>> /\ Stream[1][2] # 1

\* A message without all of its data is the last one a session passes on.
WholeInv ==
  \A i \in 1 .. Len(passed) :
    \/ Whole(passed[i])
    \/ split /\ kind = "router"
    \/ split /\ kind = "session" /\ i = Len(passed) /\ Lost

\* Messages that arrive in one piece are in one piece wherever they are.
PieceInv ==
  ~split =>
    /\ buf # <<>> => buf[Len(buf)][2] = Full(buf[Len(buf)][1])
    /\ net # <<>> => net[1][2] = 1
    /\ \A i \in 1 .. Len(passed) : passed[i].msg = i
    /\ Stream # <<>> => Stream[1][1] = Len(passed) + 1 /\ Stream[1][2] = 1
    /\ Stream = <<>> => sent = Len(passed)
    /\ pc = "body" => Len(rcv) = HeadLen \/ Len(rcv) = HeadLen + datl

FramingInv ==
  Types /\ StreamInv /\ ReadInv /\ OrderInv /\ WholeInv /\ PieceInv

-----------------------------------------------------------------------------
(* Sequences of bytes.                                                       *)

LEMMA FullType ==
  ASSUME Types, NEW m \in 1 .. sent
  PROVE  m \in Msg /\ body[m] \in 0 .. MaxBody /\ Full(m) \in Nat /\ Full(m) >= HeadLen
BY FramingAssumption DEF Types, Msg, Full

LEMMA MinIs ==
  ASSUME NEW m \in Nat, NEW n \in Nat
  PROVE  Min({m, n}) = IF m <= n THEN m ELSE n
<1>1. \E x \in {m, n} : \A y \in {m, n} : x <= y
  OBVIOUS
<1>2. Min({m, n}) \in {m, n} /\ \A y \in {m, n} : Min({m, n}) <= y
  BY <1>1 DEF Min
<1> QED
  BY <1>2

\* The two parts of a sequence that is cut at n.
LEMMA Cut ==
  ASSUME NEW s \in Seq(Byte), NEW n \in 0 .. Len(s)
  PROVE  /\ SubSeq(s, 1, n) \in Seq(Byte) /\ Len(SubSeq(s, 1, n)) = n
         /\ \A i \in 1 .. n : SubSeq(s, 1, n)[i] = s[i]
         /\ SubSeq(s, n + 1, Len(s)) \in Seq(Byte)
         /\ Len(SubSeq(s, n + 1, Len(s))) = Len(s) - n
         /\ \A i \in 1 .. Len(s) - n : SubSeq(s, n + 1, Len(s))[i] = s[n + i]
         /\ SubSeq(s, 1, n) \o SubSeq(s, n + 1, Len(s)) = s
<1>1. Len(s) \in Nat /\ \A i \in 1 .. Len(s) : s[i] \in Byte
  BY LenProperties, ElementOfSeq
<1>2. /\ SubSeq(s, 1, n) \in Seq(Byte) /\ Len(SubSeq(s, 1, n)) = n
      /\ \A i \in 1 .. n : SubSeq(s, 1, n)[i] = s[i]
  BY <1>1, SubSeqProperties
<1>3. /\ SubSeq(s, n + 1, Len(s)) \in Seq(Byte)
      /\ Len(SubSeq(s, n + 1, Len(s))) = Len(s) - n
      /\ \A i \in 1 .. Len(s) - n : SubSeq(s, n + 1, Len(s))[i] = s[n + i]
  BY <1>1, SubSeqProperties
<1>4. SubSeq(s, 1, n) \o SubSeq(s, n + 1, Len(s)) = s
  <2>1. 1 \in 1 .. Len(s) + 1 /\ n \in (1 - 1) .. Len(s) /\ Len(s) \in n .. Len(s)
    BY <1>1
  <2>2. SubSeq(s, 1, n) \o SubSeq(s, n + 1, Len(s)) = SubSeq(s, 1, Len(s))
    BY <2>1, ConcatAdjacentSubSeq, Zenon
  <2> QED
    BY <2>2, SubSeqFull
<1> QED
  BY <1>2, <1>3, <1>4

LEMMA TakenLeft ==
  ASSUME Types, NEW n \in Nat
  PROVE  LET k == IF n <= Len(buf) THEN n ELSE Len(buf)
         IN  /\ Taken(n) \in Seq(Byte) /\ Len(Taken(n)) = k
             /\ \A i \in 1 .. k : Taken(n)[i] = buf[i]
             /\ Left(n) \in Seq(Byte) /\ Len(Left(n)) = Len(buf) - k
             /\ \A i \in 1 .. Len(buf) - k : Left(n)[i] = buf[k + i]
             /\ Taken(n) \o Left(n) = buf
<1> DEFINE k == IF n <= Len(buf) THEN n ELSE Len(buf)
<1>1. buf \in Seq(Byte) /\ Len(buf) \in Nat
  BY LenProperties DEF Types
<1>2. Min({n, Len(buf)}) = k
  BY <1>1, MinIs
<1>3. k \in 0 .. Len(buf)
  BY <1>1
<1>4. Taken(n) = SubSeq(buf, 1, k) /\ Left(n) = SubSeq(buf, k + 1, Len(buf))
  BY <1>2 DEF Taken, Left
<1> HIDE DEF k
<1>5. /\ Taken(n) \in Seq(Byte) /\ Len(Taken(n)) = k
      /\ \A i \in 1 .. k : Taken(n)[i] = buf[i]
      /\ Left(n) \in Seq(Byte) /\ Len(Left(n)) = Len(buf) - k
      /\ \A i \in 1 .. Len(buf) - k : Left(n)[i] = buf[k + i]
      /\ Taken(n) \o Left(n) = buf
  BY <1>1, <1>3, <1>4, Cut
<1> QED
  BY <1>5 DEF k

LEMMA StreamIs ==
  ASSUME Types
  PROVE  /\ Stream \in Seq(Byte)
         /\ Len(rcv) \in Nat /\ Len(buf) \in Nat /\ Len(net) \in Nat
         /\ Len(Stream) = Len(rcv) + (Len(buf) + Len(net))
         /\ \A i \in 1 .. Len(rcv) : Stream[i] = rcv[i]
         /\ \A i \in 1 .. Len(buf) : Stream[Len(rcv) + i] = buf[i]
         /\ \A i \in 1 .. Len(net) : Stream[Len(rcv) + Len(buf) + i] = net[i]
<1>1. rcv \in Seq(Byte) /\ buf \in Seq(Byte) /\ net \in Seq(Byte)
  BY DEF Types
<1>2. Len(rcv) \in Nat /\ Len(buf) \in Nat /\ Len(net) \in Nat
  BY <1>1, LenProperties
<1>3. /\ buf \o net \in Seq(Byte) /\ Len(buf \o net) = Len(buf) + Len(net)
      /\ \A i \in 1 .. Len(buf) + Len(net) :
           (buf \o net)[i] = IF i <= Len(buf) THEN buf[i] ELSE net[i - Len(buf)]
  BY <1>1, ConcatProperties
<1>4. /\ Stream \in Seq(Byte) /\ Len(Stream) = Len(rcv) + Len(buf \o net)
      /\ \A i \in 1 .. Len(rcv) + Len(buf \o net) :
           Stream[i] = IF i <= Len(rcv) THEN rcv[i] ELSE (buf \o net)[i - Len(rcv)]
  BY <1>1, <1>3, ConcatProperties DEF Stream
<1>5. Len(Stream) = Len(rcv) + (Len(buf) + Len(net))
  BY <1>3, <1>4
<1>6. \A i \in 1 .. Len(rcv) : Stream[i] = rcv[i]
  BY <1>2, <1>3, <1>4
<1>7. ASSUME NEW i \in 1 .. Len(buf) PROVE Stream[Len(rcv) + i] = buf[i]
  <2> DEFINE j == Len(rcv) + i
  <2>1. /\ j \in 1 .. Len(rcv) + Len(buf \o net)
        /\ ~(j <= Len(rcv)) /\ j - Len(rcv) = i
    BY <1>2, <1>3
  <2>2. Stream[j] = (buf \o net)[i]
    BY <1>4, <2>1
  <2>3. i \in 1 .. Len(buf) + Len(net) /\ i <= Len(buf)
    BY <1>2
  <2> QED
    BY <1>3, <2>2, <2>3
<1>8. ASSUME NEW i \in 1 .. Len(net)
      PROVE  Stream[Len(rcv) + Len(buf) + i] = net[i]
  <2> DEFINE j == Len(rcv) + Len(buf) + i
  <2>1. /\ j \in 1 .. Len(rcv) + Len(buf \o net)
        /\ ~(j <= Len(rcv)) /\ j - Len(rcv) = Len(buf) + i
    BY <1>2, <1>3
  <2>2. Stream[j] = (buf \o net)[Len(buf) + i]
    BY <1>4, <2>1
  <2>3. Len(buf) + i \in 1 .. Len(buf) + Len(net) /\ ~(Len(buf) + i <= Len(buf))
        /\ (Len(buf) + i) - Len(buf) = i
    BY <1>2
  <2> QED
    BY <1>3, <2>2, <2>3
<1> QED
  BY <1>2, <1>4, <1>5, <1>6, <1>7, <1>8

\* The end of a stretch is a stretch.
LEMMA SuffixFlows ==
  ASSUME Types, NEW s \in Seq(Byte), NEW u \in Seq(Byte), NEW n \in 0 .. Len(s),
         Len(u) = Len(s) - n, \A i \in 1 .. Len(u) : u[i] = s[n + i],
         Flows(s), LastSent(s)
  PROVE  Flows(u) /\ LastSent(u)
<1>1. Len(s) \in Nat /\ Len(u) \in Nat
  BY LenProperties
<1>2. \A i \in 1 .. Len(u) : n + i \in 1 .. Len(s)
  BY <1>1
<1>3. OfSent(u)
  BY <1>2 DEF Flows, OfSent
<1>4. InOrder(u)
  <2> SUFFICES ASSUME NEW i \in 1 .. Len(u), NEW j \in 1 .. Len(u), i < j
               PROVE  Later(u[i], u[j])
    BY DEF InOrder
  <2>1. n + i \in 1 .. Len(s) /\ n + j \in 1 .. Len(s) /\ n + i < n + j
    BY <1>1, <1>2
  <2> QED
    BY <2>1 DEF Flows, InOrder
<1>5. InRuns(u)
  <2> SUFFICES ASSUME NEW i \in 1 .. Len(u), NEW j \in 1 .. Len(u), i <= j,
                      u[i][2] + (j - i) <= Full(u[i][1])
               PROVE  u[j][1] = u[i][1] /\ u[j][2] = u[i][2] + (j - i)
    BY DEF InRuns
  <2>1. n + i \in 1 .. Len(s) /\ n + j \in 1 .. Len(s) /\ n + i <= n + j
    BY <1>1, <1>2
  <2>2. (n + j) - (n + i) = j - i
    BY <1>1
  <2>3. s[n + i][2] + ((n + j) - (n + i)) <= Full(s[n + i][1])
    BY <2>2
  <2>4. /\ s[n + j][1] = s[n + i][1]
        /\ s[n + j][2] = s[n + i][2] + ((n + j) - (n + i))
    BY <2>1, <2>3, Zenon DEF Flows, InRuns
  <2> QED
    BY <2>2, <2>4
<1>6. Follows(u)
  <2> SUFFICES ASSUME NEW i \in 1 .. Len(u), u[i][2] = Full(u[i][1]), i + 1 <= Len(u)
               PROVE  u[i + 1][1] = u[i][1] + 1 /\ u[i + 1][2] = 1
    BY DEF Follows
  <2>1. n + i \in 1 .. Len(s) /\ (n + i) + 1 <= Len(s)
    BY <1>1, <1>2
  <2>2. u[i] = s[n + i] /\ u[i + 1] = s[(n + i) + 1]
    BY <1>1
  <2> QED
    BY <2>1, <2>2 DEF Flows, Follows
<1>7. LastSent(u)
  <2> SUFFICES ASSUME u # <<>> PROVE u[Len(u)] = s[Len(s)] /\ s # <<>>
    BY DEF LastSent
  <2>1. Len(u) # 0
    BY <1>1, EmptySeq
  <2> QED
    BY <1>1, <2>1, EmptySeq
<1> QED
  BY <1>3, <1>4, <1>5, <1>6, <1>7 DEF Flows

\* What reading takes from its front.
LEMMA Consumed ==
  ASSUME Types, Types', StreamInv, rcv' = <<>>,
         UNCHANGED <<buf, net, body, sent, shut, split>>
  PROVE  /\ StreamInv'
         /\ Len(Stream') = Len(Stream) - Len(rcv)
         /\ \A i \in 1 .. Len(Stream') : Stream'[i] = Stream[Len(rcv) + i]
<1>1. /\ Stream \in Seq(Byte) /\ Len(Stream) = Len(rcv) + (Len(buf) + Len(net))
      /\ Len(rcv) \in Nat /\ Len(buf) \in Nat /\ Len(net) \in Nat
      /\ \A i \in 1 .. Len(buf) : Stream[Len(rcv) + i] = buf[i]
      /\ \A i \in 1 .. Len(net) : Stream[Len(rcv) + Len(buf) + i] = net[i]
  BY StreamIs
<1>2. buf \o net \in Seq(Byte) /\ Stream' = buf \o net
  BY ConcatProperties, ConcatEmptySeq DEF Types, Stream
<1>3. /\ Len(buf \o net) = Len(buf) + Len(net)
      /\ \A i \in 1 .. Len(buf) + Len(net) :
           (buf \o net)[i] = IF i <= Len(buf) THEN buf[i] ELSE net[i - Len(buf)]
  BY ConcatProperties DEF Types
<1>4. ASSUME NEW i \in 1 .. Len(Stream') PROVE Stream'[i] = Stream[Len(rcv) + i]
  <2>1. CASE i <= Len(buf)
    BY <1>1, <1>2, <1>3, <2>1
  <2>2. CASE ~(i <= Len(buf))
    <3>1. i - Len(buf) \in 1 .. Len(net)
      BY <1>1, <1>2, <1>3, <2>2
    <3>2. Len(rcv) + Len(buf) + (i - Len(buf)) = Len(rcv) + i
      BY <1>1, <1>2, <1>3
    <3> QED
      BY <1>1, <1>2, <1>3, <2>2, <3>1, <3>2
  <2> QED
    BY <2>1, <2>2
<1>5. Len(Stream') = Len(Stream) - Len(rcv) /\ Len(rcv) \in 0 .. Len(Stream)
  BY <1>1, <1>2, <1>3
<1> DEFINE u == buf \o net
<1>6. /\ u \in Seq(Byte) /\ Len(u) = Len(Stream) - Len(rcv)
      /\ \A i \in 1 .. Len(u) : u[i] = Stream[Len(rcv) + i]
  BY <1>2, <1>4, <1>5
<1> HIDE DEF u
<1>7. Flows(u) /\ LastSent(u)
  BY <1>1, <1>5, <1>6, SuffixFlows DEF StreamInv
<1>8. Stream' = u
  BY <1>2 DEF u
<1>9. StreamInv'
  BY <1>7, <1>8
     DEF StreamInv, Flows, LastSent, OfSent, InOrder, InRuns, Follows, Later, Full
<1> QED
  BY <1>4, <1>5, <1>9

\* Concatenation under a name of its own, which keeps it whole for the provers.
Cat(s, t) == s \o t

LEMMA CatAssociates ==
  \A s, t, v \in Seq(Byte) :
    Cat(s, t) \in Seq(Byte) /\ Cat(s, Cat(t, v)) = Cat(Cat(s, t), v)
<1> SUFFICES ASSUME NEW s \in Seq(Byte), NEW t \in Seq(Byte), NEW v \in Seq(Byte)
             PROVE  Cat(s, t) \in Seq(Byte) /\ Cat(s, Cat(t, v)) = Cat(Cat(s, t), v)
  OBVIOUS
<1>1. s \o t \in Seq(Byte)
  BY ConcatProperties
<1>2. s \o (t \o v) = (s \o t) \o v
  BY ConcatAssociative
<1> QED
  BY <1>1, <1>2 DEF Cat

LEMMA AtEnd ==
  ASSUME Types, NEW t \in Seq(Byte), net' = net \o t, UNCHANGED <<rcv, buf>>
  PROVE  Stream' = Stream \o t
<1>1. rcv \in Seq(Byte) /\ buf \in Seq(Byte) /\ net \in Seq(Byte)
  BY DEF Types
<1>2. Cat(rcv, Cat(buf, Cat(net, t))) = Cat(Cat(rcv, Cat(buf, net)), t)
  BY <1>1, CatAssociates
<1>3. Stream' = rcv \o (buf \o (net \o t))
  BY DEF Stream
<1> QED
  BY <1>2, <1>3 DEF Stream, Cat

\* Bytes that move on within the stream leave it what it is.
LEMMA Moves ==
  ASSUME Types, NEW t \in Seq(Byte), NEW v \in Seq(Byte),
         \/ net = t \o v /\ net' = v /\ buf' = buf \o t /\ rcv' = rcv
         \/ buf = t \o v /\ buf' = v /\ rcv' = rcv \o t /\ net' = net
  PROVE  Stream' = Stream
<1>1. rcv \in Seq(Byte) /\ buf \in Seq(Byte) /\ net \in Seq(Byte)
  BY DEF Types
<1>2. /\ Cat(buf, Cat(t, v)) = Cat(Cat(buf, t), v)
      /\ Cat(rcv, Cat(Cat(t, v), net)) = Cat(Cat(rcv, t), Cat(v, net))
  BY <1>1, CatAssociates
<1>3. CASE net = t \o v /\ net' = v /\ buf' = buf \o t /\ rcv' = rcv
  BY <1>2, <1>3 DEF Stream, Cat
<1>4. CASE buf = t \o v /\ buf' = v /\ rcv' = rcv \o t /\ net' = net
  BY <1>2, <1>4 DEF Stream, Cat
<1> QED
  BY <1>3, <1>4

\* What the sender adds at its end: a message, or, before it closes, part of one.
LEMMA Grows ==
  ASSUME Types, Types', StreamInv, ~shut, sent < MaxMsg,
         NEW n \in 1 .. Full(sent + 1), NEW t \in Seq(Byte), Len(t) = n,
         \A k \in 1 .. n : t[k][1] = sent + 1 /\ t[k][2] = k,
         net' = net \o t, sent' = sent + 1, UNCHANGED <<body, split, rcv, buf>>,
         ~shut' \/ ~split => n = Full(sent + 1)
  PROVE  /\ StreamInv'
         /\ Len(Stream') = Len(Stream) + n
         /\ \A i \in 1 .. Len(Stream) : Stream'[i] = Stream[i]
         /\ \A k \in 1 .. n : /\ Stream'[Len(Stream) + k][1] = sent + 1
                              /\ Stream'[Len(Stream) + k][2] = k
<1> DEFINE L == Len(Stream)
           u == Stream'
<1>1. Stream \in Seq(Byte) /\ L \in Nat
  BY StreamIs, LenProperties
<1>2. u = Stream \o t
  BY AtEnd
<1>3. /\ u \in Seq(Byte) /\ Len(u) = L + n
      /\ \A i \in 1 .. L + n : u[i] = IF i <= L THEN Stream[i] ELSE t[i - L]
  BY <1>1, <1>2, ConcatProperties
<1>4. \A i \in 1 .. L : u[i] = Stream[i]
  BY <1>1, <1>3
<1>5. ASSUME NEW i \in 1 .. Len(u), i > L
      PROVE  u[i][1] = sent + 1 /\ u[i][2] = i - L
  <2>1. i - L \in 1 .. n /\ u[i] = t[i - L]
    BY <1>1, <1>3, <1>5
  <2> QED
    BY <2>1
<1>6. sent \in Nat /\ Full(sent + 1) \in Nat
  <2>1. sent + 1 \in Msg /\ sent \in Nat
    BY FramingAssumption DEF Types, Msg
  <2>2. body[sent + 1] \in 0 .. MaxBody
    BY <2>1 DEF Types
  <2> QED
    BY <2>1, <2>2, FramingAssumption DEF Full
<1>7. ASSUME NEW i \in 1 .. L
      PROVE  /\ Stream[i][1] \in Nat /\ 1 <= Stream[i][1] /\ Stream[i][1] <= sent
             /\ Stream[i][2] \in Nat /\ 1 <= Stream[i][2]
             /\ Full(Stream[i][1]) \in Nat /\ Stream[i][2] <= Full(Stream[i][1])
  <2>1. Stream[i][1] \in 1 .. sent /\ Stream[i][2] \in 1 .. Full(Stream[i][1])
    BY DEF StreamInv, Flows, OfSent
  <2>2. Full(Stream[i][1]) \in Nat
    BY <2>1, FullType
  <2> QED
    BY <1>6, <2>1, <2>2
<1>b. L > 0 => Stream[L][1] = sent /\ Stream[L][2] = Full(sent)
  BY <1>1, EmptySeq DEF StreamInv, LastSent
<1>a. \A m : Full(m)' = Full(m)
  BY DEF Full
<1> HIDE DEF L, u
<1>8. \A i \in 1 .. Len(u) : u[i][1] \in 1 .. sent + 1 /\ u[i][2] \in 1 .. Full(u[i][1])
  <2> SUFFICES ASSUME NEW i \in 1 .. Len(u)
               PROVE  u[i][1] \in 1 .. sent + 1 /\ u[i][2] \in 1 .. Full(u[i][1])
    OBVIOUS
  <2>1. CASE i <= L
    <3>1. i \in 1 .. L
      BY <1>1, <2>1
    <3>2. u[i] = Stream[i]
      BY <1>4, <3>1
    <3>3. u[i][1] \in Nat /\ 1 <= u[i][1] /\ u[i][1] <= sent
      BY <1>7, <3>1, <3>2
    <3>4. /\ u[i][2] \in Nat /\ 1 <= u[i][2]
          /\ Full(u[i][1]) \in Nat /\ u[i][2] <= Full(u[i][1])
      BY <1>7, <3>1, <3>2
    <3>5. u[i][1] \in 1 .. sent + 1
      BY <1>6, <3>3
    <3> QED
      BY <3>4, <3>5
  <2>2. CASE i > L
    <3>1. u[i][1] = sent + 1 /\ u[i][2] = i - L
      BY <1>5, <2>2
    <3>2. i - L \in 1 .. Full(sent + 1)
      BY <1>1, <1>3, <1>6, <2>2
    <3>3. sent + 1 \in 1 .. sent + 1
      BY <1>6
    <3> QED
      BY <3>1, <3>2, <3>3
  <2> QED
    BY <1>1, <2>1, <2>2
<1>9. ASSUME NEW i \in 1 .. Len(u), NEW j \in 1 .. Len(u), i < j
      PROVE  Later(u[i], u[j])
  <2>1. CASE j <= L
    <3>1. i \in 1 .. L /\ j \in 1 .. L
      BY <1>1, <1>9, <2>1
    <3>2. Later(Stream[i], Stream[j])
      BY <1>9, <3>1 DEF StreamInv, Flows, InOrder, L
    <3> QED
      BY <1>4, <3>1, <3>2
  <2>2. CASE i <= L /\ j > L
    <3>1. i \in 1 .. L
      BY <1>1, <2>2
    <3>2. u[i][1] \in Nat /\ u[i][1] <= sent
      BY <1>4, <1>7, <3>1
    <3>3. u[j][1] = sent + 1
      BY <1>5, <2>2
    <3> QED
      BY <1>6, <3>2, <3>3 DEF Later
  <2>3. CASE i > L
    BY <1>1, <1>3, <1>5, <1>6, <1>9, <2>3 DEF Later
  <2> QED
    BY <1>1, <1>9, <2>1, <2>2, <2>3
<1>10. ASSUME NEW i \in 1 .. Len(u), NEW j \in 1 .. Len(u), i <= j,
              u[i][2] + (j - i) <= Full(u[i][1])
       PROVE  u[j][1] = u[i][1] /\ u[j][2] = u[i][2] + (j - i)
  <2>1. CASE j <= L
    <3>1. i \in 1 .. L /\ j \in 1 .. L /\ u[i] = Stream[i] /\ u[j] = Stream[j]
      BY <1>1, <1>4, <1>10, <2>1
    <3>2. Stream[i][2] + (j - i) <= Full(Stream[i][1])
      BY <1>10, <3>1
    <3>3. Stream[j][1] = Stream[i][1] /\ Stream[j][2] = Stream[i][2] + (j - i)
      BY <1>10, <3>1, <3>2, Zenon DEF StreamInv, Flows, InRuns, L
    <3> QED
      BY <3>1, <3>3
  <2>2. CASE i <= L /\ j > L
    <3>1. i \in 1 .. L /\ L \in 1 .. L /\ i <= L /\ u[i] = Stream[i]
      BY <1>1, <1>4, <2>2
    <3>2. Stream[i][2] + (j - i) <= Full(Stream[i][1])
      BY <1>10, <3>1
    <3>3. Stream[i][2] \in Nat /\ Full(Stream[i][1]) \in Nat
      BY <1>7, <3>1
    <3>4. Stream[i][2] + (L - i) <= Full(Stream[i][1])
      <4> DEFINE x == Stream[i][2]
                 f == Full(Stream[i][1])
      <4>1. x \in Nat /\ f \in Nat /\ x + (j - i) <= f
        BY <3>2, <3>3
      <4> HIDE DEF x, f
      <4>2. x + (L - i) <= f
        BY <1>1, <2>2, <4>1
      <4> QED
        BY <4>2 DEF x, f
    <3>5. Stream[L][1] = Stream[i][1] /\ Stream[L][2] = Stream[i][2] + (L - i)
      BY <3>1, <3>4, Zenon DEF StreamInv, Flows, InRuns, L
    <3>6. Stream[L][1] = sent /\ Stream[L][2] = Full(sent)
      BY <1>1, <1>b, <2>2, <3>1
    <3>7. Full(Stream[i][1]) = Stream[i][2] + (L - i)
      BY <3>5, <3>6
    <3> QED
      BY <1>1, <2>2, <3>1, <3>2, <3>3, <3>7
  <2>3. CASE i > L
    BY <1>1, <1>3, <1>5, <1>6, <1>10, <2>3
  <2> QED
    BY <1>1, <1>10, <2>1, <2>2, <2>3
<1>11. ASSUME NEW i \in 1 .. Len(u), u[i][2] = Full(u[i][1]), i + 1 <= Len(u)
       PROVE  u[i + 1][1] = u[i][1] + 1 /\ u[i + 1][2] = 1
  <2>1. CASE i + 1 <= L
    <3>1. i \in 1 .. L /\ i + 1 \in 1 .. L
      BY <1>1, <2>1
    <3>2. u[i] = Stream[i] /\ u[i + 1] = Stream[i + 1]
      BY <1>4, <3>1
    <3> QED
      BY <1>11, <2>1, <3>1, <3>2 DEF StreamInv, Flows, Follows, L
  <2>2. CASE i = L
    <3>1. i \in 1 .. L /\ i + 1 \in 1 .. Len(u) /\ i + 1 > L /\ (i + 1) - L = 1
      BY <1>1, <1>3, <1>11, <2>2
    <3>2. u[i + 1][1] = sent + 1 /\ u[i + 1][2] = 1
      BY <1>5, <3>1
    <3>3. u[i][1] = sent
      BY <1>4, <1>b, <2>2, <3>1
    <3> QED
      BY <3>2, <3>3
  <2>3. CASE i > L
    BY <1>1, <1>3, <1>5, <1>6, <1>11, <2>3
  <2> QED
    BY <1>1, <2>1, <2>2, <2>3
<1>12. /\ u[Len(u)][1] = sent + 1
       /\ ~shut' \/ ~split => u[Len(u)][2] = Full(sent + 1)
  BY <1>1, <1>3, <1>5
<1>13. StreamInv'
  <2>1. OfSent(Stream)' /\ InOrder(Stream)'
    BY <1>8, <1>9, <1>a DEF OfSent, InOrder, Later, u
  <2>2. InRuns(Stream)'
    BY <1>10, <1>a DEF InRuns, u
  <2>3. Follows(Stream)'
    BY <1>11, <1>a DEF Follows, u
  <2>4. LastSent(Stream)'
    BY <1>12, <1>a DEF LastSent, u
  <2> QED
    BY <2>1, <2>2, <2>3, <2>4 DEF StreamInv, Flows
<1>14. \A k \in 1 .. n : u[L + k][1] = sent + 1 /\ u[L + k][2] = k
  <2> SUFFICES ASSUME NEW k \in 1 .. n PROVE u[L + k][1] = sent + 1 /\ u[L + k][2] = k
    OBVIOUS
  <2>1. L + k \in 1 .. Len(u) /\ L + k > L /\ (L + k) - L = k
    BY <1>1, <1>3
  <2> QED
    BY <1>5, <2>1
<1> QED
  BY <1>3, <1>4, <1>13, <1>14 DEF L, u

-----------------------------------------------------------------------------
(* What the invariants say to a reader within a message.                     *)

\* A message whose header was read at its place is what comes next, as far as
\* it has been sent.
LEMMA HeaderSays ==
  ASSUME FramingInv, pc = "body", Framed(rcv)
  PROVE  LET m == rcv[1][1]
         IN  /\ m \in 1 .. sent /\ Full(m) = HeadLen + datl /\ datl \in Nat
             /\ \A i \in 1 .. Len(Stream) : i <= Full(m) =>
                  Stream[i][1] = m /\ Stream[i][2] = i
<1> DEFINE m == rcv[1][1]
<1>1. /\ Types /\ Len(rcv) \in Nat /\ Len(rcv) >= 1 /\ Len(Stream) \in Nat
      /\ 1 \in 1 .. Len(Stream) /\ Stream[1] = rcv[1]
  BY StreamIs, FramingAssumption DEF FramingInv, ReadInv
<1>2. m \in 1 .. sent /\ Stream[1][2] = 1
  BY <1>1 DEF FramingInv, StreamInv, Flows, OfSent, Framed
<1>3. Full(m) = HeadLen + datl /\ datl \in Nat /\ Full(m) \in Nat
  BY <1>1, FramingAssumption DEF FramingInv, ReadInv, Full, Types
<1>4. ASSUME NEW i \in 1 .. Len(Stream), i <= Full(m)
      PROVE  Stream[i][1] = m /\ Stream[i][2] = i
  <2>1. Stream[1][2] + (i - 1) = i
    BY <1>1, <1>2
  <2>2. 1 <= i /\ Stream[1][2] + (i - 1) <= Full(Stream[1][1])
    BY <1>1, <1>4, <2>1
  <2>3. /\ Stream[i][1] = Stream[1][1]
        /\ Stream[i][2] = Stream[1][2] + (i - 1)
    BY <1>1, <2>2, Zenon DEF FramingInv, StreamInv, Flows, InRuns
  <2> QED
    BY <1>1, <2>1, <2>3
<1> QED
  BY <1>2, <1>3, <1>4

\* In one piece: the header is at its place, and all data are there.
LEMMA PieceBody ==
  ASSUME FramingInv, ~split, pc = "body"
  PROVE  /\ Framed(rcv)
         /\ Short => Len(rcv) = HeadLen /\ Len(buf) >= datl /\ buf # <<>>
<1>1. /\ Types /\ Len(rcv) \in Nat /\ Len(rcv) >= 1 /\ Len(Stream) \in Nat
      /\ Stream \in Seq(Byte) /\ Stream # <<>>
      /\ Len(buf) \in Nat /\ Len(net) \in Nat
      /\ Len(Stream) = Len(rcv) + (Len(buf) + Len(net))
      /\ Stream[1] = rcv[1] /\ HeadLen \in Nat
  BY StreamIs, FramingAssumption, EmptySeq DEF FramingInv, ReadInv
<1>2. Framed(rcv)
  BY <1>1 DEF FramingInv, PieceInv, Framed
<1> DEFINE m == rcv[1][1]
<1>3. /\ m \in 1 .. sent /\ Full(m) = HeadLen + datl /\ datl \in Nat
      /\ \A i \in 1 .. Len(Stream) : i <= Full(m) =>
           Stream[i][1] = m /\ Stream[i][2] = i
  BY <1>2, HeaderSays
<1> HIDE DEF m
<1>4. ASSUME Short PROVE Len(rcv) = HeadLen /\ datl > 0
  BY <1>1, <1>3, <1>4 DEF Short, FramingInv, PieceInv, ReadInv
<1>5. ASSUME Short, Len(buf) < datl PROVE FALSE
  <2>1. CASE Len(buf) > 0
    <3>1. buf # <<>>
      BY <1>1, <2>1, EmptySeq
    <3>2. buf[Len(buf)] = Stream[HeadLen + Len(buf)]
      <4>1. Len(buf) \in 1 .. Len(buf) /\ Len(rcv) = HeadLen
        BY <1>1, <1>4, <1>5, <2>1
      <4>2. \A i \in 1 .. Len(buf) : Stream[Len(rcv) + i] = buf[i]
        BY <1>1, StreamIs
      <4>3. Stream[Len(rcv) + Len(buf)] = buf[Len(buf)]
        BY <4>1, <4>2, Zenon
      <4> QED
        BY <4>1, <4>3
    <3>3. HeadLen + Len(buf) \in 1 .. Len(Stream) /\ HeadLen + Len(buf) < Full(m)
      BY <1>1, <1>3, <1>4, <1>5, <2>1
    <3>4. buf[Len(buf)][1] = m /\ buf[Len(buf)][2] = HeadLen + Len(buf)
      BY <1>1, <1>3, <3>2, <3>3
    <3>5. buf[Len(buf)][2] = Full(buf[Len(buf)][1])
      BY <3>1 DEF FramingInv, PieceInv
    <3> QED
      BY <1>1, <1>3, <3>3, <3>4, <3>5
  <2>2. CASE Len(buf) = 0 /\ Len(net) > 0
    <3>1. net # <<>> /\ Len(rcv) + Len(buf) + 1 = HeadLen + 1
      BY <1>1, <1>4, <1>5, <2>2, EmptySeq
    <3>2. net[1] = Stream[HeadLen + 1]
      BY <1>1, <2>2, <3>1, StreamIs
    <3>3. HeadLen + 1 \in 1 .. Len(Stream) /\ HeadLen + 1 <= Full(m)
      BY <1>1, <1>3, <1>4, <1>5, <2>2
    <3>4. net[1][2] = HeadLen + 1
      BY <1>3, <3>2, <3>3
    <3>5. net[1][2] = 1
      BY <3>1 DEF FramingInv, PieceInv
    <3> QED
      BY <1>1, <1>4, <1>5, <3>4, <3>5
  <2>3. CASE Len(buf) = 0 /\ Len(net) = 0
    <3>1. Len(Stream) = HeadLen /\ HeadLen \in 1 .. Len(Stream) /\ HeadLen < Full(m)
      BY <1>1, <1>3, <1>4, <1>5, <2>3
    <3>2. Stream[Len(Stream)][1] = m /\ Stream[Len(Stream)][2] = HeadLen
      BY <1>1, <1>3, <3>1
    <3>3. Stream[Len(Stream)][1] = sent /\ Stream[Len(Stream)][2] = Full(sent)
      BY <1>1 DEF FramingInv, StreamInv, LastSent
    <3> QED
      BY <1>1, <1>3, <3>1, <3>2, <3>3
  <2> QED
    BY <1>1, <2>1, <2>2, <2>3
<1>6. Short => Len(rcv) = HeadLen /\ Len(buf) >= datl /\ buf # <<>>
  BY <1>1, <1>3, <1>4, <1>5, EmptySeq
<1> QED
  BY <1>2, <1>6

-----------------------------------------------------------------------------
(* Steps that leave the stream and the messages passed on alone.             *)

LEMMA SameStream ==
  ASSUME FramingInv, Stream' = Stream, pc = "end" => pc' = "end",
         UNCHANGED <<kind, split, body, sent, shut, passed>>
  PROVE  StreamInv' /\ OrderInv' /\ WholeInv'
<1>1. StreamInv'
  BY DEF FramingInv, StreamInv, Flows, LastSent, OfSent, InOrder, InRuns, Follows,
         Later, Full
<1>2. OrderInv'
  BY DEF FramingInv, OrderInv
<1>3. Lost => Lost'
  BY DEF Lost
<1>4. ASSUME NEW i \in 1 .. Len(passed) PROVE Whole(passed[i])' <=> Whole(passed[i])
  BY DEF Whole, Data
<1>5. WholeInv'
  BY <1>3, <1>4 DEF FramingInv, WholeInv
<1> QED
  BY <1>1, <1>2, <1>5

LEMMA ArrivesKeeps == ASSUME FramingInv, Arrives PROVE FramingInv'
<1>1. /\ Types /\ net \in Seq(Byte) /\ net # <<>> /\ Len(net) \in Nat /\ Len(net) >= 1
      /\ Len(buf) \in Nat /\ buf \in Seq(Byte)
  BY EmptySeq, StreamIs DEF FramingInv, Types, Arrives
<1> DEFINE k == Len(rcv) + Len(buf)
<1>2. /\ k \in Nat /\ Len(Stream) = k + Len(net)
      /\ \A i \in 1 .. Len(net) : Stream[k + i] = net[i]
  BY <1>1, StreamIs
<1>3. Flows(net) /\ LastSent(net)
  <2>1. k \in 0 .. Len(Stream) /\ Len(net) = Len(Stream) - k
    BY <1>1, <1>2
  <2>2. \A i \in 1 .. Len(net) : net[i] = Stream[k + i]
    BY <1>2
  <2>3. Stream \in Seq(Byte) /\ Flows(Stream) /\ LastSent(Stream)
    BY <1>1, StreamIs DEF FramingInv, StreamInv
  <2> HIDE DEF k
  <2> QED
    BY <1>1, <2>1, <2>2, <2>3, SuffixFlows
<1> DEFINE m == net[1][1]
<1>4. m \in 1 .. sent /\ Full(m) \in Nat /\ Full(m) >= 1
  <2>1. m \in 1 .. sent
    BY <1>1, <1>3 DEF Flows, OfSent
  <2> QED
    BY <1>1, <2>1, FullType, FramingAssumption
<1>5. ASSUME ~split
      PROVE  /\ Full(m) <= Len(net) /\ net[Full(m)][1] = m
             /\ net[Full(m)][2] = Full(m)
  <2>1. net[1][2] = 1
    BY <1>1, <1>5 DEF FramingInv, PieceInv
  <2>2. ASSUME NEW j \in 1 .. Len(net), j <= Full(m)
        PROVE  net[j][1] = m /\ net[j][2] = j
    <3>1. net[1][2] + (j - 1) = j
      BY <1>1, <2>1
    <3>2. 1 \in 1 .. Len(net) /\ 1 <= j /\ net[1][2] + (j - 1) <= Full(net[1][1])
      BY <1>1, <2>2, <3>1
    <3>3. net[j][1] = net[1][1] /\ net[j][2] = net[1][2] + (j - 1)
      BY <1>3, <3>2, Zenon DEF Flows, InRuns
    <3> QED
      BY <3>1, <3>3
  <2>3. net[Len(net)][1] = sent /\ net[Len(net)][2] = Full(sent)
    BY <1>1, <1>3, <1>5 DEF LastSent
  <2>4. Full(m) <= Len(net)
    <3>1. SUFFICES ASSUME Len(net) < Full(m) PROVE FALSE
      BY <1>1, <1>4
    <3> DEFINE l == Len(net)
    <3>3. l \in 1 .. Len(net) /\ l <= Full(m)
      BY <1>1, <1>4, <3>1
    <3> HIDE DEF l
    <3>4. net[l][1] = m /\ net[l][2] = l
      BY <2>2, <3>3
    <3>2. net[Len(net)][1] = m /\ net[Len(net)][2] = Len(net)
      BY <3>4 DEF l
    <3> QED
      BY <1>1, <1>4, <2>3, <3>1, <3>2
  <2> QED
    BY <1>1, <1>4, <2>2, <2>4
<1> DEFINE n == Arriving
<1>6. n \in 1 .. Len(net) /\ (~split => n = Full(m))
  BY <1>1, <1>4, <1>5 DEF Arriving, Full
<1>7. /\ buf' = buf \o SubSeq(net, 1, n) /\ net' = SubSeq(net, n + 1, Len(net))
      /\ UNCHANGED <<kind, split, body, sent, shut, pc, rcv, datl, passed>>
  BY DEF Arrives, setVars
<1> DEFINE t == SubSeq(net, 1, n)
           v == SubSeq(net, n + 1, Len(net))
<1> HIDE DEF n, k, m
<1>8. /\ t \in Seq(Byte) /\ Len(t) = n /\ \A i \in 1 .. n : t[i] = net[i]
      /\ v \in Seq(Byte) /\ Len(v) = Len(net) - n
      /\ \A i \in 1 .. Len(net) - n : v[i] = net[n + i]
      /\ t \o v = net
  <2>1. n \in 0 .. Len(net)
    BY <1>6
  <2> QED
    BY <1>1, <2>1, Cut
<1>9. buf' = buf \o t /\ net' = v
  BY <1>7
<1> HIDE DEF t, v
<1>10. Stream' = Stream
  BY <1>1, <1>7, <1>8, <1>9, Moves
<1>11. /\ buf' \in Seq(Byte) /\ Len(buf') = Len(buf) + n
       /\ \A i \in 1 .. Len(buf) + n :
            buf'[i] = IF i <= Len(buf) THEN buf[i] ELSE t[i - Len(buf)]
  BY <1>1, <1>8, <1>9, ConcatProperties
<1>12. Types'
  BY <1>1, <1>7, <1>8, <1>9, <1>11 DEF Types
<1>13. ReadInv'
  BY <1>7 DEF FramingInv, ReadInv, Framed
<1>14. StreamInv' /\ OrderInv' /\ WholeInv'
  BY <1>7, <1>10, SameStream
<1>15. PieceInv'
  <2> SUFFICES ASSUME ~split PROVE PieceInv'
    BY <1>7 DEF PieceInv
  <2>1. buf'[Len(buf')] = net[n]
    <3>1. Len(buf) + n \in 1 .. Len(buf) + n /\ ~(Len(buf) + n <= Len(buf))
          /\ (Len(buf) + n) - Len(buf) = n /\ n \in 1 .. n
      BY <1>1, <1>6
    <3> QED
      BY <1>8, <1>11, <3>1
  <2>2. buf'[Len(buf')][2] = Full(buf'[Len(buf')][1])
    BY <1>5, <1>6, <2>1
  <2>3. net' # <<>> => net'[1][2] = 1
    <3> SUFFICES ASSUME net' # <<>> PROVE net'[1][2] = 1
      OBVIOUS
    <3>1. n + 1 <= Len(net) /\ 1 \in 1 .. Len(net) - n
      BY <1>1, <1>6, <1>8, <1>9, EmptySeq
    <3>2. net'[1] = net[n + 1]
      BY <1>8, <1>9, <3>1
    <3>3. n \in 1 .. Len(net) /\ net[n][2] = Full(net[n][1])
      BY <1>5, <1>6
    <3> QED
      BY <1>3, <3>1, <3>2, <3>3 DEF Flows, Follows
  <2> QED
    BY <1>7, <1>10, <2>2, <2>3 DEF FramingInv, PieceInv, Full
<1> QED
  BY <1>12, <1>13, <1>14, <1>15 DEF FramingInv

\* The sender writes a message, or part of one as it closes.
LEMMA SendKeeps ==
  ASSUME FramingInv, ~shut, sent < MaxMsg,
         NEW n \in 1 .. Full(sent + 1), NEW t \in Seq(Byte), Len(t) = n,
         \A k \in 1 .. n : t[k][1] = sent + 1 /\ t[k][2] = k,
         net' = net \o t, sent' = sent + 1, shut' \in BOOLEAN,
         UNCHANGED <<setVars, buf, pc, rcv, datl, passed>>,
         ~shut' \/ ~split => n = Full(sent + 1)
  PROVE  FramingInv'
<1>1. Types /\ sent \in Nat
  BY FramingAssumption DEF FramingInv, Types
<1>2. /\ UNCHANGED <<kind, split, body, buf, pc, rcv, datl, passed>>
      /\ StreamInv
  BY DEF setVars, FramingInv
<1>3. Types'
  <2>1. net' \in Seq(Byte)
    BY <1>1, ConcatProperties DEF Types
  <2>2. sent' \in 0 .. MaxMsg
    BY <1>1, FramingAssumption
  <2> QED
    BY <1>1, <1>2, <2>1, <2>2 DEF Types
<1> DEFINE L == Len(Stream)
<1>4. /\ StreamInv' /\ Len(Stream') = L + n /\ L \in Nat /\ n \in Nat /\ n >= 1
      /\ \A i \in 1 .. L : Stream'[i] = Stream[i]
      /\ \A k \in 1 .. n : Stream'[L + k][1] = sent + 1 /\ Stream'[L + k][2] = k
  <2>1. L \in Nat /\ n \in Nat /\ n >= 1
    BY <1>1, StreamIs, LenProperties
  <2> QED
    BY <1>1, <1>2, <1>3, <2>1, Grows
<1>5. Stream \in Seq(Byte) /\ Stream' \in Seq(Byte)
  <2>1. Stream \in Seq(Byte)
    BY <1>1, StreamIs
  <2>2. Stream' \in Seq(Byte)
    BY <1>3, ConcatProperties DEF Types, Stream
  <2> QED
    BY <2>1, <2>2
<1>6. L = 0 <=> Stream = <<>>
  BY <1>5, EmptySeq
<1>7. Stream' # <<>>
  BY <1>4, <1>5, EmptySeq
<1>8. ReadInv'
  BY <1>2 DEF FramingInv, ReadInv, Framed
<1>9. OrderInv'
  <2> SUFFICES ASSUME NEW i \in 1 .. Len(passed)
               PROVE  /\ \A j \in 1 .. i - 1 : passed[j].msg < passed[i].msg
                      /\ passed[i].msg \in 1 .. sent + 1
                      /\ \A k \in 1 .. Len(Stream') :
                           \/ passed[i].msg < Stream'[k][1]
                           \/ passed[i].msg = Stream'[k][1] /\ Stream'[k][2] > 1
    BY <1>2 DEF OrderInv
  <2>1. /\ \A j \in 1 .. i - 1 : passed[j].msg < passed[i].msg
        /\ passed[i].msg \in 1 .. sent
        /\ \A k \in 1 .. L :
             passed[i].msg < Stream[k][1] \/ (passed[i].msg = Stream[k][1] /\ Stream[k][2] > 1)
    BY DEF FramingInv, OrderInv
  <2>2. ASSUME NEW k \in 1 .. Len(Stream')
        PROVE  \/ passed[i].msg < Stream'[k][1]
               \/ passed[i].msg = Stream'[k][1] /\ Stream'[k][2] > 1
    <3> HIDE DEF L
    <3>1. CASE k <= L
      <4>1. k \in 1 .. L
        BY <1>4, <3>1
      <4> QED
        BY <1>4, <2>1, <4>1
    <3>2. CASE k > L
      <4> DEFINE d == k - L
      <4>1. d \in 1 .. n /\ L + d = k
        BY <1>4, <3>2
      <4> HIDE DEF d
      <4>2. Stream'[k][1] = sent + 1
        BY <1>4, <4>1
      <4> QED
        BY <1>1, <2>1, <4>2
    <3> QED
      BY <1>4, <3>1, <3>2
  <2> QED
    BY <1>1, <2>1, <2>2
<1>10. WholeInv'
  <2>1. Lost => Lost'
    <3>1. ASSUME Stream # <<>>, Stream[1][2] # 1 PROVE Stream'[1][2] # 1
      <4>1. 1 \in 1 .. L
        BY <1>4, <1>6, <3>1
      <4> QED
        BY <1>4, <3>1, <4>1
    <3> QED
      BY <1>2, <1>7, <3>1 DEF Lost
  <2>2. ASSUME NEW i \in 1 .. Len(passed) PROVE Whole(passed[i])' <=> Whole(passed[i])
    BY <1>2 DEF Whole, Data
  <2> QED
    BY <1>2, <2>1, <2>2 DEF FramingInv, WholeInv
<1>11. ASSUME ~split PROVE PieceInv'
  <2>1. net'[1][2] = 1
    <3>1. net \in Seq(Byte) /\ Len(net) \in Nat
      BY <1>1, StreamIs DEF Types
    <3>2. CASE net = <<>>
      <4>1. net' = t /\ 1 \in 1 .. n
        BY <1>4, <3>2, ConcatEmptySeq
      <4> QED
        BY <4>1
    <3>3. CASE net # <<>>
      <4>1. Len(net) >= 1 /\ net[1][2] = 1
        BY <1>11, <3>1, <3>3, EmptySeq DEF FramingInv, PieceInv
      <4>2. net'[1] = net[1]
        BY <1>4, <3>1, <4>1, ConcatProperties
      <4> QED
        BY <4>1, <4>2
    <3> QED
      BY <3>2, <3>3
  <2>2. Stream'[1][1] = Len(passed) + 1 /\ Stream'[1][2] = 1
    <3>1. CASE L = 0
      <4>1. sent = Len(passed)
        BY <1>6, <1>11, <3>1 DEF FramingInv, PieceInv
      <4>2. 1 \in 1 .. n /\ L + 1 = 1
        BY <1>4, <3>1
      <4>3. Stream'[1][1] = sent + 1 /\ Stream'[1][2] = 1
        BY <1>4, <4>2, Zenon
      <4> QED
        BY <4>1, <4>3
    <3>2. CASE L # 0
      <4>1. 1 \in 1 .. L /\ Stream # <<>>
        BY <1>4, <1>6, <3>2
      <4>2. Stream[1][1] = Len(passed) + 1 /\ Stream[1][2] = 1
        BY <1>11, <4>1 DEF FramingInv, PieceInv
      <4> QED
        BY <1>4, <4>1, <4>2
    <3> QED
      BY <3>1, <3>2
  <2> QED
    BY <1>2, <1>7, <1>11, <2>1, <2>2 DEF FramingInv, PieceInv, Full
<1>12. PieceInv'
  <2>1. CASE split
    BY <1>2, <2>1 DEF PieceInv
  <2> QED
    BY <1>11, <2>1
<1> QED
  BY <1>3, <1>4, <1>8, <1>9, <1>10, <1>12 DEF FramingInv

LEMMA BytesAre ==
  ASSUME Types, sent < MaxMsg
  PROVE  LET m == sent + 1
         IN  /\ Full(m) \in Nat /\ Full(m) >= 1
             /\ Bytes(m) \in Seq(Byte) /\ Len(Bytes(m)) = Full(m)
             /\ \A k \in 1 .. Full(m) : Bytes(m)[k] = <<m, k>>
<1> DEFINE m == sent + 1
<1>1. m \in Msg /\ m \in Nat
  BY FramingAssumption DEF Types, Msg
<1>2. Full(m) \in Nat /\ Full(m) >= 1
  BY <1>1, FramingAssumption DEF Types, Full
<1>3. Bytes(m) = [k \in 1 .. Full(m) |-> <<m, k>>]
  BY DEF Bytes, Full
<1> HIDE DEF m
<1>4. ASSUME NEW k \in 1 .. Full(m) PROVE <<m, k>> \in Byte
  BY <1>1, <1>2, <1>4 DEF Byte
<1>5. Bytes(m) \in Seq(Byte) /\ Len(Bytes(m)) = Full(m)
  BY <1>2, <1>3, <1>4
<1> QED
  BY <1>2, <1>3, <1>5 DEF m

LEMMA SenderWritesKeeps == ASSUME FramingInv, SenderWrites PROVE FramingInv'
<1>1. Types /\ sent < MaxMsg
  BY DEF FramingInv, SenderWrites
<1> DEFINE m == sent + 1
           t == Bytes(m)
           n == Full(m)
<1>2. /\ n \in Nat /\ n >= 1 /\ t \in Seq(Byte) /\ Len(t) = n
      /\ \A k \in 1 .. n : t[k] = <<m, k>>
  BY <1>1, BytesAre
<1>3. /\ ~shut /\ net' = net \o t /\ sent' = m /\ shut' = shut
      /\ UNCHANGED <<setVars, buf, pc, rcv, datl, passed>>
  BY DEF SenderWrites
<1> HIDE DEF t
<1>4. n \in 1 .. Full(sent + 1) /\ (\A k \in 1 .. n : t[k][1] = sent + 1 /\ t[k][2] = k)
  BY <1>2
<1>5. shut' \in BOOLEAN
  BY <1>1, <1>3 DEF Types
<1> QED
  BY <1>1, <1>2, <1>3, <1>4, <1>5, SendKeeps

LEMMA SenderClosesKeeps == ASSUME FramingInv, SenderCloses PROVE FramingInv'
<1>1. /\ ~shut /\ shut' = TRUE
      /\ UNCHANGED <<setVars, buf, pc, rcv, datl, passed>>
      /\ Types
  BY DEF SenderCloses, FramingInv
<1>2. CASE UNCHANGED <<sent, net>>
  <2>1. UNCHANGED <<kind, split, body, sent, net, buf, pc, rcv, datl, passed>>
    BY <1>1, <1>2 DEF setVars
  <2>2. Stream' = Stream /\ \A m : Full(m)' = Full(m)
    BY <2>1 DEF Stream, Full
  <2>3. Types' /\ ReadInv' /\ OrderInv'
    BY <1>1, <2>1, <2>2 DEF FramingInv, Types, ReadInv, OrderInv, Framed
  <2>4. StreamInv'
    BY <1>1, <2>1, <2>2
       DEF FramingInv, StreamInv, Flows, LastSent, OfSent, InOrder, InRuns, Follows, Later
  <2>5. WholeInv'
    <3>1. Lost => Lost'
      BY <1>1, <2>1, <2>2 DEF Lost
    <3>2. ASSUME NEW i \in 1 .. Len(passed) PROVE Whole(passed[i])' <=> Whole(passed[i])
      BY <2>1 DEF Whole, Data
    <3> QED
      BY <2>1, <3>1, <3>2 DEF FramingInv, WholeInv
  <2>6. PieceInv'
    BY <2>1, <2>2 DEF FramingInv, PieceInv
  <2> QED
    BY <2>3, <2>4, <2>5, <2>6 DEF FramingInv
<1>3. CASE ~UNCHANGED <<sent, net>>
  <2>1. /\ sent < MaxMsg /\ split /\ sent' = sent + 1
        /\ \E n \in 1 .. Len(Bytes(sent + 1)) - 1 :
             net' = net \o SubSeq(Bytes(sent + 1), 1, n)
    BY <1>3 DEF SenderCloses
  <2>2. PICK n \in 1 .. Len(Bytes(sent + 1)) - 1 :
             net' = net \o SubSeq(Bytes(sent + 1), 1, n)
    BY <2>1
  <2> DEFINE m == sent + 1
             b == Bytes(m)
             t == SubSeq(b, 1, n)
  <2>3. /\ Full(m) \in Nat /\ b \in Seq(Byte) /\ Len(b) = Full(m)
        /\ \A k \in 1 .. Full(m) : b[k] = <<m, k>>
    BY <1>1, <2>1, BytesAre
  <2>4. n \in 1 .. Full(m) /\ n \in 0 .. Len(b) /\ net' = net \o t
    BY <2>2, <2>3
  <2> HIDE DEF b
  <2>5. t \in Seq(Byte) /\ Len(t) = n /\ \A k \in 1 .. n : t[k] = b[k]
    BY <2>3, <2>4, Cut
  <2> HIDE DEF t
  <2>6. \A k \in 1 .. n : t[k][1] = sent + 1 /\ t[k][2] = k
    BY <2>3, <2>4, <2>5
  <2>7. shut' \in BOOLEAN /\ ~(~shut' \/ ~split)
    BY <1>1, <2>1
  <2> QED
    BY <1>1, <2>1, <2>4, <2>5, <2>6, <2>7, SendKeeps
<1> QED
  BY <1>2, <1>3

LEMMA ReadHeaderKeeps == ASSUME FramingInv, ReadHeader PROVE FramingInv'
<1>1. /\ Types /\ rcv = <<>> /\ pc = "idle" /\ pc' = "body"
      /\ rcv' = Taken(HeadLen) /\ buf' = Left(HeadLen)
      /\ datl' \in Announced(Taken(HeadLen))
      /\ UNCHANGED <<kind, split, body, sent, net, shut, passed>>
      /\ HeadLen \in Nat /\ HeadLen >= 1 /\ Len(buf) >= HeadLen /\ Len(buf) \in Nat
  BY StreamIs, FramingAssumption DEF FramingInv, ReadInv, ReadHeader, setVars
<1> DEFINE t == Taken(HeadLen)
           v == Left(HeadLen)
<1>2. /\ t \in Seq(Byte) /\ Len(t) = HeadLen /\ v \in Seq(Byte)
      /\ \A i \in 1 .. HeadLen : t[i] = buf[i]
      /\ Len(v) = Len(buf) - HeadLen
      /\ \A i \in 1 .. Len(buf) - HeadLen : v[i] = buf[HeadLen + i]
      /\ t \o v = buf
  BY <1>1, TakenLeft
<1>3. rcv' = t /\ buf' = v
  BY <1>1
<1> HIDE DEF t, v
<1>4. rcv' = rcv \o t
  BY <1>1, <1>2, <1>3, ConcatEmptySeq
<1>5. Stream' = Stream
  BY <1>1, <1>2, <1>3, <1>4, Moves
<1>6. t[1][1] \in 1 .. sent /\ t[1] = Stream[1]
  <2>1. 1 \in 1 .. Len(Stream) /\ Stream[1] = buf[1]
    <3>1. Len(Stream) = Len(rcv) + (Len(buf) + Len(net)) /\ Len(net) \in Nat
          /\ (\A i \in 1 .. Len(buf) : Stream[Len(rcv) + i] = buf[i])
      BY <1>1, StreamIs
    <3>2. Len(rcv) = 0
      BY <1>1
    <3>3. 1 \in 1 .. Len(buf) /\ Len(rcv) + 1 = 1
      BY <1>1, <3>2
    <3>4. Stream[1] = buf[1]
      BY <3>1, <3>3
    <3> QED
      BY <1>1, <3>1, <3>2, <3>4
  <2>2. t[1] = Stream[1]
    BY <1>1, <1>2, <2>1
  <2> QED
    BY <2>1, <2>2 DEF FramingInv, StreamInv, Flows, OfSent
<1>7. datl' \in 0 .. MaxBody /\ (Framed(t) => datl' = body[t[1][1]])
  <2>1. body[t[1][1]] \in 0 .. MaxBody
    BY <1>1, <1>6, FullType
  <2> QED
    BY <1>1, <2>1 DEF Announced, t
<1>8. Types'
  BY <1>1, <1>2, <1>3, <1>7 DEF Types
<1>9. ReadInv'
  BY <1>1, <1>2, <1>3, <1>7 DEF ReadInv, Framed
<1>10. StreamInv' /\ OrderInv' /\ WholeInv'
  BY <1>1, <1>5, SameStream
<1>11. PieceInv'
  <2> SUFFICES ASSUME ~split PROVE PieceInv'
    BY <1>1 DEF PieceInv
  <2>1. buf' # <<>> => buf'[Len(buf')][2] = Full(buf'[Len(buf')][1])
    <3> SUFFICES ASSUME v # <<>> PROVE v[Len(v)][2] = Full(v[Len(v)][1])
      BY <1>3
    <3> DEFINE l == Len(buf) - HeadLen
    <3>1. l \in 1 .. Len(buf) - HeadLen /\ HeadLen + l = Len(buf) /\ buf # <<>>
      BY <1>1, <1>2, EmptySeq
    <3>2. v[Len(v)] = buf[Len(buf)]
      BY <1>2, <3>1
    <3> QED
      BY <3>1, <3>2 DEF FramingInv, PieceInv
  <2> QED
    BY <1>1, <1>2, <1>3, <1>5, <2>1 DEF FramingInv, PieceInv, Full
<1> QED
  BY <1>8, <1>9, <1>10, <1>11 DEF FramingInv

LEMMA ReadHeaderFailsKeeps == ASSUME FramingInv, ReadHeaderFails PROVE FramingInv'
<1>1. /\ Types /\ rcv = <<>> /\ pc = "idle" /\ pc' = "end"
      /\ UNCHANGED <<kind, split, body, sent, net, shut, buf, rcv, datl, passed>>
  BY DEF FramingInv, ReadInv, ReadHeaderFails, setVars
<1>2. Stream' = Stream
  BY <1>1 DEF Stream
<1>3. Types' /\ ReadInv'
  BY <1>1 DEF Types, ReadInv
<1>4. StreamInv' /\ OrderInv' /\ WholeInv'
  BY <1>1, <1>2, SameStream
<1>5. PieceInv'
  BY <1>1, <1>2 DEF FramingInv, PieceInv, Full
<1> QED
  BY <1>3, <1>4, <1>5 DEF FramingInv

LEMMA ReadBodyKeeps == ASSUME FramingInv, ReadBody PROVE FramingInv'
<1>1. /\ Types /\ pc = "body" /\ pc' = pc /\ Short /\ datl' = datl /\ datl \in Nat
      /\ rcv' = rcv \o Taken(datl) /\ buf' = Left(datl)
      /\ UNCHANGED <<kind, split, body, sent, net, shut, passed>>
      /\ HeadLen \in Nat /\ HeadLen >= 1 /\ Len(rcv) \in Nat /\ Len(rcv) >= HeadLen
      /\ rcv \in Seq(Byte) /\ Len(buf) \in Nat
  BY StreamIs, FramingAssumption DEF FramingInv, ReadInv, ReadBody, setVars, Types
<1> DEFINE t == Taken(datl)
           v == Left(datl)
           k == IF datl <= Len(buf) THEN datl ELSE Len(buf)
<1>2. /\ t \in Seq(Byte) /\ Len(t) = k /\ v \in Seq(Byte)
      /\ Len(v) = Len(buf) - k
      /\ \A i \in 1 .. Len(buf) - k : v[i] = buf[k + i]
      /\ t \o v = buf
  BY <1>1, TakenLeft
<1>3. rcv' = rcv \o t /\ buf' = v
  BY <1>1
<1>4. k \in 0 .. Len(buf) /\ (Len(buf) >= datl => k = datl)
  BY <1>1
<1> HIDE DEF t, v, k
<1>5. Stream' = Stream
  BY <1>1, <1>2, <1>3, Moves
<1>6. /\ rcv' \in Seq(Byte) /\ Len(rcv') = Len(rcv) + k /\ rcv'[1] = rcv[1]
  <2>1. /\ rcv \o t \in Seq(Byte) /\ Len(rcv \o t) = Len(rcv) + Len(t)
        /\ \A i \in 1 .. Len(rcv) + Len(t) :
             (rcv \o t)[i] = IF i <= Len(rcv) THEN rcv[i] ELSE t[i - Len(rcv)]
    BY <1>1, <1>2, ConcatProperties
  <2>2. 1 \in 1 .. Len(rcv) + Len(t) /\ 1 <= Len(rcv)
    BY <1>1, <1>2, <1>4
  <2>3. (rcv \o t)[1] = rcv[1]
    BY <2>1, <2>2
  <2> QED
    BY <1>2, <1>3, <2>1, <2>3
<1>7. Types'
  BY <1>1, <1>2, <1>3, <1>6 DEF Types
<1>8. ReadInv'
  BY <1>1, <1>4, <1>6 DEF FramingInv, ReadInv, Framed
<1>9. StreamInv' /\ OrderInv' /\ WholeInv'
  BY <1>1, <1>5, SameStream
<1>10. PieceInv'
  <2> SUFFICES ASSUME ~split PROVE PieceInv'
    BY <1>1 DEF PieceInv
  <2>1. Len(rcv) = HeadLen /\ Len(buf) >= datl
    BY <1>1, PieceBody
  <2>2. Len(rcv') = HeadLen + datl
    BY <1>1, <1>4, <1>6, <2>1
  <2>3. buf' # <<>> => buf'[Len(buf')][2] = Full(buf'[Len(buf')][1])
    <3> SUFFICES ASSUME v # <<>> PROVE v[Len(v)][2] = Full(v[Len(v)][1])
      BY <1>3
    <3> DEFINE l == Len(buf) - k
    <3>1. l \in 1 .. Len(buf) - k /\ k + l = Len(buf) /\ buf # <<>>
      BY <1>1, <1>2, <1>4, EmptySeq
    <3>2. v[Len(v)] = buf[Len(buf)]
      BY <1>2, <3>1
    <3> QED
      BY <3>1, <3>2 DEF FramingInv, PieceInv
  <2> QED
    BY <1>1, <1>5, <2>2, <2>3 DEF FramingInv, PieceInv, Full
<1> QED
  BY <1>7, <1>8, <1>9, <1>10 DEF FramingInv

-----------------------------------------------------------------------------
(* Steps that end a message: what is read of it leaves the stream.           *)

LEMMA FormatErrorKeeps == ASSUME FramingInv, FormatError PROVE FramingInv'
<1>1. /\ Types /\ StreamInv /\ pc = "body" /\ ~Framed(rcv) /\ rcv' = <<>>
      /\ UNCHANGED <<kind, split, body, sent, net, shut, buf, datl, passed>>
      /\ \/ kind # "router" /\ pc' = "end"
         \/ kind = "router" /\ pc' = "idle"
  BY DEF FramingInv, FormatError, ReadStops, FormatErrorCloses, FormatErrorSkips, setVars
<1>2. split
  BY <1>1, PieceBody
<1>3. Types'
  BY <1>1 DEF Types
<1>4. /\ StreamInv' /\ Len(Stream') = Len(Stream) - Len(rcv)
      /\ \A i \in 1 .. Len(Stream') : Stream'[i] = Stream[Len(rcv) + i]
  BY <1>1, <1>3, Consumed
<1>5. Len(rcv) \in Nat /\ Len(Stream) \in Nat
  BY <1>1, StreamIs, LenProperties
<1>6. ReadInv'
  BY <1>1 DEF ReadInv
<1>7. OrderInv'
  <2> SUFFICES ASSUME NEW i \in 1 .. Len(passed)
               PROVE  \A k \in 1 .. Len(Stream') :
                        \/ passed[i].msg < Stream'[k][1]
                        \/ passed[i].msg = Stream'[k][1] /\ Stream'[k][2] > 1
    BY <1>1 DEF FramingInv, OrderInv
  <2>1. ASSUME NEW k \in 1 .. Len(Stream')
        PROVE  Len(rcv) + k \in 1 .. Len(Stream) /\ Stream'[k] = Stream[Len(rcv) + k]
    BY <1>4, <1>5
  <2> QED
    BY <2>1 DEF FramingInv, OrderInv
<1>8. WholeInv'
  <2>1. kind # "router" => Lost'
    BY <1>1 DEF Lost
  <2>2. ASSUME NEW i \in 1 .. Len(passed) PROVE Whole(passed[i])' <=> Whole(passed[i])
    BY <1>1 DEF Whole, Data
  <2> QED
    BY <1>1, <2>1, <2>2 DEF FramingInv, WholeInv
<1>9. PieceInv'
  BY <1>1, <1>2 DEF PieceInv
<1> QED
  BY <1>3, <1>4, <1>6, <1>7, <1>8, <1>9 DEF FramingInv

LEMMA PairIs == \A x \in Byte : x = <<x[1], x[2]>>
BY DEF Byte

\* The message read, and what is known of it.
PassedOn ==
  [msg |-> rcv[1][1],
   data |-> [k \in 1 .. datl |-> IF HeadLen + k <= Len(rcv)
                                 THEN rcv[HeadLen + k] ELSE Zero]]

LEMMA PassKeeps == ASSUME FramingInv, Pass PROVE FramingInv'
<1>1. /\ Types /\ StreamInv /\ pc = "body" /\ Framed(rcv) /\ rcv' = <<>> /\ pc' = "idle"
      /\ passed' = Append(passed, PassedOn)
      /\ UNCHANGED <<kind, split, body, sent, net, shut, buf, datl>>
      /\ Short => buf = <<>> /\ kind # "client"
  BY DEF FramingInv, Pass, ReadStops, PassedOn, setVars
<1> DEFINE m == rcv[1][1]
           p == PassedOn
           L == Len(Stream)
           R == Len(rcv)
<1>2. /\ m \in 1 .. sent /\ Full(m) = HeadLen + datl /\ datl \in Nat
      /\ \A i \in 1 .. L : i <= Full(m) => Stream[i][1] = m /\ Stream[i][2] = i
  BY <1>1, HeaderSays
<1>3. /\ R \in Nat /\ L \in Nat /\ Len(buf) \in Nat /\ Len(net) \in Nat
      /\ L = R + (Len(buf) + Len(net))
      /\ \A i \in 1 .. R : Stream[i] = rcv[i]
      /\ HeadLen \in Nat /\ HeadLen >= 1 /\ R >= HeadLen /\ Stream \in Seq(Byte)
      /\ rcv \in Seq(Byte) /\ sent \in Nat
  BY <1>1, StreamIs, FramingAssumption DEF FramingInv, ReadInv, Types
<1>4. p.msg = m /\ p.data = [k \in 1 .. datl |-> IF HeadLen + k <= R
                                                 THEN rcv[HeadLen + k] ELSE Zero]
  BY DEF PassedOn
<1>5. p \in Passed
  <2>1. m \in Nat
    BY <1>2, <1>3
  <2>2. \A k \in 1 .. datl :
          (IF HeadLen + k <= R THEN rcv[HeadLen + k] ELSE Zero) \in Byte
    <3>1. Zero \in Byte
      BY DEF Zero, Byte
    <3>2. ASSUME NEW k \in 1 .. datl, HeadLen + k <= R PROVE rcv[HeadLen + k] \in Byte
      <4>1. HeadLen + k \in 1 .. R
        BY <1>2, <1>3, <3>2
      <4> QED
        BY <1>3, <4>1, ElementOfSeq
    <3> QED
      BY <3>1, <3>2
  <2>3. p.data \in Seq(Byte)
    BY <1>2, <1>4, <2>2
  <2> QED
    BY <1>4, <2>1, <2>3 DEF Passed, PassedOn
<1>6. /\ passed \in Seq(Passed) /\ Len(passed) \in Nat
      /\ passed' \in Seq(Passed) /\ Len(passed') = Len(passed) + 1
      /\ \A i \in 1 .. Len(passed) : passed'[i] = passed[i]
      /\ passed'[Len(passed) + 1] = p
  BY <1>1, <1>5, LenProperties, AppendProperties DEF Types
<1>7. Types'
  BY <1>1, <1>6 DEF Types
<1>8. /\ StreamInv' /\ Len(Stream') = L - R
      /\ \A i \in 1 .. Len(Stream') : Stream'[i] = Stream[R + i]
  BY <1>1, <1>7, Consumed
<1>9. ReadInv'
  BY <1>1 DEF ReadInv
<1>a. 1 \in 1 .. L /\ 1 <= Full(m) /\ Stream[1][1] = m /\ Stream[1][2] = 1
  <2>1. 1 \in 1 .. L /\ 1 <= Full(m)
    BY <1>2, <1>3
  <2> QED
    BY <1>2, <2>1
<1>b. \A k \in 1 .. Len(Stream') : R + k \in 1 .. L /\ R + k > 1
  BY <1>3, <1>8
<1> HIDE DEF p, m, L, R
<1>10. OrderInv'
  <2> SUFFICES ASSUME NEW i \in 1 .. Len(passed')
               PROVE  /\ \A j \in 1 .. i - 1 : passed'[j].msg < passed'[i].msg
                      /\ passed'[i].msg \in 1 .. sent
                      /\ \A k \in 1 .. Len(Stream') :
                           \/ passed'[i].msg < Stream'[k][1]
                           \/ passed'[i].msg = Stream'[k][1] /\ Stream'[k][2] > 1
    BY <1>1 DEF OrderInv
  <2>1. CASE i <= Len(passed)
    <3>1. i \in 1 .. Len(passed) /\ \A j \in 1 .. i - 1 : j \in 1 .. Len(passed)
      BY <1>6, <2>1
    <3>2. /\ \A j \in 1 .. i - 1 : passed[j].msg < passed[i].msg
          /\ passed[i].msg \in 1 .. sent
          /\ \A k \in 1 .. L :
               \/ passed[i].msg < Stream[k][1]
               \/ passed[i].msg = Stream[k][1] /\ Stream[k][2] > 1
      BY <3>1 DEF FramingInv, OrderInv, L
    <3> QED
      BY <1>6, <1>8, <1>b, <3>1, <3>2
  <2>2. CASE i = Len(passed) + 1
    <3>1. passed'[i].msg = m
      BY <1>4, <1>6, <2>2
    <3>2. ASSUME NEW j \in 1 .. i - 1 PROVE passed'[j].msg < m
      <4>1. j \in 1 .. Len(passed)
        BY <1>6, <2>2
      <4>2. \/ passed[j].msg < Stream[1][1]
            \/ passed[j].msg = Stream[1][1] /\ Stream[1][2] > 1
        BY <1>a, <4>1, Zenon DEF FramingInv, OrderInv, L
      <4> QED
        BY <1>6, <1>a, <4>1, <4>2
    <3>3. ASSUME NEW k \in 1 .. Len(Stream')
          PROVE  m < Stream'[k][1] \/ (m = Stream'[k][1] /\ Stream'[k][2] > 1)
      <4>1. R + k \in 1 .. L /\ 1 < R + k
        BY <1>3, <1>b
      <4>2. Later(Stream[1], Stream[R + k])
        BY <1>a, <4>1, Zenon DEF StreamInv, Flows, InOrder, L, FramingInv
      <4>3. m < Stream[R + k][1] \/ (m = Stream[R + k][1] /\ 1 < Stream[R + k][2])
        BY <1>a, <4>2 DEF Later
      <4>4. Stream[R + k][2] \in Nat
        BY <1>3, <4>1, ElementOfSeq DEF Byte, L
      <4> QED
        BY <1>8, <4>3, <4>4
    <3> QED
      BY <1>2, <3>1, <3>2, <3>3
  <2> QED
    BY <1>6, <2>1, <2>2
<1>11. ASSUME ~Short PROVE Whole(p)
  <2>1. R >= Full(m)
    BY <1>1, <1>2, <1>3, <1>11 DEF Short, R, Types
  <2>2. ASSUME NEW k \in 1 .. datl
        PROVE  HeadLen + k <= R /\ rcv[HeadLen + k] = <<m, HeadLen + k>>
    <3>1. HeadLen + k \in 1 .. R /\ HeadLen + k \in 1 .. L /\ HeadLen + k <= Full(m)
      BY <1>2, <1>3, <2>1
    <3>2. /\ Stream[HeadLen + k] = rcv[HeadLen + k]
          /\ Stream[HeadLen + k][1] = m /\ Stream[HeadLen + k][2] = HeadLen + k
      BY <1>2, <1>3, <3>1
    <3>3. Stream[HeadLen + k] \in Byte
      BY <1>3, <3>1, ElementOfSeq DEF L
    <3>4. Stream[HeadLen + k] = <<m, HeadLen + k>>
      BY <3>2, <3>3, PairIs, Zenon
    <3> QED
      BY <3>1, <3>2, <3>4
  <2>3. body[m] = datl
    BY <1>1 DEF FramingInv, ReadInv, m
  <2> QED
    BY <1>4, <2>2, <2>3 DEF Whole, Data
<1>12. ASSUME Short
       PROVE  /\ split /\ kind \in {"session", "router"}
              /\ kind = "session" => Lost'
  <2>1. split
    BY <1>1, <1>12, PieceBody
  <2>2. kind \in {"session", "router"}
    BY <1>1, <1>12, FramingAssumption DEF Types
  <2>3. R < Full(m) /\ Len(buf) = 0
    BY <1>1, <1>2, <1>3, <1>12 DEF Short, R
  <2>4. Lost'
    <3>1. CASE Len(Stream') = 0
      <4>1. Stream' = <<>> /\ L = R /\ L \in 1 .. L /\ L <= Full(m)
        <5>1. Stream' \in Seq(Byte)
          BY <1>7, ConcatProperties DEF Types, Stream
        <5>2. L = R
          <6>1. L - R = 0
            BY <1>8, <3>1, Zenon
          <6> QED
            BY <1>3, <6>1
        <5> QED
          BY <1>2, <1>3, <2>3, <3>1, <5>1, <5>2, EmptySeq
      <4>2. Stream[L][1] = m /\ Stream[L][2] = R
        BY <1>2, <4>1
      <4>3. Stream # <<>>
        BY <1>3, <4>1, EmptySeq DEF L
      <4>4. Stream[L][1] = sent /\ (~shut => Stream[L][2] = Full(sent))
        BY <4>3 DEF FramingInv, StreamInv, LastSent, L
      <4>5. shut
        <5>1. SUFFICES ASSUME ~shut PROVE FALSE
          BY <1>1 DEF Types
        <5> QED
          BY <1>2, <1>3, <2>3, <4>2, <4>4, <5>1
      <4> QED
        BY <1>1, <4>1, <4>5 DEF Lost
    <3>2. CASE Len(Stream') # 0
      <4>1. 1 \in 1 .. Len(Stream') /\ Stream' # <<>>
        BY <1>3, <1>8, <3>2
      <4>2. Stream'[1] = Stream[R + 1] /\ R + 1 \in 1 .. L /\ R + 1 <= Full(m)
        BY <1>2, <1>3, <1>8, <1>b, <2>3, <4>1
      <4>3. Stream'[1][2] = R + 1
        BY <1>2, <4>2
      <4> QED
        BY <1>3, <4>1, <4>3 DEF Lost
    <3> QED
      BY <3>1, <3>2
  <2> QED
    BY <2>1, <2>2, <2>4
<1>13. WholeInv'
  <2>1. \A q : Whole(q)' <=> Whole(q)
    BY <1>1 DEF Whole, Data
  <2>2. ~Lost
    BY <1>1, <1>a, <1>3, EmptySeq DEF Lost, L
  <2> SUFFICES ASSUME NEW i \in 1 .. Len(passed')
               PROVE  \/ Whole(passed'[i])
                      \/ split /\ kind = "router"
                      \/ split /\ kind = "session" /\ i = Len(passed') /\ Lost'
    BY <1>1 DEF WholeInv, Whole, Data
  <2>3. CASE i <= Len(passed)
    <3>1. i \in 1 .. Len(passed) /\ passed'[i] = passed[i]
      BY <1>6, <2>3
    <3> QED
      BY <2>2, <3>1 DEF FramingInv, WholeInv
  <2>4. CASE i = Len(passed) + 1
    BY <1>6, <1>11, <1>12, <2>4
  <2> QED
    BY <1>6, <2>3, <2>4
<1>14. PieceInv'
  <2> SUFFICES ASSUME ~split PROVE PieceInv'
    BY <1>1 DEF PieceInv
  <2>1. R = Full(m)
    <3>1. ~Short
      BY <1>1, PieceBody
    <3>2. R = HeadLen \/ R = HeadLen + datl
      BY <1>1 DEF FramingInv, PieceInv, R
    <3> QED
      BY <1>2, <1>3, <3>1, <3>2 DEF Short, R
  <2>2. m = Len(passed) + 1
    BY <1>1, <1>3, <1>a, EmptySeq DEF FramingInv, PieceInv, L
  <2>3. R \in 1 .. L /\ Stream[R][1] = m /\ Stream[R][2] = Full(m)
    <3>1. R \in 1 .. L /\ R <= Full(m)
      BY <1>3, <2>1
    <3> QED
      BY <1>2, <2>1, <3>1
  <2>4. \A i \in 1 .. Len(passed') : passed'[i].msg = i
    <3> SUFFICES ASSUME NEW i \in 1 .. Len(passed') PROVE passed'[i].msg = i
      OBVIOUS
    <3>1. CASE i <= Len(passed)
      BY <1>6, <3>1 DEF FramingInv, PieceInv
    <3>2. CASE i = Len(passed) + 1
      BY <1>4, <1>6, <2>2, <3>2
    <3> QED
      BY <1>6, <3>1, <3>2
  <2>5. Stream' \in Seq(Byte)
    BY <1>7, ConcatProperties DEF Types, Stream
  <2>6. ASSUME Stream' # <<>>
        PROVE  Stream'[1][1] = Len(passed') + 1 /\ Stream'[1][2] = 1
    <3>1. 1 \in 1 .. Len(Stream')
      <4>1. Len(Stream') # 0
        BY <2>5, <2>6, EmptySeq
      <4> QED
        BY <1>3, <1>8, <4>1
    <3>2. R + 1 <= L /\ Stream'[1] = Stream[R + 1]
      BY <1>8, <1>b, <3>1
    <3>3. Stream[R + 1][1] = Stream[R][1] + 1 /\ Stream[R + 1][2] = 1
      BY <2>3, <3>2 DEF FramingInv, StreamInv, Flows, Follows, L
    <3> QED
      BY <1>6, <2>2, <2>3, <3>2, <3>3
  <2>7. ASSUME Stream' = <<>> PROVE sent = Len(passed')
    <3>1. L = R
      BY <1>3, <1>8, <2>7
    <3>2. Stream # <<>>
      BY <1>3, <2>3, EmptySeq DEF L
    <3>3. Stream[L][1] = sent
      BY <3>2 DEF FramingInv, StreamInv, LastSent, L
    <3> QED
      BY <1>6, <2>2, <2>3, <3>1, <3>3
  <2>8. /\ buf # <<>> => buf[Len(buf)][2] = Full(buf[Len(buf)][1])
        /\ net # <<>> => net[1][2] = 1
    BY DEF FramingInv, PieceInv
  <2>9. \A x : Full(x)' = Full(x)
    BY <1>1 DEF Full
  <2> QED
    BY <1>1, <2>4, <2>6, <2>7, <2>8, <2>9 DEF PieceInv
<1> QED
  BY <1>7, <1>8, <1>9, <1>10, <1>13, <1>14 DEF FramingInv

-----------------------------------------------------------------------------
LEMMA FramingInit == Init => FramingInv
<1> SUFFICES ASSUME Init PROVE FramingInv
  OBVIOUS
<1>1. /\ rcv = <<>> /\ buf = <<>> /\ net = <<>> /\ passed = <<>>
      /\ sent = 0 /\ datl = 0 /\ pc = "idle" /\ shut = FALSE
  BY DEF Init
<1>2. Stream = <<>> /\ Len(Stream) = 0
  BY <1>1, ConcatEmptySeq DEF Stream
<1>3. Types
  <2>1. 0 \in 0 .. MaxMsg /\ 0 \in 0 .. MaxBody
    BY FramingAssumption
  <2>2. kind \in Kinds /\ split \in BOOLEAN /\ body \in [Msg -> 0 .. MaxBody]
    BY DEF Init
  <2>3. <<>> \in Seq(Byte) /\ <<>> \in Seq(Passed)
    OBVIOUS
  <2> QED
    BY <1>1, <2>1, <2>2, <2>3 DEF Types
<1>4. StreamInv
  BY <1>2 DEF StreamInv, Flows, OfSent, InOrder, InRuns, Follows, LastSent
<1>5. ReadInv
  BY <1>1 DEF ReadInv
<1>6. OrderInv /\ WholeInv
  BY <1>1 DEF OrderInv, WholeInv
<1>7. PieceInv
  BY <1>1, <1>2 DEF PieceInv
<1> QED
  BY <1>3, <1>4, <1>5, <1>6, <1>7 DEF FramingInv

LEMMA FramingStep == ASSUME FramingInv, [Next]_vars PROVE FramingInv'
<1>1. CASE UNCHANGED vars
  <2>1. UNCHANGED <<kind, split, body, sent, net, shut, buf, pc, rcv, datl, passed>>
    BY <1>1 DEF vars, setVars
  <2>2. Stream' = Stream
    BY <2>1 DEF Stream
  <2>3. StreamInv' /\ OrderInv' /\ WholeInv'
    BY <2>1, <2>2, SameStream
  <2>4. Types' /\ ReadInv' /\ PieceInv'
    BY <2>1, <2>2 DEF FramingInv, Types, ReadInv, PieceInv, Framed, Full
  <2> QED
    BY <2>3, <2>4 DEF FramingInv
<1> QED
  BY <1>1, SenderWritesKeeps, SenderClosesKeeps, ArrivesKeeps, ReadHeaderKeeps,
     ReadHeaderFailsKeeps, ReadBodyKeeps, FormatErrorKeeps, PassKeeps
     DEF Next, Reader

LEMMA FramingHolds == FramingInv => Intact
<1> SUFFICES ASSUME FramingInv, NEW i \in DOMAIN passed
             PROVE  /\ \A j \in 1 .. i - 1 : passed[j].msg < passed[i].msg
                    /\ ~split => passed[i].msg = i
                    /\ \/ Whole(passed[i])
                       \/ split /\ (kind = "router" \/ (kind = "session" /\ i = Len(passed)))
  BY DEF Intact
<1>1. i \in 1 .. Len(passed)
  BY LenProperties DEF FramingInv, Types
<1> QED
  BY <1>1 DEF FramingInv, OrderInv, WholeInv, PieceInv

\* However the bytes of a connection arrive and wherever the sender stops, each
\* reader (service_user, service_rta, service_rtc, recv_thread) passes on the
\* messages that were sent, in their order, none twice; one without all of its data
\* only where messages arrive in pieces, on a socket that does not block, and in a
\* session only as its last.
THEOREM PassedIntact == Spec => []Intact
<1>1. Init => FramingInv
  BY FramingInit
<1>2. FramingInv /\ [Next]_vars => FramingInv'
  BY FramingStep
<1>3. FramingInv => Intact
  BY FramingHolds
<1> QED
  BY <1>1, <1>2, <1>3, PTL DEF Spec
=============================================================================
