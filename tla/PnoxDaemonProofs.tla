-------------------------- MODULE PnoxDaemonProofs --------------------------
(***************************************************************************)
(* Proofs about PnoxDaemon, for any number of processes, servers, workers, *)
(* starts and faults, and process ids given out in whatever order.         *)
(*                                                                         *)
(* OneInstance is not inductive: that the table knows every instance under *)
(* a daemon needs that there is one daemon, that only children of it can   *)
(* be its instances, and that it has none yet for the entries its first    *)
(* round has not come to.                                                  *)
(***************************************************************************)
EXTENDS PnoxDaemon, TLAPS

Types ==
  /\ pc \in [Proc -> {"none", "zombie", "work"} \union DaemonPc \union ServerPc]
  /\ ppid \in [Proc -> Proc \union {NoProc}]
  /\ srv \in [Proc -> Nat]
  /\ idx \in [Proc -> Nat]
  /\ prcmng \in [Server -> Proc \union {NoProc}]
  /\ path \in [Server -> Proc \union {NoProc}]

\* Nobody is the child of a process that is gone or does not fork such children.
FamilyInv ==
  \A p \in Proc :
    /\ pc[p] \in {"none"} \union DaemonPc => ppid[p] = NoProc
    /\ pc[p] \in {"zombie"} \union ServerPc /\ ppid[p] # NoProc => pc[ppid[p]] \in DaemonPc
    /\ pc[p] = "work" /\ ppid[p] # NoProc => pc[ppid[p]] \in ServerPc

OneDaemon ==
  \A d, e \in Proc : pc[d] \in DaemonPc /\ pc[e] \in DaemonPc => d = e

\* A server and its workers know which server they are.
SrvInv == \A p \in Proc : pc[p] \in {"work"} \union ServerPc => srv[p] \in Server

\* What the first round has not come to is clear.
FirstRound ==
  \A d \in Proc : pc[d] = "init" => \A s \in Server : s >= idx[d] => prcmng[s] = NoProc

\* A queue name leads to nobody, to an instance of its server, or to a process
\* that has ended.
PathInv ==
  \A s \in Server : path[s] # NoProc /\ Live(path[s]) =>
    pc[path[s]] \in ServerPc /\ srv[path[s]] = s

DaemonInv ==
  /\ Types /\ FamilyInv /\ OneDaemon /\ SrvInv /\ FirstRound /\ PathInv
  /\ OneInstance


-----------------------------------------------------------------------------
\* A free process id is in no table, and nobody's parent.
LEMMA FreeIsNew ==
  ASSUME DaemonInv, NEW q \in FreeProcs
  PROVE  /\ q \in Proc /\ pc[q] = "none" /\ ppid[q] = NoProc
         /\ \A s \in Server : path[s] # q /\ prcmng[s] # q
         /\ \A x \in Proc : ppid[x] # q
<1>1. /\ q \in Proc /\ pc[q] = "none"
      /\ \A s \in Server : path[s] # q /\ prcmng[s] # q
  BY DEF FreeProcs, Unused
<1>2. ppid[q] = NoProc
  BY <1>1 DEF DaemonInv, FamilyInv
<1>3. ASSUME NEW x \in Proc, ppid[x] = q PROVE FALSE
  <2>1. q # NoProc
    BY <1>1, SizeAssumption
  <2>2. pc[x] \in {"none", "zombie", "work"} \union DaemonPc \union ServerPc
    BY DEF DaemonInv, Types
  <2>3. pc[x] \notin {"none"} \union DaemonPc
    BY <2>1, <1>3 DEF DaemonInv, FamilyInv
  <2>4. CASE pc[x] \in {"zombie"} \union ServerPc
    BY <2>4, <2>1, <1>1, <1>3 DEF DaemonInv, FamilyInv, DaemonPc
  <2>5. CASE pc[x] = "work"
    BY <2>5, <2>1, <1>1, <1>3 DEF DaemonInv, FamilyInv, ServerPc
  <2> QED
    BY <2>2, <2>3, <2>4, <2>5
<1> QED
  BY <1>1, <1>2, <1>3

\* After the fork, who counts in the invariant is as before, except for q.
Forked(p, q, c, s, i) ==
  /\ pc' \in [Proc -> {"none", "zombie", "work"} \union DaemonPc \union ServerPc]
  /\ ppid' \in [Proc -> Proc \union {NoProc}]
  /\ srv' \in [Proc -> Nat] /\ idx' \in [Proc -> Nat]
  /\ FamilyInv' /\ OneDaemon' /\ SrvInv'
  /\ p # q /\ pc[q] = "none" /\ pc'[q] = c /\ ppid'[q] = p /\ srv'[q] = s
  /\ \A x \in Proc \ {q} : pc'[x] = pc[x] /\ ppid'[x] = ppid[x] /\ srv'[x] = srv[x]
  /\ \A x \in Proc \ {p} : idx'[x] = idx[x]
  /\ idx'[p] = i

\* Forks by a daemon or a server do that.
LEMMA ForkKeeps ==
  ASSUME DaemonInv, NEW p \in Proc, NEW q \in Proc, NEW c, NEW s \in Server, NEW i \in Nat,
         Fork(p, q, c, s, i),
         \/ pc[p] \in DaemonPc /\ c = "exec"
         \/ pc[p] \in ServerPc /\ c = "work"
  PROVE  Forked(p, q, c, s, i)
<1>1. /\ pc[q] = "none" /\ ppid[q] = NoProc
      /\ \A x \in Proc : ppid[x] # q
  BY FreeIsNew DEF Fork
<1>2. /\ pc \in [Proc -> {"none", "zombie", "work"} \union DaemonPc \union ServerPc]
      /\ ppid \in [Proc -> Proc \union {NoProc}]
      /\ srv \in [Proc -> Nat] /\ idx \in [Proc -> Nat]
  BY DEF DaemonInv, Types
<1>3. p # q
  BY <1>1 DEF DaemonPc, ServerPc
<1>4. c \in {"work"} \union ServerPc
  BY DEF ServerPc
<1>5. s \in Nat
  BY SizeAssumption DEF Server
<1>6. /\ pc' \in [Proc -> {"none", "zombie", "work"} \union DaemonPc \union ServerPc]
      /\ ppid' \in [Proc -> Proc \union {NoProc}]
      /\ srv' \in [Proc -> Nat] /\ idx' \in [Proc -> Nat]
  BY <1>2, <1>4, <1>5 DEF Fork
<1>7. /\ pc'[q] = c /\ ppid'[q] = p /\ srv'[q] = s /\ idx'[p] = i
      /\ \A x \in Proc \ {q} : pc'[x] = pc[x] /\ ppid'[x] = ppid[x] /\ srv'[x] = srv[x]
      /\ \A x \in Proc \ {p} : idx'[x] = idx[x]
  BY <1>2 DEF Fork
<1>8. FamilyInv'
  <2> SUFFICES ASSUME NEW x \in Proc
               PROVE  /\ pc'[x] \in {"none"} \union DaemonPc => ppid'[x] = NoProc
                      /\ pc'[x] \in {"zombie"} \union ServerPc /\ ppid'[x] # NoProc
                           => pc'[ppid'[x]] \in DaemonPc
                      /\ pc'[x] = "work" /\ ppid'[x] # NoProc => pc'[ppid'[x]] \in ServerPc
    BY DEF FamilyInv, DaemonPc, ServerPc
  <2>1. CASE x = q
    BY <2>1, <1>3, <1>7 DEF DaemonPc, ServerPc
  <2>2. CASE x # q
    <3>1. ppid[x] \in Proc \union {NoProc} /\ ppid[x] # q
      BY <1>1, <1>2
    <3>2. ppid[x] # NoProc => pc'[ppid[x]] = pc[ppid[x]]
      BY <3>1, <1>7
    <3> QED
      BY <2>2, <3>2, <1>7 DEF DaemonInv, FamilyInv
  <2> QED
    BY <2>1, <2>2
<1>9. OneDaemon'
  <2> SUFFICES ASSUME NEW d \in Proc, NEW e \in Proc,
                      pc'[d] \in DaemonPc, pc'[e] \in DaemonPc
               PROVE  d = e
    BY DEF OneDaemon, DaemonPc
  <2>1. d # q /\ e # q
    BY <1>7 DEF DaemonPc
  <2> QED
    BY <2>1, <1>7 DEF DaemonInv, OneDaemon
<1>10. SrvInv'
  <2> SUFFICES ASSUME NEW x \in Proc, pc'[x] \in {"work"} \union ServerPc
               PROVE  srv'[x] \in Server
    BY DEF SrvInv, ServerPc, Server
  <2> QED
    BY <1>7 DEF DaemonInv, SrvInv
<1> QED
  BY <1>1, <1>3, <1>6, <1>7, <1>8, <1>9, <1>10 DEF Forked

\* A queue name does not lead to a new process.
LEMMA ForkKeepsPath ==
  ASSUME DaemonInv, NEW p \in Proc, NEW q \in Proc, NEW c, NEW s \in Server, NEW i \in Nat,
         Fork(p, q, c, s, i), UNCHANGED path,
         \/ pc[p] \in DaemonPc /\ c = "exec"
         \/ pc[p] \in ServerPc /\ c = "work"
  PROVE  PathInv' /\ path' \in [Server -> Proc \union {NoProc}]
<1>1. \A x \in Proc \ {q} : pc'[x] = pc[x] /\ srv'[x] = srv[x]
  <2>1. Forked(p, q, c, s, i)
    BY ForkKeeps
  <2> QED
    BY <2>1 DEF Forked
<1>2. \A t \in Server : path[t] # q
  BY FreeIsNew DEF Fork
<1>3. path \in [Server -> Proc \union {NoProc}]
  BY DEF DaemonInv, Types
<1>4. ASSUME NEW t \in Server, path[t] # NoProc, pc'[path[t]] \notin {"none", "zombie"}
      PROVE  pc'[path[t]] \in ServerPc /\ srv'[path[t]] = t
  <2>1. path[t] \in Proc \ {q}
    BY <1>2, <1>3, <1>4
  <2> QED
    BY <2>1, <1>1, <1>4 DEF DaemonInv, PathInv, Live
<1> QED
  BY <1>3, <1>4 DEF PathInv, Live, ServerPc

\* A server that forks a worker, or fails to.
LEMMA ForkWorkerKeeps ==
  ASSUME DaemonInv, NEW p \in Proc, NEW q \in Proc, NEW i \in Nat,
         pc[p] \in ServerPc, Fork(p, q, "work", srv[p], i), UNCHANGED <<path, prcmng>>
  PROVE  DaemonInv'
<1>1. srv[p] \in Server
  BY DEF DaemonInv, SrvInv
<1>2. PathInv' /\ path' \in [Server -> Proc \union {NoProc}]
  BY <1>1, ForkKeepsPath
<1>3. /\ pc' \in [Proc -> {"none", "zombie", "work"} \union DaemonPc \union ServerPc]
      /\ ppid' \in [Proc -> Proc \union {NoProc}]
      /\ srv' \in [Proc -> Nat] /\ idx' \in [Proc -> Nat]
      /\ FamilyInv' /\ OneDaemon' /\ SrvInv'
      /\ pc'[q] = "work"
      /\ \A x \in Proc \ {q} : pc'[x] = pc[x] /\ ppid'[x] = ppid[x] /\ srv'[x] = srv[x]
      /\ \A x \in Proc \ {p} : idx'[x] = idx[x]
  <2>1. Forked(p, q, "work", srv[p], i)
    BY <1>1, ForkKeeps
  <2> QED
    BY <2>1 DEF Forked
<1>4. FirstRound'
  <2> SUFFICES ASSUME NEW d \in Proc, pc'[d] = "init", NEW s \in Server, s >= idx'[d]
               PROVE  prcmng'[s] = NoProc
    BY DEF FirstRound
  <2>1. d # q
    BY <1>3
  <2>2. d # p
    BY <2>1, <1>3 DEF ServerPc
  <2> QED
    BY <2>1, <2>2, <1>3 DEF DaemonInv, FirstRound
<1>5. OneInstance'
  <2> SUFFICES ASSUME NEW x \in Proc, pc'[x] \in ServerPc, ppid'[x] # NoProc
               PROVE  prcmng'[srv'[x]] = x
    BY DEF OneInstance, Instance
  <2>1. x # q
    BY <1>3 DEF ServerPc
  <2> QED
    BY <2>1, <1>3 DEF DaemonInv, OneInstance, Instance, Live, ServerPc
<1>6. prcmng' \in [Server -> Proc \union {NoProc}]
  BY DEF DaemonInv, Types
<1> QED
  BY <1>2, <1>3, <1>4, <1>5, <1>6 DEF DaemonInv, Types

\* A daemon that starts a server it knows no child for.
LEMMA StartServerKeeps ==
  ASSUME DaemonInv, NEW d \in Proc, NEW p \in Proc, NEW s \in Server, NEW i \in Nat,
         pc[d] \in DaemonPc, StartServer(d, p, s, i), UNCHANGED path,
         \A x \in Proc : Instance(x) /\ ppid[x] = d => srv[x] # s,
         pc[d] = "init" => i > s /\ i >= idx[d]
  PROVE  DaemonInv'
<1>1. Fork(d, p, "exec", s, i) /\ prcmng' = [prcmng EXCEPT ![s] = p]
  BY DEF StartServer
<1>2. PathInv' /\ path' \in [Server -> Proc \union {NoProc}]
  BY <1>1, ForkKeepsPath
<1>3. /\ pc' \in [Proc -> {"none", "zombie", "work"} \union DaemonPc \union ServerPc]
      /\ ppid' \in [Proc -> Proc \union {NoProc}]
      /\ srv' \in [Proc -> Nat] /\ idx' \in [Proc -> Nat]
      /\ FamilyInv' /\ OneDaemon' /\ SrvInv'
      /\ d # p /\ pc'[p] = "exec" /\ srv'[p] = s
      /\ \A x \in Proc \ {p} : pc'[x] = pc[x] /\ ppid'[x] = ppid[x] /\ srv'[x] = srv[x]
      /\ idx'[d] = i
  <2>1. Forked(d, p, "exec", s, i)
    BY <1>1, ForkKeeps
  <2> QED
    BY <2>1 DEF Forked
<1>4. prcmng \in [Server -> Proc \union {NoProc}] /\ idx \in [Proc -> Nat]
  BY DEF DaemonInv, Types
<1>5. prcmng' \in [Server -> Proc \union {NoProc}]
  BY <1>1, <1>4
<1>6. FirstRound'
  <2> SUFFICES ASSUME NEW e \in Proc, pc'[e] = "init", NEW t \in Server, t >= idx'[e]
               PROVE  prcmng'[t] = NoProc
    BY DEF FirstRound
  <2>1. e # p /\ pc[e] = "init"
    BY <1>3
  <2>2. e = d
    BY <2>1 DEF DaemonInv, OneDaemon, DaemonPc
  <2>3. t \in Nat /\ s \in Nat /\ idx[d] \in Nat
    BY <1>4, SizeAssumption DEF Server
  <2>4. t # s /\ t >= idx[d]
    BY <2>1, <2>2, <2>3, <1>3
  <2> QED
    BY <2>1, <2>2, <2>4, <1>1, <1>4 DEF DaemonInv, FirstRound
<1>7. OneInstance'
  <2> SUFFICES ASSUME NEW x \in Proc, pc'[x] \in ServerPc, ppid'[x] # NoProc
               PROVE  prcmng'[srv'[x]] = x
    BY DEF OneInstance, Instance
  <2>1. CASE x = p
    BY <2>1, <1>1, <1>3, <1>4
  <2>2. CASE x # p
    <3>1. pc[x] \in ServerPc /\ ppid[x] # NoProc /\ srv'[x] = srv[x]
      BY <2>2, <1>3
    <3>2. Instance(x)
      BY <3>1 DEF Instance, Live, ServerPc
    <3>3. ppid[x] \in Proc /\ pc[ppid[x]] \in DaemonPc
      BY <3>1 DEF DaemonInv, FamilyInv, Types
    <3>4. ppid[x] = d
      BY <3>3 DEF DaemonInv, OneDaemon
    <3>5. srv[x] # s /\ srv[x] \in Server
      BY <3>1, <3>2, <3>4 DEF DaemonInv, SrvInv
    <3> QED
      BY <3>1, <3>2, <3>5, <1>1, <1>4 DEF DaemonInv, OneInstance
  <2> QED
    BY <2>1, <2>2
<1> QED
  BY <1>2, <1>3, <1>5, <1>6, <1>7 DEF DaemonInv, Types

-----------------------------------------------------------------------------
\* The end of a process: whoever it leaves is nobody's child.
LEMMA GoneKeeps ==
  ASSUME DaemonInv, NEW p \in Proc, Live(p), Gone(p), UNCHANGED prcmng,
         path' \in [Server -> Proc \union {NoProc}],
         \A s \in Server : path'[s] \in {path[s], NoProc}
  PROVE  DaemonInv'
<1> DEFINE kept == ppid[p] # NoProc /\ pc[ppid[p]] \in DaemonPc
<1>1. /\ pc \in [Proc -> {"none", "zombie", "work"} \union DaemonPc \union ServerPc]
      /\ ppid \in [Proc -> Proc \union {NoProc}]
      /\ srv \in [Proc -> Nat] /\ idx \in [Proc -> Nat]
      /\ prcmng \in [Server -> Proc \union {NoProc}]
      /\ path \in [Server -> Proc \union {NoProc}]
  BY DEF DaemonInv, Types
<1>2. /\ pc'[p] = IF kept THEN "zombie" ELSE "none"
      /\ ppid'[p] = IF kept THEN ppid[p] ELSE NoProc
  BY DEF Gone
<1>3. ASSUME NEW x \in Proc, x # p
      PROVE  /\ pc'[x] = IF ppid[x] = p /\ pc[x] = "zombie" THEN "none" ELSE pc[x]
             /\ ppid'[x] = IF ppid[x] = p THEN NoProc ELSE ppid[x]
             /\ srv'[x] = srv[x] /\ idx'[x] = idx[x]
  BY <1>1, <1>3 DEF Gone
<1>4. Types'
  <2>1. /\ srv' \in [Proc -> Nat] /\ idx' \in [Proc -> Nat]
    BY <1>1 DEF Gone
  <2>2. /\ \A x \in Proc : pc'[x] \in {"none", "zombie", "work"} \union DaemonPc \union ServerPc
        /\ \A x \in Proc : ppid'[x] \in Proc \union {NoProc}
    BY <1>1, <1>2, <1>3
  <2>3. DOMAIN pc' = Proc /\ DOMAIN ppid' = Proc
    BY DEF Gone
  <2>4. /\ pc' = [x \in Proc |-> pc'[x]] /\ ppid' = [x \in Proc |-> ppid'[x]]
    BY DEF Gone
  <2>5. /\ pc' \in [Proc -> {"none", "zombie", "work"} \union DaemonPc \union ServerPc]
        /\ ppid' \in [Proc -> Proc \union {NoProc}]
    BY <2>2, <2>4
  <2> QED
    BY <2>1, <2>5, <1>1 DEF Types
<1>5. kept => ppid[p] \in Proc \ {p}
  <2>1. ASSUME kept, ppid[p] = p PROVE FALSE
    BY <2>1 DEF DaemonInv, FamilyInv
  <2> QED
    BY <2>1, <1>1
<1>6. ASSUME NEW x \in Proc, pc[x] \in DaemonPc \union ServerPc, x # p
      PROVE  pc'[x] = pc[x]
  BY <1>3, <1>6 DEF DaemonPc, ServerPc
<1>7. FamilyInv'
  <2> SUFFICES ASSUME NEW x \in Proc
               PROVE  /\ pc'[x] \in {"none"} \union DaemonPc => ppid'[x] = NoProc
                      /\ pc'[x] \in {"zombie"} \union ServerPc /\ ppid'[x] # NoProc
                           => pc'[ppid'[x]] \in DaemonPc
                      /\ pc'[x] = "work" /\ ppid'[x] # NoProc => pc'[ppid'[x]] \in ServerPc
    BY DEF FamilyInv, DaemonPc, ServerPc
  <2>1. CASE x = p
    <3>1. CASE kept
      <4>1. pc'[ppid[p]] = pc[ppid[p]]
        BY <3>1, <1>5, <1>6
      <4> QED
        BY <2>1, <3>1, <4>1, <1>2 DEF DaemonPc, ServerPc
    <3>2. CASE ~kept
      BY <2>1, <3>2, <1>2 DEF DaemonPc, ServerPc
    <3> QED
      BY <3>1, <3>2
  <2>2. CASE x # p /\ ppid[x] = p
    BY <2>2, <1>3
  <2>3. CASE x # p /\ ppid[x] # p
    <3>1. pc'[x] = pc[x] /\ ppid'[x] = ppid[x]
      BY <2>3, <1>3
    <3>2. ppid[x] = NoProc \/ ppid[x] \in Proc \ {p}
      BY <2>3, <1>1
    <3>3. CASE ppid[x] = NoProc
      BY <3>1, <3>3
    <3>4. CASE ppid[x] \in Proc \ {p}
      <4>1. pc[ppid[x]] \in DaemonPc \union ServerPc => pc'[ppid[x]] = pc[ppid[x]]
        BY <3>4, <1>6
      <4> QED
        BY <3>1, <3>4, <4>1 DEF DaemonInv, FamilyInv
    <3> QED
      BY <3>2, <3>3, <3>4
  <2> QED
    BY <2>1, <2>2, <2>3
<1>8. \A x \in Proc : pc'[x] \in DaemonPc \union ServerPc \union {"work"} =>
                        x # p /\ pc'[x] = pc[x]
  BY <1>2, <1>3 DEF DaemonPc, ServerPc
<1>9. OneDaemon'
  <2> SUFFICES ASSUME NEW d \in Proc, NEW e \in Proc,
                      pc'[d] \in DaemonPc, pc'[e] \in DaemonPc
               PROVE  d = e
    BY DEF OneDaemon, DaemonPc
  <2> QED
    BY <1>8 DEF DaemonInv, OneDaemon
<1>10. SrvInv'
  <2> SUFFICES ASSUME NEW x \in Proc, pc'[x] \in {"work"} \union ServerPc
               PROVE  srv'[x] \in Server
    BY DEF SrvInv, ServerPc, Server
  <2>1. x # p /\ pc'[x] = pc[x]
    BY <1>8
  <2> QED
    BY <2>1, <1>3 DEF DaemonInv, SrvInv
<1>11. FirstRound'
  <2> SUFFICES ASSUME NEW d \in Proc, pc'[d] = "init", NEW s \in Server, s >= idx'[d]
               PROVE  prcmng'[s] = NoProc
    BY DEF FirstRound
  <2>1. d # p /\ pc'[d] = pc[d]
    BY <1>8 DEF DaemonPc
  <2> QED
    BY <2>1, <1>3 DEF DaemonInv, FirstRound
<1>12. PathInv'
  <2> SUFFICES ASSUME NEW s \in Server, path'[s] # NoProc,
                      pc'[path'[s]] \notin {"none", "zombie"}
               PROVE  pc'[path'[s]] \in ServerPc /\ srv'[path'[s]] = s
    BY DEF PathInv, Live, ServerPc
  <2>1. path'[s] = path[s] /\ path[s] \in Proc
    BY <1>1
  <2>2. path[s] # p
    BY <2>1, <1>2
  <2>3. pc'[path[s]] = pc[path[s]] /\ srv'[path[s]] = srv[path[s]]
    BY <2>1, <2>2, <1>3
  <2> QED
    BY <2>1, <2>3 DEF DaemonInv, PathInv, Live
<1>13. OneInstance'
  <2> SUFFICES ASSUME NEW x \in Proc, pc'[x] \in ServerPc, ppid'[x] # NoProc
               PROVE  prcmng'[srv'[x]] = x
    BY DEF OneInstance, Instance
  <2>1. x # p /\ pc'[x] = pc[x]
    BY <1>8
  <2>2. ppid[x] # NoProc /\ srv'[x] = srv[x]
    BY <2>1, <1>3
  <2> QED
    BY <2>1, <2>2 DEF DaemonInv, OneInstance, Instance, Live, ServerPc
<1> QED
  BY <1>4, <1>7, <1>9, <1>10, <1>11, <1>12, <1>13 DEF DaemonInv

\* A process goes on, as what it was.
LEMMA MoveKeeps ==
  ASSUME DaemonInv, NEW p \in Proc, NEW c, pc' = [pc EXCEPT ![p] = c],
         \/ pc[p] \in ServerPc /\ c \in ServerPc
         \/ pc[p] \in DaemonPc /\ c \in DaemonPc,
         UNCHANGED <<ppid, srv, prcmng>>
  PROVE  /\ pc' \in [Proc -> {"none", "zombie", "work"} \union DaemonPc \union ServerPc]
         /\ pc'[p] = c /\ \A x \in Proc \ {p} : pc'[x] = pc[x]
         /\ FamilyInv' /\ OneDaemon' /\ SrvInv' /\ OneInstance'
<1>1. /\ pc \in [Proc -> {"none", "zombie", "work"} \union DaemonPc \union ServerPc]
      /\ ppid \in [Proc -> Proc \union {NoProc}]
  BY DEF DaemonInv, Types
<1>2. pc'[p] = c /\ \A x \in Proc \ {p} : pc'[x] = pc[x]
  BY <1>1
<1>3. pc' \in [Proc -> {"none", "zombie", "work"} \union DaemonPc \union ServerPc]
  BY <1>1
<1>4. \A x \in Proc : /\ pc'[x] \in DaemonPc <=> pc[x] \in DaemonPc
                      /\ pc'[x] \in ServerPc <=> pc[x] \in ServerPc
                      /\ pc'[x] = "work" <=> pc[x] = "work"
                      /\ pc'[x] = "none" <=> pc[x] = "none"
                      /\ pc'[x] = "zombie" <=> pc[x] = "zombie"
  BY <1>2 DEF DaemonPc, ServerPc
<1>5. FamilyInv'
  <2> SUFFICES ASSUME NEW x \in Proc
               PROVE  /\ pc'[x] \in {"none"} \union DaemonPc => ppid[x] = NoProc
                      /\ pc'[x] \in {"zombie"} \union ServerPc /\ ppid[x] # NoProc
                           => pc'[ppid[x]] \in DaemonPc
                      /\ pc'[x] = "work" /\ ppid[x] # NoProc => pc'[ppid[x]] \in ServerPc
    BY DEF FamilyInv, DaemonPc, ServerPc
  <2> QED
    BY <1>1, <1>4 DEF DaemonInv, FamilyInv
<1>6. OneDaemon'
  <2> SUFFICES ASSUME NEW d \in Proc, NEW e \in Proc,
                      pc'[d] \in DaemonPc, pc'[e] \in DaemonPc
               PROVE  d = e
    BY DEF OneDaemon, DaemonPc
  <2> QED
    BY <1>4 DEF DaemonInv, OneDaemon
<1>7. SrvInv'
  <2> SUFFICES ASSUME NEW x \in Proc, pc'[x] \in {"work"} \union ServerPc
               PROVE  srv[x] \in Server
    BY DEF SrvInv, ServerPc, Server
  <2> QED
    BY <1>4 DEF DaemonInv, SrvInv
<1>8. OneInstance'
  <2> SUFFICES ASSUME NEW x \in Proc, pc'[x] \in ServerPc, ppid[x] # NoProc
               PROVE  prcmng[srv[x]] = x
    BY DEF OneInstance, Instance
  <2> QED
    BY <1>4 DEF DaemonInv, OneInstance, Instance, Live, ServerPc
<1> QED
  BY <1>2, <1>3, <1>5, <1>6, <1>7, <1>8

-----------------------------------------------------------------------------
LEMMA DaemonInit == Init => DaemonInv
<1> SUFFICES ASSUME Init PROVE DaemonInv
  OBVIOUS
<1>1. Types
  BY DEF Init, Types
<1>2. /\ FamilyInv /\ OneDaemon /\ SrvInv /\ FirstRound /\ PathInv /\ OneInstance
  BY DEF Init, FamilyInv, OneDaemon, SrvInv, FirstRound, PathInv, OneInstance, Instance,
         DaemonPc, ServerPc
<1> QED
  BY <1>1, <1>2 DEF DaemonInv

\* A new daemon is the only one, with an empty table.
LEMMA DaemonStartKeeps ==
  ASSUME DaemonInv, NEW d \in Proc, DaemonStart(d) PROVE DaemonInv'
<1>1. /\ pc[d] = "none" /\ ppid[d] = NoProc
      /\ \A s \in Server : path[s] # d
      /\ \A x \in Proc : ppid[x] # d
  BY FreeIsNew DEF DaemonStart
<1>2. Types
  BY DEF DaemonInv
<1>3. /\ pc'[d] = "init"
      /\ \A x \in Proc \ {d} : pc'[x] = pc[x]
      /\ UNCHANGED <<ppid, srv, path>>
      /\ \A q \in Proc : pc[q] \notin DaemonPc
  BY <1>2 DEF DaemonStart, Types
<1>4. Types'
  BY <1>2 DEF DaemonStart, Types, DaemonPc
<1>5. FamilyInv'
  <2> SUFFICES ASSUME NEW x \in Proc
               PROVE  /\ pc'[x] \in {"none"} \union DaemonPc => ppid[x] = NoProc
                      /\ pc'[x] \in {"zombie"} \union ServerPc /\ ppid[x] # NoProc
                           => pc'[ppid[x]] \in DaemonPc
                      /\ pc'[x] = "work" /\ ppid[x] # NoProc => pc'[ppid[x]] \in ServerPc
    BY <1>3 DEF FamilyInv, DaemonPc, ServerPc
  <2>1. CASE x = d
    BY <2>1, <1>1, <1>3 DEF ServerPc
  <2>2. CASE x # d
    <3>1. ppid[x] \in (Proc \ {d}) \union {NoProc}
      BY <1>1, <1>2 DEF Types
    <3>2. ppid[x] # NoProc => pc'[ppid[x]] = pc[ppid[x]]
      BY <3>1, <1>3
    <3> QED
      BY <2>2, <3>2, <1>3 DEF DaemonInv, FamilyInv
  <2> QED
    BY <2>1, <2>2
<1>6. OneDaemon'
  BY <1>3 DEF OneDaemon, DaemonPc
<1>7. SrvInv'
  <2> SUFFICES ASSUME NEW x \in Proc, pc'[x] \in {"work"} \union ServerPc
               PROVE  srv[x] \in Server
    BY <1>3 DEF SrvInv, ServerPc, Server
  <2> QED
    BY <1>3 DEF DaemonInv, SrvInv, ServerPc
<1>8. FirstRound'
  BY DEF DaemonStart, FirstRound
<1>9. PathInv'
  <2> SUFFICES ASSUME NEW s \in Server, path[s] # NoProc, pc'[path[s]] \notin {"none", "zombie"}
               PROVE  pc'[path[s]] \in ServerPc /\ srv[path[s]] = s
    BY <1>3 DEF PathInv, Live, ServerPc
  <2>1. path[s] \in Proc \ {d}
    BY <1>1, <1>2 DEF Types
  <2> QED
    BY <2>1, <1>3 DEF DaemonInv, PathInv, Live
<1>10. OneInstance'
  <2> SUFFICES ASSUME NEW x \in Proc, pc'[x] \in ServerPc, ppid[x] # NoProc
               PROVE  FALSE
    BY <1>3 DEF OneInstance, Instance
  <2>1. pc[x] \in ServerPc
    BY <1>3 DEF ServerPc
  <2> QED
    BY <2>1, <1>2, <1>3 DEF DaemonInv, FamilyInv, Types
<1> QED
  BY <1>4, <1>5, <1>6, <1>7, <1>8, <1>9, <1>10 DEF DaemonInv

\* The first round: the entries from idx[d] on are clear, so no instance has one.
LEMMA DaemonExecKeeps ==
  ASSUME DaemonInv, NEW d \in Proc, NEW p \in Proc, DaemonExec(d, p) PROVE DaemonInv'
<1> DEFINE s == idx[d]
<1>1. /\ pc[d] = "init" /\ s \in Server /\ StartServer(d, p, s, s + 1) /\ UNCHANGED path
  BY DEF DaemonExec
<1>2. s \in Nat /\ s + 1 \in Nat /\ s + 1 > s /\ s + 1 >= idx[d] /\ s >= idx[d]
  BY <1>1 DEF DaemonInv, Types
<1>3. ASSUME NEW x \in Proc, Instance(x), ppid[x] = d PROVE srv[x] # s
  <2>1. d # NoProc
    BY SizeAssumption
  <2>2. prcmng[srv[x]] = x
    BY <2>1, <1>3 DEF DaemonInv, OneInstance
  <2>3. prcmng[s] = NoProc
    BY <1>1, <1>2 DEF DaemonInv, FirstRound
  <2> QED
    BY <2>2, <2>3, SizeAssumption
<1>4. pc[d] \in DaemonPc
  BY <1>1 DEF DaemonPc
<1> HIDE DEF s
<1> QED
  BY <1>1, <1>2, <1>3, <1>4, StartServerKeeps

\* A restart: an entry that is no child names no instance of this daemon, and no
\* other process is one for that entry.
LEMMA DaemonRestartsKeeps ==
  ASSUME DaemonInv, NEW d \in Proc, NEW p \in Proc, DaemonRestarts(d, p) PROVE DaemonInv'
<1> DEFINE s == idx[d]
<1>1. /\ pc[d] = "run" /\ s \in Server /\ StartServer(d, p, s, After(s)) /\ UNCHANGED path
      /\ ~IsChild(d, prcmng[s])
  BY DEF DaemonRestarts, Entry
<1>2. After(s) \in Nat
  BY <1>1, SizeAssumption DEF After, Server
<1>3. ASSUME NEW x \in Proc, Instance(x), ppid[x] = d PROVE srv[x] # s
  <2>1. d # NoProc /\ x # NoProc
    BY SizeAssumption
  <2>2. prcmng[srv[x]] = x
    BY <2>1, <1>3 DEF DaemonInv, OneInstance
  <2> QED
    BY <2>1, <2>2, <1>1, <1>3 DEF IsChild
<1>4. pc[d] \in DaemonPc /\ pc[d] # "init"
  BY <1>1 DEF DaemonPc
<1> HIDE DEF s
<1> QED
  BY <1>1, <1>2, <1>3, <1>4, StartServerKeeps

\* Only the entry a process looks at changes.
LEMMA LookKeeps ==
  ASSUME DaemonInv, NEW p \in Proc, NEW i \in Nat, idx' = [idx EXCEPT ![p] = i],
         pc[p] # "init", UNCHANGED <<pc, ppid, srv, prcmng, path>>
  PROVE  DaemonInv'
<1>1. Types'
  BY DEF DaemonInv, Types
<1>2. FamilyInv' /\ OneDaemon' /\ SrvInv'
  BY DEF DaemonInv, FamilyInv, OneDaemon, SrvInv
<1>3. FirstRound'
  BY DEF DaemonInv, FirstRound, Types
<1>4. PathInv'
  BY DEF DaemonInv, PathInv, Live
<1>5. OneInstance'
  BY DEF DaemonInv, OneInstance, Instance, Live
<1> QED
  BY <1>1, <1>2, <1>3, <1>4, <1>5 DEF DaemonInv

LEMMA DaemonReadyKeeps ==
  ASSUME DaemonInv, NEW d \in Proc, DaemonReady(d) PROVE DaemonInv'
<1>1. pc[d] \in DaemonPc /\ pc' = [pc EXCEPT ![d] = "run"] /\ "run" \in DaemonPc
  BY DEF DaemonReady, DaemonPc
<1>2. UNCHANGED <<ppid, srv, prcmng, path>>
  BY DEF DaemonReady
<1>3. /\ pc' \in [Proc -> {"none", "zombie", "work"} \union DaemonPc \union ServerPc]
      /\ pc'[d] = "run" /\ \A x \in Proc \ {d} : pc'[x] = pc[x]
      /\ FamilyInv' /\ OneDaemon' /\ SrvInv' /\ OneInstance'
  BY <1>1, <1>2, MoveKeeps
<1>4. idx' = [idx EXCEPT ![d] = 1] /\ idx \in [Proc -> Nat]
  BY DEF DaemonReady, DaemonInv, Types
<1>5. Types'
  BY <1>2, <1>3, <1>4 DEF DaemonInv, Types
<1>6. FirstRound'
  BY <1>2, <1>3, <1>4 DEF DaemonInv, FirstRound
<1>7. PathInv'
  <2> SUFFICES ASSUME NEW s \in Server, path[s] # NoProc, pc'[path[s]] \notin {"none", "zombie"}
               PROVE  pc'[path[s]] \in ServerPc /\ srv[path[s]] = s
    BY <1>2 DEF PathInv, Live, ServerPc
  <2>1. path[s] \in Proc
    BY DEF DaemonInv, Types
  <2>2. path[s] # d
    BY <1>1 DEF DaemonInv, PathInv, Live, DaemonPc, ServerPc
  <2> QED
    BY <2>1, <2>2, <1>3 DEF DaemonInv, PathInv, Live
<1> QED
  BY <1>3, <1>5, <1>6, <1>7 DEF DaemonInv

\* What is reaped was a zombie, and nobody's parent.
LEMMA DaemonReapsKeeps ==
  ASSUME DaemonInv, NEW d \in Proc, DaemonReaps(d) PROVE DaemonInv'
<1>1. PICK p \in Proc \union {NoProc} : p = Entry(d)
  BY DEF DaemonReaps, DaemonInv, Types, Entry
<1>2. /\ p \in Proc /\ ppid[p] = d /\ pc[p] \in {"none", "zombie"} /\ d # NoProc
      /\ pc[d] = "run" /\ idx[d] \in Server
  BY <1>1, SizeAssumption DEF DaemonReaps, IsChild, Live
<1>3. pc[p] = "zombie"
  BY <1>2 DEF DaemonInv, FamilyInv
<1>4. /\ pc' = [pc EXCEPT ![p] = "none"]
      /\ ppid' = [ppid EXCEPT ![p] = NoProc]
      /\ idx' = [idx EXCEPT ![d] = After(idx[d])]
      /\ UNCHANGED <<srv, prcmng, path>>
  BY <1>1 DEF DaemonReaps
<1>5. Types /\ After(idx[d]) \in Nat
  BY <1>2, SizeAssumption DEF DaemonInv, After, Server
<1>6. Types'
  BY <1>4, <1>5 DEF Types
<1>7. /\ pc'[p] = "none" /\ ppid'[p] = NoProc
      /\ \A x \in Proc \ {p} : pc'[x] = pc[x] /\ ppid'[x] = ppid[x]
      /\ \A x \in Proc \ {d} : idx'[x] = idx[x]
  <2>1. DOMAIN pc = Proc /\ DOMAIN ppid = Proc /\ DOMAIN idx = Proc
    BY <1>5 DEF Types
  <2> QED
    BY <2>1, <1>2, <1>4
<1>8. ASSUME NEW x \in Proc, ppid[x] = p PROVE FALSE
  <2>1. p # NoProc
    BY <1>2, SizeAssumption
  <2>2. pc[x] \notin {"none"} \union DaemonPc
    BY <2>1, <1>8 DEF DaemonInv, FamilyInv
  <2>3. pc[x] \in {"zombie", "work"} \union ServerPc
    BY <2>2, <1>5 DEF Types
  <2> QED
    BY <2>1, <2>3, <1>3, <1>8 DEF DaemonInv, FamilyInv, DaemonPc, ServerPc
<1>9. FamilyInv'
  <2> SUFFICES ASSUME NEW x \in Proc
               PROVE  /\ pc'[x] \in {"none"} \union DaemonPc => ppid'[x] = NoProc
                      /\ pc'[x] \in {"zombie"} \union ServerPc /\ ppid'[x] # NoProc
                           => pc'[ppid'[x]] \in DaemonPc
                      /\ pc'[x] = "work" /\ ppid'[x] # NoProc => pc'[ppid'[x]] \in ServerPc
    BY DEF FamilyInv, DaemonPc, ServerPc
  <2>1. CASE x = p
    BY <2>1, <1>7
  <2>2. CASE x # p
    <3>1. ppid[x] \in (Proc \ {p}) \union {NoProc}
      BY <1>5, <1>8 DEF Types
    <3>2. ppid[x] # NoProc => pc'[ppid[x]] = pc[ppid[x]]
      BY <3>1, <1>7
    <3> QED
      BY <2>2, <3>2, <1>7 DEF DaemonInv, FamilyInv
  <2> QED
    BY <2>1, <2>2
<1>10. \A x \in Proc : pc'[x] \in DaemonPc \union ServerPc \union {"work", "init"} =>
                         x # p /\ pc'[x] = pc[x]
  BY <1>7 DEF DaemonPc, ServerPc
<1>11. OneDaemon'
  <2> SUFFICES ASSUME NEW x \in Proc, NEW e \in Proc,
                      pc'[x] \in DaemonPc, pc'[e] \in DaemonPc
               PROVE  x = e
    BY DEF OneDaemon, DaemonPc
  <2> QED
    BY <1>10 DEF DaemonInv, OneDaemon
<1>12. SrvInv'
  <2> SUFFICES ASSUME NEW x \in Proc, pc'[x] \in {"work"} \union ServerPc
               PROVE  srv[x] \in Server
    BY <1>4 DEF SrvInv, ServerPc, Server
  <2>1. pc'[x] = pc[x]
    BY <1>10
  <2> QED
    BY <2>1 DEF DaemonInv, SrvInv
<1>13. FirstRound'
  <2> SUFFICES ASSUME NEW e \in Proc, pc'[e] = "init", NEW s \in Server, s >= idx'[e]
               PROVE  prcmng[s] = NoProc
    BY <1>4 DEF FirstRound
  <2>1. pc[e] = "init"
    BY <1>10
  <2>2. idx'[e] = idx[e]
    BY <2>1, <1>2, <1>7
  <2> QED
    BY <2>1, <2>2 DEF DaemonInv, FirstRound
<1>14. PathInv'
  <2> SUFFICES ASSUME NEW s \in Server, path[s] # NoProc, pc'[path[s]] \notin {"none", "zombie"}
               PROVE  pc'[path[s]] \in ServerPc /\ srv[path[s]] = s
    BY <1>4 DEF PathInv, Live, ServerPc
  <2>1. path[s] \in Proc /\ path[s] # p
    BY <1>5, <1>7 DEF Types
  <2> QED
    BY <2>1, <1>7 DEF DaemonInv, PathInv, Live
<1>15. OneInstance'
  <2> SUFFICES ASSUME NEW x \in Proc, pc'[x] \in ServerPc, ppid'[x] # NoProc
               PROVE  prcmng[srv[x]] = x
    BY <1>4 DEF OneInstance, Instance
  <2>1. pc'[x] = pc[x] /\ ppid'[x] = ppid[x]
    BY <1>7, <1>10
  <2> QED
    BY <2>1 DEF DaemonInv, OneInstance, Instance, Live, ServerPc
<1> QED
  BY <1>6, <1>9, <1>11, <1>12, <1>13, <1>14, <1>15 DEF DaemonInv

-----------------------------------------------------------------------------
\* A step of a server that goes on: its new place, and what the names are then.
LEMMA ServerGoesOn ==
  ASSUME DaemonInv, NEW p \in Proc, NEW c \in ServerPc, NEW i \in Nat,
         pc[p] \in ServerPc, pc' = [pc EXCEPT ![p] = c],
         UNCHANGED <<ppid, srv, prcmng>>,
         idx' = [idx EXCEPT ![p] = i] \/ UNCHANGED idx,
         path' \in [Server -> Proc \union {NoProc}],
         \A s \in Server : path'[s] \in {path[s], NoProc} \/ (path'[s] = p /\ srv[p] = s)
  PROVE  DaemonInv'
<1>1. /\ pc' \in [Proc -> {"none", "zombie", "work"} \union DaemonPc \union ServerPc]
      /\ pc'[p] = c /\ \A x \in Proc \ {p} : pc'[x] = pc[x]
      /\ FamilyInv' /\ OneDaemon' /\ SrvInv' /\ OneInstance'
  BY MoveKeeps
<1>2. Types
  BY DEF DaemonInv
<1>3. Types'
  BY <1>1, <1>2 DEF Types
<1>4. FirstRound'
  <2> SUFFICES ASSUME NEW d \in Proc, pc'[d] = "init", NEW s \in Server, s >= idx'[d]
               PROVE  prcmng[s] = NoProc
    BY DEF FirstRound
  <2>1. d # p
    BY <1>1 DEF ServerPc
  <2>2. pc[d] = "init" /\ idx'[d] = idx[d]
    BY <2>1, <1>1, <1>2 DEF Types
  <2> QED
    BY <2>2 DEF DaemonInv, FirstRound
<1>5. PathInv'
  <2> SUFFICES ASSUME NEW s \in Server, path'[s] # NoProc, pc'[path'[s]] \notin {"none", "zombie"}
               PROVE  pc'[path'[s]] \in ServerPc /\ srv[path'[s]] = s
    BY DEF PathInv, Live, ServerPc
  <2>1. CASE path'[s] = p /\ srv[p] = s
    BY <2>1, <1>1
  <2>2. CASE path'[s] = path[s]
    <3>1. path[s] \in Proc
      BY <2>2, <1>2 DEF Types
    <3>2. CASE path[s] = p
      <4>1. srv[p] = s
        BY <2>2, <3>2 DEF DaemonInv, PathInv, Live, ServerPc
      <4> QED
        BY <2>2, <3>2, <4>1, <1>1
    <3>3. CASE path[s] # p
      <4>1. pc'[path[s]] = pc[path[s]]
        BY <3>1, <3>3, <1>1
      <4> QED
        BY <2>2, <4>1 DEF DaemonInv, PathInv, Live
    <3> QED
      BY <3>2, <3>3
  <2> QED
    BY <2>1, <2>2
<1> QED
  BY <1>1, <1>3, <1>4, <1>5 DEF DaemonInv

\* The steps of a server.
LEMMA ServerKeeps ==
  ASSUME DaemonInv, NEW p \in Proc,
         \/ ServerUnlink(p) \/ ServerOpen(p) \/ ServerReady(p) \/ ServerLook(p)
         \/ ServerFindsWorker(p) \/ ServerForkFails(p)
  PROVE  DaemonInv'
<1>1. Types /\ (pc[p] \in ServerPc => srv[p] \in Server)
  BY DEF DaemonInv, SrvInv
<1>2. \A i \in Nat : i + 1 \in Nat /\ (i + 1) % (NTps + 1) \in Nat
  BY SizeAssumption
<1>3. \A n \in Nat, x \in Nat : idx[p] = x => idx[p] \in Nat
  OBVIOUS
<1>4. CASE ServerUnlink(p)
  <2>1. /\ pc[p] \in ServerPc /\ pc' = [pc EXCEPT ![p] = "open"] /\ "open" \in ServerPc
        /\ UNCHANGED <<ppid, srv, prcmng>> /\ UNCHANGED idx
        /\ path' = [path EXCEPT ![srv[p]] = NoProc]
    BY <1>4 DEF ServerUnlink, ServerPc
  <2>2. /\ path' \in [Server -> Proc \union {NoProc}]
        /\ \A s \in Server : path'[s] \in {path[s], NoProc}
    BY <2>1, <1>1 DEF Types
  <2>3. 0 \in Nat
    OBVIOUS
  <2> QED
    BY <2>1, <2>2, <2>3, ServerGoesOn
<1>5. CASE ServerOpen(p)
  <2>1. /\ pc[p] \in ServerPc /\ pc' = [pc EXCEPT ![p] = "crew"] /\ "crew" \in ServerPc
        /\ UNCHANGED <<ppid, srv, prcmng>> /\ idx' = [idx EXCEPT ![p] = 1]
        /\ path' = [path EXCEPT ![srv[p]] = p]
    BY <1>5 DEF ServerOpen, ServerPc
  <2>2. /\ path' \in [Server -> Proc \union {NoProc}]
        /\ \A s \in Server : path'[s] = path[s] \/ (path'[s] = p /\ srv[p] = s)
    BY <2>1, <1>1 DEF Types
  <2>3. 1 \in Nat
    OBVIOUS
  <2> QED
    BY <2>1, <2>2, <2>3, ServerGoesOn
<1>6. CASE ServerReady(p)
  <2>1. /\ pc[p] \in ServerPc /\ pc' = [pc EXCEPT ![p] = "loop"] /\ "loop" \in ServerPc
        /\ UNCHANGED <<ppid, srv, prcmng, path>> /\ idx' = [idx EXCEPT ![p] = 0]
    BY <1>6 DEF ServerReady, ServerPc
  <2>2. /\ path' \in [Server -> Proc \union {NoProc}]
        /\ \A s \in Server : path'[s] = path[s]
    BY <2>1, <1>1 DEF Types
  <2>3. 0 \in Nat
    OBVIOUS
  <2> QED
    BY <2>1, <2>2, <2>3, ServerGoesOn
<1>7. CASE ServerLook(p)
  <2>1. /\ pc[p] \in ServerPc /\ pc[p] # "init" /\ UNCHANGED <<ppid, srv, prcmng, path>>
    BY <1>7 DEF ServerLook, ServerPc
  <2>2. CASE pc' = [pc EXCEPT ![p] = "close"] /\ UNCHANGED idx
    <3>1. /\ path' \in [Server -> Proc \union {NoProc}]
          /\ \A s \in Server : path'[s] = path[s]
          /\ "close" \in ServerPc /\ 0 \in Nat
      BY <2>1, <1>1 DEF Types, ServerPc
    <3> QED
      BY <2>1, <2>2, <3>1, ServerGoesOn
  <2>3. CASE idx' = [idx EXCEPT ![p] = 1] /\ UNCHANGED pc
    <3>1. 1 \in Nat
      OBVIOUS
    <3> QED
      BY <2>1, <2>3, <3>1, LookKeeps
  <2> QED
    BY <2>2, <2>3, <1>7 DEF ServerLook
<1>8. CASE ServerFindsWorker(p)
  <2>1. /\ pc[p] # "init" /\ UNCHANGED <<pc, ppid, srv, prcmng, path>>
        /\ idx' = [idx EXCEPT ![p] = (idx[p] + 1) % (NTps + 1)]
    BY <1>8 DEF ServerFindsWorker
  <2>2. (idx[p] + 1) % (NTps + 1) \in Nat
    BY <1>1, <1>2 DEF Types
  <2> QED
    BY <2>1, <2>2, LookKeeps
<1>9. CASE ServerForkFails(p)
  <2> DEFINE i == IF pc[p] = "loop" THEN (idx[p] + 1) % (NTps + 1) ELSE idx[p] + 1
  <2>1. /\ pc[p] # "init" /\ UNCHANGED <<pc, ppid, srv, prcmng, path>>
        /\ idx' = [idx EXCEPT ![p] = i]
    BY <1>9 DEF ServerForkFails
  <2>2. i \in Nat
    BY <1>1, <1>2 DEF Types
  <2> HIDE DEF i
  <2> QED
    BY <2>1, <2>2, LookKeeps
<1> QED
  BY <1>4, <1>5, <1>6, <1>7, <1>8, <1>9

\* The steps that end a process.
LEMMA EndKeeps ==
  ASSUME DaemonInv, NEW p \in Proc,
         \/ DaemonQuit(p) \/ ServerExecFails(p) \/ ServerOpenFails(p) \/ ServerClose(p)
         \/ WorkerLeaves(p) \/ Killed(p)
  PROVE  DaemonInv'
<1>1. /\ path \in [Server -> Proc \union {NoProc}]
      /\ pc[p] \in ServerPc => srv[p] \in Server
  BY DEF DaemonInv, SrvInv, Types
<1>2. Live(p) /\ Gone(p) /\ UNCHANGED prcmng
  BY DEF DaemonQuit, ServerExecFails, ServerOpenFails, ServerClose, WorkerLeaves, Killed, Live
<1>3. /\ path' \in [Server -> Proc \union {NoProc}]
      /\ \A s \in Server : path'[s] \in {path[s], NoProc}
  <2>1. CASE UNCHANGED path
    BY <2>1, <1>1
  <2>2. CASE path' = [path EXCEPT ![srv[p]] = NoProc]
    BY <2>2, <1>1
  <2> QED
    BY <2>1, <2>2
    DEF DaemonQuit, ServerExecFails, ServerOpenFails, ServerClose, WorkerLeaves, Killed
<1> QED
  BY <1>2, <1>3, GoneKeeps

LEMMA ForksWorkerKeeps ==
  ASSUME DaemonInv, NEW p \in Proc, NEW w \in Proc, ServerForks(p, w) \/ ServerReplaces(p, w)
  PROVE  DaemonInv'
<1>1. idx[p] \in Nat /\ idx[p] + 1 \in Nat /\ (idx[p] + 1) % (NTps + 1) \in Nat
  BY SizeAssumption DEF DaemonInv, Types
<1>2. pc[p] \in ServerPc /\ UNCHANGED <<path, prcmng>>
  BY DEF ServerForks, ServerReplaces, ServerPc
<1>3. PICK i \in Nat : Fork(p, w, "work", srv[p], i)
  BY <1>1 DEF ServerForks, ServerReplaces
<1> QED
  BY <1>2, <1>3, ForkWorkerKeeps

\* Every step keeps the invariant.
LEMMA DaemonStep == DaemonInv /\ [Next]_vars => DaemonInv'
<1> SUFFICES ASSUME DaemonInv, [Next]_vars PROVE DaemonInv'
  OBVIOUS
<1>1. CASE UNCHANGED vars
  <2>1. UNCHANGED <<pc, ppid, srv, idx, prcmng, path>>
    BY <1>1 DEF vars, procVars
  <2> QED
    BY <2>1 DEF DaemonInv, Types, FamilyInv, OneDaemon, SrvInv, FirstRound, PathInv,
                OneInstance, Instance, Live
<1>2. CASE Next
  <2>1. PICK p \in Proc :
          \/ Run(p)
          \/ DaemonStart(p) \/ DaemonQuit(p)
          \/ ServerExecFails(p) \/ ServerForkFails(p) \/ Killed(p)
    BY <1>2 DEF Next
  <2>2. CASE DaemonStart(p)
    BY <2>2, DaemonStartKeeps
  <2>3. CASE DaemonReady(p)
    BY <2>3, DaemonReadyKeeps
  <2>4. CASE DaemonFindsRunning(p)
    <3>1. /\ pc[p] # "init" /\ UNCHANGED <<pc, ppid, srv, prcmng, path>>
          /\ idx' = [idx EXCEPT ![p] = After(idx[p])]
      BY <2>4 DEF DaemonFindsRunning
    <3>2. After(idx[p]) \in Nat
      BY <2>4, SizeAssumption DEF DaemonFindsRunning, After, Server
    <3> QED
      BY <3>1, <3>2, LookKeeps
  <2>5. CASE DaemonReaps(p)
    BY <2>5, DaemonReapsKeeps
  <2>6. CASE DaemonIdle(p)
    <3>1. /\ pc[p] # "init" /\ UNCHANGED <<pc, ppid, srv, prcmng, path>>
          /\ idx' = [idx EXCEPT ![p] = 1] /\ 1 \in Nat
      BY <2>6 DEF DaemonIdle
    <3> QED
      BY <3>1, LookKeeps
  <2>7. CASE \/ ServerUnlink(p) \/ ServerOpen(p) \/ ServerReady(p) \/ ServerLook(p)
             \/ ServerFindsWorker(p) \/ ServerForkFails(p)
    BY <2>7, ServerKeeps
  <2>8. CASE \/ DaemonQuit(p) \/ ServerExecFails(p) \/ ServerOpenFails(p) \/ ServerClose(p)
             \/ WorkerLeaves(p) \/ Killed(p)
    BY <2>8, EndKeeps
  <2>9. ASSUME NEW q \in Proc, DaemonExec(p, q) PROVE DaemonInv'
    BY <2>9, DaemonExecKeeps
  <2>10. ASSUME NEW q \in Proc, DaemonRestarts(p, q) PROVE DaemonInv'
    BY <2>10, DaemonRestartsKeeps
  <2>11. ASSUME NEW q \in Proc, ServerForks(p, q) \/ ServerReplaces(p, q) PROVE DaemonInv'
    BY <2>11, ForksWorkerKeeps
  <2> QED
    BY <2>1, <2>2, <2>3, <2>4, <2>5, <2>6, <2>7, <2>8, <2>9, <2>10, <2>11 DEF Run
<1> QED
  BY <1>1, <1>2

LEMMA DaemonInvAlways == Spec => []DaemonInv
  BY DaemonInit, DaemonStep, PTL DEF Spec

\* A daemon never runs two instances of one server, however processes are killed,
\* forks fail and pnoxd is started again (check_proc of pnoxd.c waits for an
\* instance before it starts the next one).
THEOREM InstanceKnown == Spec => []OneInstance
<1>1. DaemonInv => OneInstance
  BY DEF DaemonInv
<1> QED
  BY <1>1, DaemonInvAlways, PTL

\* A server of a daemon that lives loses its queue name only to an instance of
\* the same server that an earlier daemon has left (pxopen and pxclose remove the
\* name, whoever has it).
THEOREM NameKept == Spec => NameLostOnlyToOrphan
<1> DEFINE Lost ==
      \A p \in Proc : \A s \in Server :
        path[s] = p /\ path'[s] # p /\ pc[p] \in {"crew", "loop"} /\ ppid[p] # NoProc
        => \E q \in Proc : Orphan(q) /\ srv[q] = s
<1>1. DaemonInv /\ [Next]_vars => [Lost]_vars
  <2> SUFFICES ASSUME DaemonInv, [Next]_vars, NEW p \in Proc, NEW s \in Server,
                      path[s] = p, path'[s] # p, pc[p] \in {"crew", "loop"}, ppid[p] # NoProc
               PROVE  \E q \in Proc : Orphan(q) /\ srv[q] = s
    OBVIOUS
  <2>1. srv[p] = s
    BY SizeAssumption DEF DaemonInv, PathInv, Live
  <2>2. prcmng[s] = p
    BY <2>1 DEF DaemonInv, OneInstance, Instance, Live, ServerPc
  <2>3. \E q \in Proc : /\ pc[q] \in {"exec", "open", "close"}
                        /\ srv[q] = s
    <3>1. path \in [Server -> Proc \union {NoProc}] /\ p # NoProc
      BY SizeAssumption DEF DaemonInv, Types
    <3>2. path' # path
      OBVIOUS
    <3>3. \E q \in Proc : ServerUnlink(q) \/ ServerOpen(q) \/ ServerOpenFails(q) \/ ServerClose(q)
      BY <3>2 DEF Next, Run, vars, procVars, DaemonReady, DaemonFindsRunning, DaemonReaps,
           DaemonIdle, ServerReady, ServerLook, ServerFindsWorker, WorkerLeaves, DaemonExec,
           DaemonRestarts, ServerForks, ServerReplaces, DaemonStart, DaemonQuit,
           ServerExecFails, ServerForkFails, Killed
    <3>4. PICK q \in Proc : ServerUnlink(q) \/ ServerOpen(q) \/ ServerOpenFails(q) \/ ServerClose(q)
      BY <3>3
    <3>5. CASE ServerOpen(q)
      BY <3>1, <3>5 DEF ServerOpen
    <3>6. CASE ServerUnlink(q) \/ ServerOpenFails(q) \/ ServerClose(q)
      <4>1. pc[q] \in {"exec", "open", "close"} /\ path' = [path EXCEPT ![srv[q]] = NoProc]
        BY <3>6 DEF ServerUnlink, ServerOpenFails, ServerClose
      <4> QED
        BY <4>1, <3>1
    <3> QED
      BY <3>4, <3>5, <3>6
  <2>4. PICK q \in Proc : pc[q] \in {"exec", "open", "close"} /\ srv[q] = s
    BY <2>3
  <2>5. ppid[q] = NoProc
    BY <2>2, <2>4 DEF DaemonInv, OneInstance, Instance, Live, ServerPc
  <2> QED
    BY <2>4, <2>5 DEF Orphan, Live, ServerPc
<1> QED
  BY <1>1, DaemonInvAlways, PTL DEF Spec, NameLostOnlyToOrphan
=============================================================================
