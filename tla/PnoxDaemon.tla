----------------------------- MODULE PnoxDaemon -----------------------------
(***************************************************************************)
(* Supervision: pnoxd starts the resident servers and starts them again    *)
(* when they end; a server built on tpsmain.c (pnoxtpc is built the same   *)
(* way) binds its queue name, forks workers and replaces lost ones.        *)
(* Parents are watched by polling getppid(), so when a daemon is killed    *)
(* and started again its old servers still run for a while beside the new  *)
(* ones, and use the same queue names.                                     *)
(*                                                                         *)
(* Any process may be killed; forks and execs may fail; pnoxd may be told  *)
(* to end and may be started any time, also while one runs.                *)
(***************************************************************************)
EXTENDS Integers

CONSTANTS
  Proc,        \* process ids
  InOrder,     \* whether the kernel gives them out in order or in any
  NServer,     \* resident entries of pxmon->prcmng
  NTps,        \* workers a server forks
  MaxStarts,   \* bound: how often pnoxd is started
  MaxFaults,   \* bound: kills, failed forks, failed execs
  NoProc

ASSUME SizeAssumption ==
  /\ InOrder \in BOOLEAN
  /\ InOrder => Proc \subseteq Nat
  /\ NServer \in Nat \ {0}
  /\ NTps \in Nat \ {0}
  /\ MaxStarts \in Nat
  /\ MaxFaults \in Nat
  /\ NoProc \notin Proc

Server == 1 .. NServer
Crew == 1 .. NTps

VARIABLES
  pc,       \* where each process is
  ppid,     \* its parent, NoProc for init
  srv,      \* the server it belongs to, 0 for a daemon
  idx,      \* the entry it looks at in its table of children
  prcmng,   \* pxmon->prcmng[].pid
  path,     \* the process whose socket has the queue name of a server
  tps,      \* tpspid, the worker table of a server
  starts,   \* how often pnoxd was started
  faults,   \* how many faults there were
  overlap   \* history: servers last started while an orphaned one still ran

procVars == <<pc, ppid, srv, idx, tps>>
vars == <<procVars, prcmng, path, starts, faults, overlap>>

-----------------------------------------------------------------------------
DaemonPc == {"init", "run"}
ServerPc == {"exec", "open", "crew", "loop", "close"}
Live(p) == pc[p] \notin {"none", "zombie"}

\* Ids that no table holds: a new process gets one of these.
Unused ==
  {p \in Proc : /\ pc[p] = "none"
                /\ \A s \in Server : p # prcmng[s] /\ p # path[s]
                /\ \A q \in Proc : \A i \in Crew : p # tps[q][i]}

FreeProcs == {p \in Unused : InOrder => \A q \in Unused : p <= q}

NoCrew == [i \in Crew |-> NoProc]

Init ==
  /\ pc = [p \in Proc |-> "none"]
  /\ ppid = [p \in Proc |-> NoProc]
  /\ srv = [p \in Proc |-> 0]
  /\ idx = [p \in Proc |-> 0]
  /\ tps = [p \in Proc |-> NoCrew]
  /\ prcmng = [s \in Server |-> NoProc]
  /\ path = [s \in Server |-> NoProc]
  /\ starts = 0
  /\ faults = 0
  /\ overlap = {}

\* p forks q, which begins at `at' for server s; p goes on with entry i.
Fork(p, q, at, s, i) ==
  /\ q \in FreeProcs
  /\ pc' = [pc EXCEPT ![q] = at]
  /\ ppid' = [ppid EXCEPT ![q] = p]
  /\ srv' = [srv EXCEPT ![q] = s]
  /\ idx' = [idx EXCEPT ![p] = i]

\* p ends.  Its children become children of init, which reaps the zombies among
\* them; p becomes a zombie itself if its parent waits for it: a daemon does, a
\* server ignores SIGCHLD.
Gone(p) ==
  LET kept == ppid[p] # NoProc /\ pc[ppid[p]] \in DaemonPc
  IN  /\ pc' = [q \in Proc |->
                  IF q = p THEN IF kept THEN "zombie" ELSE "none"
                  ELSE IF ppid[q] = p /\ pc[q] = "zombie" THEN "none"
                  ELSE pc[q]]
      /\ ppid' = [q \in Proc |->
                    IF q = p THEN IF kept THEN ppid[p] ELSE NoProc
                    ELSE IF ppid[q] = p THEN NoProc ELSE ppid[q]]
      /\ srv' = [srv EXCEPT ![p] = 0]
      /\ idx' = [idx EXCEPT ![p] = 0]
      /\ tps' = [tps EXCEPT ![p] = NoCrew]

Fault == faults < MaxFaults /\ faults' = faults + 1

-----------------------------------------------------------------------------
(* pnoxd.                                                                  *)

\* An operator starts pnoxd.  The lock on pnoxd.pid lets it go on only if no
\* other one lives (PnoxSegment); pxmon_init clears the process table.
DaemonStart(d) ==
  /\ starts < MaxStarts /\ starts' = starts + 1
  /\ \A q \in Proc : pc[q] \notin DaemonPc
  /\ d \in FreeProcs
  /\ pc' = [pc EXCEPT ![d] = "init"]
  /\ idx' = [idx EXCEPT ![d] = 1]
  /\ prcmng' = [s \in Server |-> NoProc]
  /\ UNCHANGED <<ppid, srv, tps, path, faults, overlap>>

Orphan(p) == Live(p) /\ pc[p] \in ServerPc /\ ppid[p] = NoProc
Orphans(s) == {p \in Proc : Orphan(p) /\ srv[p] = s}

\* do_exec_proc for entry s.
StartServer(d, p, s, i) ==
  /\ Fork(d, p, "exec", s, i)
  /\ prcmng' = [prcmng EXCEPT ![s] = p]
  /\ overlap' = IF Orphans(s) # {} THEN overlap \union {s} ELSE overlap \ {s}

\* exec_pxmon starts each entry, then main goes into its loop.
DaemonExec(d, p) ==
  /\ pc[d] = "init" /\ idx[d] \in Server
  /\ StartServer(d, p, idx[d], idx[d] + 1)
  /\ UNCHANGED <<tps, path, starts, faults>>

DaemonReady(d) ==
  /\ pc[d] = "init" /\ idx[d] \notin Server
  /\ pc' = [pc EXCEPT ![d] = "run"]
  /\ idx' = [idx EXCEPT ![d] = 1]
  /\ UNCHANGED <<ppid, srv, tps, prcmng, path, starts, faults,
                 overlap>>

\* check_proc: waitpid tells of an entry that it runs, or that it ended, once;
\* after that it is no child any more, and only then it is started again.
Entry(d) == prcmng[idx[d]]
IsChild(d, p) == p # NoProc /\ ppid[p] = d
After(i) == IF i < NServer THEN i + 1 ELSE 0

DaemonFindsRunning(d) ==
  /\ pc[d] = "run" /\ idx[d] \in Server
  /\ IsChild(d, Entry(d)) /\ Live(Entry(d))
  /\ idx' = [idx EXCEPT ![d] = After(@)]
  /\ UNCHANGED <<pc, ppid, srv, tps, prcmng, path, starts, faults,
                 overlap>>

DaemonReaps(d) ==
  /\ pc[d] = "run" /\ idx[d] \in Server
  /\ IsChild(d, Entry(d)) /\ ~Live(Entry(d))
  /\ pc' = [pc EXCEPT ![Entry(d)] = "none"]
  /\ ppid' = [ppid EXCEPT ![Entry(d)] = NoProc]
  /\ idx' = [idx EXCEPT ![d] = After(@)]
  /\ UNCHANGED <<srv, tps, prcmng, path, starts, faults,
                 overlap>>

\* Wrong variant: waitpid's 0, for a child that runs, is taken for an error.
DaemonRestartsRunning(d, p) ==
  /\ pc[d] = "run" /\ idx[d] \in Server
  /\ IsChild(d, Entry(d)) => Live(Entry(d))
  /\ StartServer(d, p, idx[d], After(idx[d]))
  /\ UNCHANGED <<tps, path, starts, faults>>

\* Wrong variant: an entry whose server was reaped is taken for one never used.
DaemonRestartsFirst(d, p) ==
  /\ pc[d] = "run" /\ idx[d] \in Server
  /\ Entry(d) = NoProc
  /\ StartServer(d, p, idx[d], After(idx[d]))
  /\ UNCHANGED <<tps, path, starts, faults>>

DaemonRestarts(d, p) ==
  /\ pc[d] = "run" /\ idx[d] \in Server
  /\ ~IsChild(d, Entry(d))
  /\ StartServer(d, p, idx[d], After(idx[d]))
  /\ UNCHANGED <<tps, path, starts, faults>>

\* select ends without a command, or with one that changes nothing: the cases
\* q and r of pnox_event are compiled out.
DaemonIdle(d) ==
  /\ pc[d] = "run" /\ idx[d] = 0
  /\ idx' = [idx EXCEPT ![d] = 1]
  /\ UNCHANGED <<pc, ppid, srv, tps, prcmng, path, starts, faults,
                 overlap>>

\* pxinit -k: the daemon leaves its loop, removes the segment and exits.
DaemonQuit(d) ==
  /\ pc[d] = "run" /\ idx[d] = 0
  /\ Gone(d)
  /\ UNCHANGED <<prcmng, path, starts, faults, overlap>>

-----------------------------------------------------------------------------
(* A server: the main of tpsmain.c.                                        *)

\* execl fails; the child exits.
ServerExecFails(p) ==
  /\ pc[p] = "exec" /\ Fault
  /\ Gone(p)
  /\ UNCHANGED <<prcmng, path, starts, overlap>>

\* It removes the queue name, whoever has it ...
ServerUnlink(p) ==
  /\ pc[p] = "exec"
  /\ path' = [path EXCEPT ![srv[p]] = NoProc]
  /\ pc' = [pc EXCEPT ![p] = "open"]
  /\ UNCHANGED <<ppid, srv, idx, tps, prcmng, starts, faults,
                 overlap>>

\* ... and binds it ...
ServerOpen(p) ==
  /\ pc[p] = "open" /\ path[srv[p]] = NoProc
  /\ path' = [path EXCEPT ![srv[p]] = p]
  /\ pc' = [pc EXCEPT ![p] = "crew"]
  /\ idx' = [idx EXCEPT ![p] = 1]
  /\ UNCHANGED <<ppid, srv, tps, prcmng, starts, faults,
                 overlap>>

\* ... or finds it bound again: pxopen removes the name, the server exits.
ServerOpenFails(p) ==
  /\ pc[p] = "open" /\ path[srv[p]] # NoProc
  /\ path' = [path EXCEPT ![srv[p]] = NoProc]
  /\ Gone(p)
  /\ UNCHANGED <<prcmng, starts, faults, overlap>>

\* The first workers; an entry whose fork failed stays 0, and kill(0, 0) will
\* always find somebody.
ServerForks(p, w) ==
  /\ pc[p] = "crew" /\ idx[p] \in Crew
  /\ Fork(p, w, "work", srv[p], idx[p] + 1)
  /\ tps' = [tps EXCEPT ![p][idx[p]] = w]
  /\ UNCHANGED <<prcmng, path, starts, faults, overlap>>

\* kill(pid, 0) fails for a worker that ended.
Missing(p) == tps[p][idx[p]] # NoProc /\ ~Live(tps[p][idx[p]])

\* A fork failed: the entry stays as it is.  In the loop it is tried again.
ServerForkFails(p) ==
  /\ idx[p] \in Crew /\ Fault
  /\ pc[p] = "crew" \/ (pc[p] = "loop" /\ Missing(p))
  /\ idx' = [idx EXCEPT ![p] = IF pc[p] = "loop" THEN (@ + 1) % (NTps + 1)
                               ELSE @ + 1]
  /\ UNCHANGED <<pc, ppid, srv, tps, prcmng, path, starts,
                 overlap>>

ServerReady(p) ==
  /\ pc[p] = "crew" /\ idx[p] \notin Crew
  /\ pc' = [pc EXCEPT ![p] = "loop"]
  /\ idx' = [idx EXCEPT ![p] = 0]
  /\ UNCHANGED <<ppid, srv, tps, prcmng, path, starts, faults,
                 overlap>>

\* The top of the loop: go on to check_proc, or leave when the daemon is gone.
ServerLook(p) ==
  /\ pc[p] = "loop" /\ idx[p] = 0
  /\ IF ppid[p] = NoProc
     THEN pc' = [pc EXCEPT ![p] = "close"] /\ UNCHANGED idx
     ELSE idx' = [idx EXCEPT ![p] = 1] /\ UNCHANGED pc
  /\ UNCHANGED <<ppid, srv, tps, prcmng, path, starts, faults,
                 overlap>>

\* check_proc, one entry at a time.
ServerFindsWorker(p) ==
  /\ pc[p] = "loop" /\ idx[p] \in Crew /\ ~Missing(p)
  /\ idx' = [idx EXCEPT ![p] = (@ + 1) % (NTps + 1)]
  /\ UNCHANGED <<pc, ppid, srv, tps, prcmng, path, starts, faults,
                 overlap>>

\* Wrong variant: the new worker is not entered in the table.
ServerForgetsWorker(p, w) ==
  /\ pc[p] = "loop" /\ idx[p] \in Crew /\ Missing(p)
  /\ Fork(p, w, "work", srv[p], (idx[p] + 1) % (NTps + 1))
  /\ UNCHANGED <<tps, prcmng, path, starts, faults, overlap>>

ServerReplaces(p, w) ==
  /\ pc[p] = "loop" /\ idx[p] \in Crew /\ Missing(p)
  /\ Fork(p, w, "work", srv[p], (idx[p] + 1) % (NTps + 1))
  /\ tps' = [tps EXCEPT ![p][idx[p]] = w]
  /\ UNCHANGED <<prcmng, path, starts, faults, overlap>>

\* pxclose removes the queue name, whoever has it by now, and the server exits.
ServerClose(p) ==
  /\ pc[p] = "close"
  /\ path' = [path EXCEPT ![srv[p]] = NoProc]
  /\ Gone(p)
  /\ UNCHANGED <<prcmng, starts, faults, overlap>>

\* Wrong variant: a worker closes the queue on its way out, like the parent.
WorkerCloses(w) ==
  /\ pc[w] = "work" /\ ppid[w] = NoProc
  /\ path' = [path EXCEPT ![srv[w]] = NoProc]
  /\ Gone(w)
  /\ UNCHANGED <<prcmng, starts, faults, overlap>>

\* Wrong variant: a worker that never looks at getppid.
WorkerStays(w) ==
  /\ pc[w] = "work" /\ ppid[w] = NoProc
  /\ UNCHANGED vars

\* A worker whose parent is gone leaves, without touching the name.
WorkerLeaves(w) ==
  /\ pc[w] = "work" /\ ppid[w] = NoProc
  /\ Gone(w)
  /\ UNCHANGED <<prcmng, path, starts, faults, overlap>>

\* A signal ends a process where it is, or a daemon cannot fork and exits.
Killed(p) ==
  /\ Live(p) /\ Fault
  /\ Gone(p)
  /\ UNCHANGED <<prcmng, path, starts, overlap>>

-----------------------------------------------------------------------------
\* What a process does by itself.
Run(p) ==
  \/ DaemonReady(p)
  \/ DaemonFindsRunning(p) \/ DaemonReaps(p) \/ DaemonIdle(p)
  \/ ServerUnlink(p) \/ ServerOpen(p) \/ ServerOpenFails(p) \/ ServerReady(p)
  \/ ServerLook(p) \/ ServerFindsWorker(p) \/ ServerClose(p)
  \/ WorkerLeaves(p)
  \/ \E q \in Proc : \/ DaemonExec(p, q) \/ DaemonRestarts(p, q)
                     \/ ServerForks(p, q) \/ ServerReplaces(p, q)

Next ==
  \E p \in Proc :
    \/ Run(p)
    \/ DaemonStart(p) \/ DaemonQuit(p)
    \/ ServerExecFails(p) \/ ServerForkFails(p) \/ Killed(p)

Spec == Init /\ [][Next]_vars

\* Every process that can run does run.  Starts, quits and faults are not
\* forced, and there are finitely many of them.
FairSpec == Spec /\ \A p \in Proc : WF_vars(Run(p))

-----------------------------------------------------------------------------
(* Properties.                                                             *)

Instance(p) == Live(p) /\ pc[p] \in ServerPc

\* A daemon never runs two instances of one server, and it knows the one it
\* runs: a restart waits until the old instance has been reaped.
OneInstance ==
  \A p \in Proc :
    Instance(p) /\ ppid[p] # NoProc => prcmng[srv[p]] = p

\* While its daemon lives, the queue name of a server that serves is taken from
\* it only by an instance of the same server that another daemon left behind.
NameLostOnlyToOrphan ==
  [][\A p \in Proc : \A s \in Server :
       path[s] = p /\ path'[s] # p /\ pc[p] \in {"crew", "loop"}
       /\ ppid[p] # NoProc
       => \E q \in Proc : Orphan(q) /\ srv[q] = s]_vars

\* Under a daemon that stays, every server is up in the end, and its queue name
\* leads to it unless it was started while an orphan still had to close.
ServersUp ==
  <>[](\A d \in Proc : pc[d] = "run" =>
         \A s \in Server :
           /\ pc[prcmng[s]] = "loop" /\ ppid[prcmng[s]] = d
           /\ s \in overlap \/ path[s] = prcmng[s])

\* A server that stays has its workers in the end, except where the very first
\* fork of one failed: that entry is never filled.
CrewComplete ==
  <>[](\A p \in Proc : pc[p] = "loop" =>
         \A i \in Crew : tps[p][i] = NoProc \/ pc[tps[p][i]] = "work")

\* When a daemon is gone, its servers and their workers end.
OrphansEnd ==
  <>[](\A p \in Proc : ~(Live(p) /\ ppid[p] = NoProc /\ srv[p] # 0))
=============================================================================
