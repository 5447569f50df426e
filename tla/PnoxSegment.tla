----------------------------- MODULE PnoxSegment -----------------------------
(***************************************************************************)
(* The shared segment pxmon and the daemon that owns it.  pnoxd takes a    *)
(* lock, binds its command socket PXIPC, and makes the segment or takes    *)
(* over the one it finds; its servers and every program of the library     *)
(* attach the segment that the key leads to when they first need it and    *)
(* keep that one.  Whoever finds a segment of another size than that of    *)
(* its own struct pxmon removes it.  pnoxd removes the segment when it is  *)
(* told to end: by pxinit -k, or by a signal, for which a handler is set   *)
(* before the lock is taken, and which a child has until its execl.  A     *)
(* removed segment lives on for those who have it attached.                *)
(***************************************************************************)
EXTENDS Integers

CONSTANTS
  MaxStart,    \* bound: how often pnoxd is started
  Kid,         \* process ids of servers: one resident server per daemon
  Prog,        \* programs of the library that pnoxd did not start
  MaxFault,    \* bound: kills, signals, and installations of programs with
               \* another size of struct pxmon
  NoProc

Daemon == 1 .. MaxStart     \* processes of pnoxd, in the order of their start

ASSUME SegmentAssumption ==
  /\ NoProc \notin Daemon \union Kid \union Prog
  /\ Daemon \intersect (Kid \union Prog) = {} /\ Kid \intersect Prog = {}
  /\ {MaxStart, MaxFault} \subseteq Nat

\* Only pnoxd makes segments, each daemon one at most.
Seg == 1 .. MaxStart
NoSeg == 0
Size == 0 .. MaxFault
User == Daemon \union Kid \union Prog
Unset == "unset"     \* a segment that pxmon_init has not filled in

VARIABLES
  dpc,      \* where each daemon is
  lock,     \* the daemon that has the lock on pnoxd.pid
  ipc,      \* the daemon PXIPC leads to
  told,     \* daemons with a command to end on their socket
  key,      \* the segment the key leads to
  made,     \* segments made so far
  size,     \* the size of each
  table,    \* pxmon->prcmng[].pid in each
  att,      \* the segment each process has attached
  ver,      \* the size of struct pxmon that each daemon was built with
  disk,     \* that of the installed programs
  kpc,      \* where each server is
  dad,      \* the daemon that forked it
  faults,
  stray,    \* history: somebody else removed a segment of a living daemon
  late      \* history: servers that attached after their daemon had ended

dmVars == <<dpc, lock, ipc, told>>
segVars == <<key, made, size, table>>
kidVars == <<kpc, dad>>
vars == <<dmVars, segVars, att, ver, disk, kidVars, faults, stray, late>>

-----------------------------------------------------------------------------
Ended == {"none", "quit", "refused", "killed"}
Lives(d) == dpc[d] \notin Ended
Holds(d) == Lives(d) /\ att[d] # NoSeg     \* after _open_pxmon
Ruling(d) == dpc[d] = "run"
Orphan(k) == kpc[k] \in {"forked", "up"} /\ ~Lives(dad[k])

Fault == faults < MaxFault /\ faults' = faults + 1

Init ==
  /\ dpc = [d \in Daemon |-> "none"]
  /\ lock = NoProc
  /\ ipc = NoProc
  /\ told = {}
  /\ key = NoSeg
  /\ made = 0
  /\ size = [s \in Seg |-> 0]
  /\ table = [s \in Seg |-> Unset]
  /\ att = [p \in User |-> NoSeg]
  /\ ver = [d \in Daemon |-> 0]
  /\ disk = 0
  /\ kpc = [k \in Kid |-> "none"]
  /\ dad = [k \in Kid |-> NoProc]
  /\ faults = 0
  /\ stray = FALSE
  /\ late = {}

-----------------------------------------------------------------------------
(* _open_pxmon and _close_pxmon.                                           *)

Fits(n) == key # NoSeg /\ size[key] = n

\* Found, and of the right size.
Attaches(p, n) ==
  /\ Fits(n)
  /\ att' = [att EXCEPT ![p] = key]
  /\ UNCHANGED <<segVars, stray>>

\* shmctl(IPC_RMID) of what the key leads to: those who have it keep it.
Removes(p) ==
  /\ key' = NoSeg
  /\ stray' = (stray \/ \E d \in Daemon \ {p} : Holds(d) /\ att[d] = key)

\* Without IPC_CREAT: none is there, or a wrong one, which is gone then.
FindsNone(p) ==
  /\ ~Fits(disk)
  /\ Removes(p)
  /\ UNCHANGED <<made, size, table>>

\* With IPC_CREAT.
Makes(d) ==
  /\ ~Fits(ver[d])
  /\ made' = made + 1
  /\ key' = made'
  /\ size' = [size EXCEPT ![made'] = ver[d]]
  /\ att' = [att EXCEPT ![d] = made']
  /\ stray' = (stray \/ \E e \in Daemon \ {d} : Holds(e) /\ att[e] = key)
  /\ UNCHANGED table

\* Wrong variant: a server makes the segment when there is none.
MakesToo(k) ==
  /\ ~Fits(disk) /\ made < MaxStart
  /\ made' = made + 1
  /\ key' = made'
  /\ size' = [size EXCEPT ![made'] = disk]
  /\ att' = [att EXCEPT ![k] = made']
  /\ UNCHANGED <<table, stray>>

-----------------------------------------------------------------------------
(* pnoxd.                                                                  *)

\* It has put itself in the background, with its handlers set.
DaemonStarts(d) ==
  /\ dpc[d] = "none" /\ \A e \in Daemon : e < d => dpc[e] # "none"
  /\ dpc' = [dpc EXCEPT ![d] = "lock"]
  /\ ver' = [ver EXCEPT ![d] = disk]
  /\ UNCHANGED <<lock, ipc, told, segVars, att, disk, kidVars, faults, stray,
                 late>>

\* Wrong variant: the command socket is bound before the lock is taken.
DaemonBindsFirst(d) ==
  /\ dpc[d] = "lock"
  /\ ipc' = d
  /\ IF lock = NoProc
     THEN lock' = d /\ dpc' = [dpc EXCEPT ![d] = "sock"]
     ELSE UNCHANGED lock /\ dpc' = [dpc EXCEPT ![d] = "refused"]
  /\ UNCHANGED <<told, segVars, att, ver, disk, kidVars, faults, stray, late>>

\* already_running.
DaemonLocks(d) ==
  /\ dpc[d] = "lock"
  /\ IF lock = NoProc
     THEN lock' = d /\ dpc' = [dpc EXCEPT ![d] = "sock"]
     ELSE UNCHANGED lock /\ dpc' = [dpc EXCEPT ![d] = "refused"]
  /\ UNCHANGED <<ipc, told, segVars, att, ver, disk, kidVars, faults, stray,
                 late>>

\* pnox_sock_init removes the name PXIPC, whoever has it, and binds it; then main
\* opens the segment.
DaemonOpens(d) ==
  /\ dpc[d] = "sock"
  /\ ipc' = d
  /\ dpc' = [dpc EXCEPT ![d] = "init"]
  /\ UNCHANGED <<lock, told, ver, disk, kidVars, faults, late>>
  /\ Attaches(d, ver[d]) \/ Makes(d)

\* pxmon_init clears the process table, and do_exec_proc forks the server: a
\* child with the daemon's handlers and its segment.
Forks(d, k) ==
  /\ kpc[k] = "none"
  /\ kpc' = [kpc EXCEPT ![k] = "forked"]
  /\ dad' = [dad EXCEPT ![k] = d]
  /\ att' = [att EXCEPT ![k] = att[d]]
  /\ table' = [table EXCEPT ![att[d]] = k]
  /\ late' = late \ {k}
  /\ UNCHANGED <<lock, ipc, told, key, made, size, ver, disk, faults, stray>>

DaemonInits(d, k) ==
  /\ dpc[d] = "init"
  /\ dpc' = [dpc EXCEPT ![d] = "run"]
  /\ Forks(d, k)

\* check_proc: waitpid on the id in the table tells of an ended child once, and
\* fails from then on.
Entry(d) == table[att[d]]
IsChild(d, k) == k \in Kid /\ dad[k] = d /\ kpc[k] # "none"

DaemonReaps(d) ==
  /\ Ruling(d) /\ IsChild(d, Entry(d)) /\ kpc[Entry(d)] = "zombie"
  /\ kpc' = [kpc EXCEPT ![Entry(d)] = "none"]
  /\ dad' = [dad EXCEPT ![Entry(d)] = NoProc]
  /\ UNCHANGED <<dmVars, segVars, att, ver, disk, faults, stray, late>>

DaemonRestarts(d, k) ==
  /\ Ruling(d) /\ ~IsChild(d, Entry(d))
  /\ Forks(d, k)
  /\ UNCHANGED dpc

\* The process of a daemon is over: the lock is free, its zombies are gone.
DaemonOver(d, how) ==
  /\ dpc' = [dpc EXCEPT ![d] = how]
  /\ lock' = IF lock = d THEN NoProc ELSE lock
  /\ told' = told \ {d}
  /\ LET zombies == {k \in Kid : dad[k] = d /\ kpc[k] = "zombie"}
     IN  /\ kpc' = [k \in Kid |-> IF k \in zombies THEN "none" ELSE kpc[k]]
         /\ dad' = [k \in Kid |-> IF k \in zombies THEN NoProc ELSE dad[k]]
  /\ att' = [att EXCEPT ![d] = NoSeg]
  /\ UNCHANGED <<ipc, made, size, table, ver, disk, late>>

\* pnox_event returns -1 for a 'k': _close_pxmon(IPC_RMID).
DaemonQuits(d) ==
  /\ Ruling(d) /\ d \in told
  /\ DaemonOver(d, "quit")
  /\ Removes(d)
  /\ UNCHANGED faults

\* sig_daemon does the same, wherever the daemon is.
DaemonTermed(d) ==
  /\ Lives(d)
  /\ Fault
  /\ DaemonOver(d, "quit")
  /\ Removes(d)

\* SIGKILL (whose handler is never called), a signal without a handler, or
\* exit(1) where fork fails: the segment stays.
DaemonKilled(d) ==
  /\ Lives(d)
  /\ Fault
  /\ DaemonOver(d, "killed")
  /\ UNCHANGED <<key, stray>>

-----------------------------------------------------------------------------
(* A server, such as pnoxsgw or pnoxrtc.                                   *)

\* A server ends, and is a zombie if its daemon lives.
KidOver(k) ==
  /\ IF Lives(dad[k])
     THEN kpc' = [kpc EXCEPT ![k] = "zombie"] /\ UNCHANGED dad
     ELSE kpc' = [kpc EXCEPT ![k] = "none"] /\ dad' = [dad EXCEPT ![k] = NoProc]
  /\ att' = [att EXCEPT ![k] = NoSeg]
  /\ late' = late \ {k}
  /\ UNCHANGED <<dmVars, ver, disk>>

\* Wrong variant: see MakesToo.
KidOpensOrMakes(k) ==
  /\ kpc[k] = "forked"
  /\ Attaches(k, disk) \/ MakesToo(k)
  /\ kpc' = [kpc EXCEPT ![k] = "up"]
  /\ late' = IF Lives(dad[k]) THEN late ELSE late \union {k}
  /\ UNCHANGED <<dmVars, dad, ver, disk, faults>>

\* execl detaches what the child had from the daemon; the program attaches what
\* the key leads to by now ...
KidOpens(k) ==
  /\ kpc[k] = "forked"
  /\ Attaches(k, disk)
  /\ kpc' = [kpc EXCEPT ![k] = "up"]
  /\ late' = IF Lives(dad[k]) THEN late ELSE late \union {k}
  /\ UNCHANGED <<dmVars, dad, ver, disk, faults>>

\* ... or ends when there is none for it.
KidFindsNone(k) ==
  /\ kpc[k] = "forked"
  /\ FindsNone(k)
  /\ KidOver(k)
  /\ UNCHANGED faults

\* A SIGTERM before the execl finds the handler of the daemon.
KidTermed(k) ==
  /\ kpc[k] = "forked"
  /\ Fault
  /\ Removes(k)
  /\ KidOver(k)
  /\ UNCHANGED <<made, size, table>>

\* Wrong variant: a server leaves like a daemon.
KidLeavesRemoves(k) ==
  /\ kpc[k] = "up" /\ Orphan(k)
  /\ key' = NoSeg
  /\ KidOver(k)
  /\ UNCHANGED <<made, size, table, faults, stray>>

\* Wrong variant: the server does not look whether its parent is there.
KidStays(k) == kpc[k] = "up" /\ Orphan(k) /\ UNCHANGED vars

\* Its daemon is gone: _close_pxmon(-1), and the end.
KidLeaves(k) ==
  /\ kpc[k] = "up" /\ Orphan(k)
  /\ KidOver(k)
  /\ UNCHANGED <<segVars, faults, stray>>

\* Killed, or ended by a signal after its execl, or the execl has failed.
KidKilled(k) ==
  /\ kpc[k] \in {"forked", "up"}
  /\ Fault
  /\ KidOver(k)
  /\ UNCHANGED <<segVars, stray>>

-----------------------------------------------------------------------------
(* Programs of the library: tools, and callers of services, which pxrout    *)
(* leaves with the segment attached.                                       *)

ProgOpens(g) ==
  /\ att[g] = NoSeg
  /\ Attaches(g, disk) \/ (FindsNone(g) /\ UNCHANGED att)
  /\ UNCHANGED <<dmVars, ver, disk, kidVars, faults, late>>

ProgEnds(g) ==
  /\ att[g] # NoSeg
  /\ att' = [att EXCEPT ![g] = NoSeg]
  /\ UNCHANGED <<dmVars, segVars, ver, disk, kidVars, faults, stray, late>>

\* homedir_pxmon: pxmon_init has filled in where the system is installed.
HomeKnown(g) == att[g] # NoSeg /\ table[att[g]] # Unset

\* pxsvrsnd to PXIPC fails if nobody has that socket open.
Listens(d) == ipc = d /\ Lives(d)

\* pxinit -k.
PxinitAsks(g) ==
  /\ HomeKnown(g)
  /\ \E d \in Daemon : Listens(d) /\ told' = told \union {d}
  /\ UNCHANGED <<dpc, lock, ipc, segVars, att, ver, disk, kidVars, faults, stray,
                 late>>

\* Other programs are installed, under the running ones.
Upgrade ==
  /\ Fault
  /\ disk' = disk + 1
  /\ UNCHANGED <<dmVars, segVars, att, ver, kidVars, stray, late>>

-----------------------------------------------------------------------------
DaemonRun(d) ==
  \/ DaemonLocks(d) \/ DaemonOpens(d) \/ DaemonReaps(d)
  \/ DaemonQuits(d)
  \/ \E k \in Kid : DaemonInits(d, k) \/ DaemonRestarts(d, k)

KidRun(k) == KidOpens(k) \/ KidFindsNone(k) \/ KidLeaves(k)

Next ==
  \/ \E d \in Daemon :
       DaemonRun(d) \/ DaemonStarts(d) \/ DaemonTermed(d) \/ DaemonKilled(d)
  \/ \E k \in Kid : KidRun(k) \/ KidTermed(k) \/ KidKilled(k)
  \/ \E g \in Prog : ProgOpens(g) \/ ProgEnds(g) \/ PxinitAsks(g)
  \/ Upgrade

Spec == Init /\ [][Next]_vars

\* Daemons and servers that can run do run.
FairSpec ==
  /\ Spec
  /\ \A d \in Daemon : WF_vars(DaemonRun(d))
  /\ \A k \in Kid : WF_vars(KidRun(k))

-----------------------------------------------------------------------------
(* Properties.                                                             *)

\* Every variable has its type, and no more segments are made than daemons
\* can make.
TypeOK ==
  /\ dpc \in [Daemon -> Ended \union {"lock", "sock", "init", "run"}]
  /\ {lock, ipc} \subseteq Daemon \union {NoProc}
  /\ told \subseteq Daemon
  /\ key \in 0 .. made /\ made \in 0 .. MaxStart
  /\ size \in [Seg -> Size]
  /\ table \in [Seg -> Kid \union {Unset}]
  /\ att \in [User -> 0 .. made]
  /\ ver \in [Daemon -> Size] /\ disk \in Size
  /\ kpc \in [Kid -> {"none", "forked", "up", "zombie"}]
  /\ dad \in [Kid -> Daemon \union {NoProc}]
  /\ faults \in 0 .. MaxFault
  /\ stray \in BOOLEAN
  /\ late \subseteq Kid

\* A daemon that rules gets the commands, and the process table it works on is
\* its own: a second pnoxd started beside it takes neither, and what the server
\* in the table was forked by is this daemon.
OneRuler ==
  \A d \in Daemon : Ruling(d) =>
    /\ lock = d /\ ipc = d
    /\ Entry(d) \in Kid /\ dad[Entry(d)] \in {d, NoProc}

\* The key leads to the segment of the daemon that lives, for whoever comes next,
\* unless a stray process removed it: a pnoxd or a child of it that was signalled
\* before the lock, or before its execl, or a program of another size.
KeyLeadsToRuler ==
  \A d \in Daemon : Holds(d) => key = att[d] \/ stray

\* A daemon's servers use the same segment as the daemon; with them a server of an
\* earlier daemon only if that one was killed, or if the server was just about to
\* start when it ended: one that is told to end leaves nothing to its successor.
SegmentPerGeneration ==
  \A d \in Daemon, k \in Kid : Ruling(d) /\ kpc[k] = "up" =>
    IF dad[k] = d THEN att[k] = att[d]
    ELSE att[k] = att[d] => dpc[dad[k]] = "killed" \/ k \in late

\* In the end no server uses a segment that the key does not lead to, but those of
\* a daemon that has itself lost it: removed segments do not pile up.
SegmentsFreed ==
  <>[](\A k \in Kid : kpc[k] = "up" => Lives(dad[k]) /\ (att[k] = key \/ stray))
=============================================================================
