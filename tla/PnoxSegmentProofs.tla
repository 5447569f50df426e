------------------------- MODULE PnoxSegmentProofs -------------------------
(***************************************************************************)
(* Theorems about PnoxSegment, for every number of starts of pnoxd, of     *)
(* servers, of programs and of faults.                                     *)
(***************************************************************************)
EXTENDS PnoxSegment, FiniteSetTheorems, TLAPS

\* Daemons that may have made a segment.
Past == {d \in Daemon : dpc[d] \notin {"none", "lock", "sock"}}

MadeInv == made <= Cardinality(Past)

\* The daemon that has passed the lock is the one that holds it, and a daemon
\* has a segment from the time it has its socket.
DaemonInv ==
  \A d \in Daemon :
    /\ dpc[d] \in {"sock", "init", "run"} => lock = d
    /\ dpc[d] \in {"init", "run"} => ipc = d
    /\ att[d] # NoSeg <=> dpc[d] \in {"init", "run"}

\* While a daemon holds a segment no other one is made.
KeyInv ==
  \A d \in Daemon : Holds(d) => key \in {att[d], NoSeg} /\ (key = att[d] \/ stray)

TableInv ==
  \A d \in Daemon : Ruling(d) =>
    Entry(d) \in Kid /\ dad[Entry(d)] \in {d, NoProc}

KidInv ==
  \A k \in Kid :
    /\ kpc[k] # "none" => dad[k] \in Daemon /\ dpc[dad[k]] \in {"run", "quit", "killed"}
    /\ kpc[k] = "up" => att[k] # NoSeg

\* Why a server may still use the segment of an earlier daemon.
Excused(k) == dpc[dad[k]] = "killed" \/ k \in late

ShareOf(k) ==
  /\ Ruling(dad[k]) => att[k] = att[dad[k]]
  /\ ~Lives(dad[k]) /\ att[k] = key => Excused(k)
  /\ \A d \in Daemon : Holds(d) /\ dad[k] # d /\ att[k] = att[d] => Excused(k)

ShareInv == \A k \in Kid : kpc[k] = "up" => ShareOf(k)

-----------------------------------------------------------------------------
(* Types, and the number of segments made.                                 *)

LEMMA PastFinite == /\ IsFiniteSet(Past) /\ Cardinality(Past) \in 0 .. MaxStart
                    /\ IsFiniteSet(Past') /\ Cardinality(Past') \in 0 .. MaxStart
<1>1. MaxStart \in Nat
  BY SegmentAssumption
<1>2. IsFiniteSet(Daemon) /\ Cardinality(Daemon) = MaxStart
  BY <1>1, FS_Interval DEF Daemon
<1>3. Past \subseteq Daemon /\ Past' \subseteq Daemon
  BY DEF Past
<1>4. /\ IsFiniteSet(Past) /\ Cardinality(Past) <= MaxStart
      /\ IsFiniteSet(Past') /\ Cardinality(Past') <= MaxStart
  BY <1>2, <1>3, FS_Subset
<1>5. Cardinality(Past) \in Nat /\ Cardinality(Past') \in Nat
  BY <1>4, FS_CardinalityType
<1> QED
  BY <1>1, <1>4, <1>5

\* No segment is made, and no daemon goes back.
LEMMA NoneMade ==
  ASSUME TypeOK, MadeInv, Past \subseteq Past', made' = made
  PROVE  MadeInv'
<1>1. Cardinality(Past) <= Cardinality(Past')
  BY PastFinite, FS_Subset
<1> QED
  BY <1>1, PastFinite DEF MadeInv, TypeOK

LEMMA OneMade ==
  ASSUME TypeOK, MadeInv, NEW d \in Daemon, dpc[d] = "sock",
         dpc' = [dpc EXCEPT ![d] = "init"], made' = made + 1
  PROVE  MadeInv' /\ made' \in 0 .. MaxStart /\ made' \in Seg
<1>1. Past' = Past \union {d} /\ d \notin Past
  BY DEF Past, TypeOK
<1>2. Cardinality(Past') = Cardinality(Past) + 1
  BY <1>1, PastFinite, FS_AddElement
<1>3. made \in Nat /\ made <= Cardinality(Past)
  BY DEF MadeInv, TypeOK
<1> QED
  BY <1>2, <1>3, PastFinite, SegmentAssumption DEF MadeInv, Seg

\* Each installation of other programs was one of the faults.
TypeInv == TypeOK /\ MadeInv /\ disk <= faults

Inv ==
  TypeInv /\ DaemonInv /\ KeyInv /\ TableInv /\ KidInv /\ ShareInv

LEMMA InitType == Init => TypeInv
<1> SUFFICES ASSUME Init PROVE TypeInv
  OBVIOUS
<1>1. made = 0 /\ key = 0 /\ faults = 0 /\ disk = 0 /\ 0 \in Size
  BY SegmentAssumption DEF Init, Size, NoSeg
<1>2. /\ dpc \in [Daemon -> Ended \union {"lock", "sock", "init", "run"}]
      /\ lock = NoProc /\ ipc = NoProc /\ told = {} /\ late = {}
      /\ stray \in BOOLEAN
  BY DEF Init, Ended
<1>3. /\ size \in [Seg -> Size] /\ ver \in [Daemon -> Size]
      /\ table \in [Seg -> Kid \union {Unset}]
      /\ kpc \in [Kid -> {"none", "forked", "up", "zombie"}]
      /\ dad \in [Kid -> Daemon \union {NoProc}]
  BY <1>1 DEF Init
<1>4. att \in [User -> 0 .. 0]
  BY DEF Init, NoSeg
<1>5. TypeOK
  BY <1>1, <1>2, <1>3, <1>4, SegmentAssumption DEF TypeOK
<1>6. MadeInv
  BY <1>1, PastFinite DEF MadeInv
<1> QED
  BY <1>1, <1>5, <1>6 DEF TypeInv

LEMMA DaemonType ==
  ASSUME TypeInv, NEW d \in Daemon,
         \/ DaemonRun(d) \/ DaemonStarts(d) \/ DaemonTermed(d) \/ DaemonKilled(d)
  PROVE  TypeInv'
<1> USE DEF TypeInv
<1>0. SUFFICES TypeOK' /\ MadeInv'
  BY DEF DaemonRun, DaemonStarts, DaemonLocks, DaemonOpens, DaemonInits, DaemonReaps,
         DaemonRestarts, DaemonQuits, DaemonTermed, DaemonKilled, DaemonOver, Forks,
         Fault, TypeOK, Size
<1>1. CASE DaemonStarts(d)
  <2>1. TypeOK'
    BY <1>1 DEF DaemonStarts, TypeOK, segVars, kidVars
  <2>2. Past \subseteq Past' /\ made' = made
    BY <1>1 DEF DaemonStarts, TypeOK, segVars, Past
  <2> QED
    BY <2>1, <2>2, NoneMade
<1>2. CASE DaemonLocks(d)
  <2>1. TypeOK'
    BY <1>2 DEF DaemonLocks, TypeOK, segVars, kidVars, Ended
  <2>2. Past \subseteq Past' /\ made' = made
    BY <1>2 DEF DaemonLocks, TypeOK, segVars, Past
  <2> QED
    BY <2>1, <2>2, NoneMade
<1>3. CASE DaemonOpens(d)
  <2>1. CASE Attaches(d, ver[d])
    <3>1. TypeOK'
      BY <1>3, <2>1 DEF DaemonOpens, Attaches, Fits, TypeOK, segVars, kidVars, User
    <3>2. Past \subseteq Past' /\ made' = made
      BY <1>3, <2>1 DEF DaemonOpens, Attaches, TypeOK, segVars, Past
    <3> QED
      BY <3>1, <3>2, NoneMade
  <2>2. CASE Makes(d)
    <3>1. MadeInv' /\ made' \in 0 .. MaxStart /\ made' \in Seg
      BY <1>3, <2>2, OneMade DEF DaemonOpens, Makes
    <3>2. /\ key' \in 0 .. made'
          /\ att' \in [User -> 0 .. made']
      BY <1>3, <2>2, <3>1 DEF Makes, TypeOK, User
    <3>3. size' \in [Seg -> Size]
      BY <1>3, <2>2, <3>1 DEF Makes, TypeOK
    <3>4. stray' \in BOOLEAN
      BY <2>2 DEF Makes, TypeOK
    <3>5. TypeOK'
      BY <1>3, <2>2, <3>1, <3>2, <3>3, <3>4 DEF DaemonOpens, Makes, TypeOK, kidVars
    <3> QED
      BY <3>1, <3>5
  <2> QED
    BY <1>3, <2>1, <2>2 DEF DaemonOpens
<1>4. CASE \E k \in Kid : DaemonInits(d, k) \/ DaemonRestarts(d, k)
  <2>1. PICK k \in Kid : DaemonInits(d, k) \/ DaemonRestarts(d, k)
    BY <1>4
  <2>2. Forks(d, k)
    BY <2>1 DEF DaemonInits, DaemonRestarts
  <2>3. dpc' \in [Daemon -> Ended \union {"lock", "sock", "init", "run"}]
    BY <2>1 DEF DaemonInits, DaemonRestarts, TypeOK
  <2>4. /\ kpc' \in [Kid -> {"none", "forked", "up", "zombie"}]
        /\ dad' \in [Kid -> Daemon \union {NoProc}]
        /\ att' \in [User -> 0 .. made]
        /\ table' \in [Seg -> Kid \union {Unset}]
        /\ late' \subseteq Kid
    BY <2>2 DEF Forks, TypeOK, User
  <2>5. TypeOK'
    BY <2>2, <2>3, <2>4 DEF Forks, TypeOK
  <2>6. Past \subseteq Past' /\ made' = made
    BY <2>1 DEF DaemonInits, DaemonRestarts, Forks, TypeOK, Past
  <2> QED
    BY <2>5, <2>6, NoneMade
<1>5. CASE DaemonReaps(d)
  <2>1. TypeOK'
    BY <1>5 DEF DaemonReaps, TypeOK, dmVars, segVars
  <2>2. Past' = Past /\ made' = made
    BY <1>5 DEF DaemonReaps, dmVars, segVars, Past
  <2> QED
    BY <2>1, <2>2, NoneMade
<1>6. ASSUME NEW how \in {"quit", "killed"}, DaemonOver(d, how), key' \in {key, NoSeg},
             stray' \in BOOLEAN, faults' \in 0 .. MaxFault
      PROVE  TypeOK' /\ MadeInv'
  <2>1. /\ dpc' \in [Daemon -> Ended \union {"lock", "sock", "init", "run"}]
        /\ lock' \in Daemon \union {NoProc} /\ told' \subseteq Daemon
        /\ att' \in [User -> 0 .. made]
    BY <1>6 DEF DaemonOver, TypeOK, Ended, User, NoSeg
  <2>2. /\ kpc' \in [Kid -> {"none", "forked", "up", "zombie"}]
        /\ dad' \in [Kid -> Daemon \union {NoProc}]
    BY <1>6 DEF DaemonOver, TypeOK
  <2>3. TypeOK'
    BY <1>6, <2>1, <2>2 DEF DaemonOver, TypeOK, NoSeg
  <2>4. Past \subseteq Past' /\ made' = made
    BY <1>6 DEF DaemonOver, TypeOK, Past
  <2> QED
    BY <2>3, <2>4, NoneMade
<1>7. CASE DaemonQuits(d)
  BY <1>6, <1>7 DEF DaemonQuits, Removes, TypeOK
<1>8. CASE DaemonTermed(d)
  BY <1>6, <1>8, SegmentAssumption DEF DaemonTermed, Removes, Fault, TypeOK
<1>9. CASE DaemonKilled(d)
  BY <1>6, <1>9, SegmentAssumption DEF DaemonKilled, Fault, TypeOK
<1> QED
  BY <1>1, <1>2, <1>3, <1>4, <1>5, <1>7, <1>8, <1>9 DEF DaemonRun

LEMMA RestType ==
  ASSUME TypeInv,
         \/ \E k \in Kid : KidRun(k) \/ KidTermed(k) \/ KidKilled(k)
         \/ \E g \in Prog : ProgOpens(g) \/ ProgEnds(g) \/ PxinitAsks(g)
         \/ Upgrade
  PROVE  TypeInv'
<1> USE DEF TypeInv
<1>1. Past' = Past /\ made' = made
  BY DEF KidRun, KidOpens, KidFindsNone, KidLeaves, KidTermed, KidKilled, KidOver,
         Attaches, FindsNone, ProgOpens, ProgEnds, PxinitAsks, Upgrade, Past, dmVars,
         segVars
<1>2. MadeInv'
  BY <1>1, NoneMade
<1>13. disk' <= faults' /\ disk' <= MaxFault
  BY SegmentAssumption
     DEF KidRun, KidOpens, KidFindsNone, KidLeaves, KidTermed, KidKilled, KidOver,
         Fault, ProgOpens, ProgEnds, PxinitAsks, Upgrade, TypeOK, Size
<1>3. ASSUME NEW k \in Kid, KidOver(k) PROVE
        /\ kpc' \in [Kid -> {"none", "forked", "up", "zombie"}]
        /\ dad' \in [Kid -> Daemon \union {NoProc}]
        /\ att' \in [User -> 0 .. made]
        /\ late' \subseteq Kid
        /\ UNCHANGED <<dpc, lock, ipc, told, ver, disk>>
  BY <1>3 DEF KidOver, TypeOK, dmVars, User, NoSeg
<1>4. ASSUME NEW k \in Kid, KidOpens(k) PROVE TypeOK'
  BY <1>4 DEF KidOpens, Attaches, TypeOK, dmVars, segVars, User
<1>5. ASSUME NEW k \in Kid, KidFindsNone(k) PROVE TypeOK'
  BY <1>3, <1>5 DEF KidFindsNone, FindsNone, Removes, TypeOK, NoSeg
<1>6. ASSUME NEW k \in Kid, KidLeaves(k) PROVE TypeOK'
  BY <1>3, <1>6 DEF KidLeaves, TypeOK, segVars
<1>7. ASSUME NEW k \in Kid, KidTermed(k) PROVE TypeOK'
  BY <1>3, <1>7, SegmentAssumption DEF KidTermed, Fault, Removes, TypeOK, NoSeg
<1>8. ASSUME NEW k \in Kid, KidKilled(k) PROVE TypeOK'
  BY <1>3, <1>8, SegmentAssumption DEF KidKilled, Fault, TypeOK, segVars
<1>9. ASSUME NEW g \in Prog, ProgOpens(g) PROVE TypeOK'
  <2>1. CASE Attaches(g, disk)
    BY <1>9, <2>1 DEF ProgOpens, Attaches, TypeOK, dmVars, segVars, kidVars, User
  <2>2. CASE FindsNone(g) /\ UNCHANGED att
    <3>1. key' = NoSeg /\ stray' \in BOOLEAN
      BY <2>2 DEF FindsNone, Removes, TypeOK
    <3> QED
      BY <1>9, <2>2, <3>1 DEF ProgOpens, FindsNone, TypeOK, dmVars, kidVars, NoSeg
  <2> QED
    BY <1>9, <2>1, <2>2 DEF ProgOpens
<1>10. ASSUME NEW g \in Prog, ProgEnds(g) PROVE TypeOK'
  BY <1>10 DEF ProgEnds, TypeOK, dmVars, segVars, kidVars, User, NoSeg
<1>11. ASSUME NEW g \in Prog, PxinitAsks(g) PROVE TypeOK'
  BY <1>11 DEF PxinitAsks, TypeOK, segVars, kidVars
<1>12. ASSUME Upgrade PROVE TypeOK'
  <2>1. disk' \in Size /\ faults' \in 0 .. MaxFault
    BY <1>12, <1>13, SegmentAssumption DEF Upgrade, Fault, TypeOK, Size
  <2> QED
    BY <1>12, <2>1 DEF Upgrade, TypeOK, dmVars, segVars, kidVars
<1> QED
  BY <1>2, <1>4, <1>5, <1>6, <1>7, <1>8, <1>9, <1>10, <1>11, <1>12, <1>13 DEF KidRun

LEMMA NextType == TypeInv /\ [Next]_vars => TypeInv'
<1> SUFFICES ASSUME TypeInv, [Next]_vars PROVE TypeInv'
  OBVIOUS
<1>1. CASE UNCHANGED vars
  BY <1>1 DEF TypeInv, TypeOK, MadeInv, Past, vars, dmVars, segVars, kidVars
<1>2. CASE Next
  BY <1>2, DaemonType, RestType DEF Next
<1> QED
  BY <1>1, <1>2

\* Every variable has its type in every reachable state; above all, no more
\* segments are made than pnoxd was started.
THEOREM SegmentTyping == Spec => []TypeOK
<1>1. Spec => []TypeInv
  BY InitType, NextType, PTL DEF Spec
<1>2. TypeInv => TypeOK
  BY DEF TypeInv
<1> QED
  BY <1>1, <1>2, PTL

-----------------------------------------------------------------------------
(* One daemon.                                                             *)

LEMMA InitOne == Init => DaemonInv /\ TableInv
BY DEF Init, DaemonInv, TableInv, Ruling, User

\* What a daemon's end leaves of the others.
LEMMA OverOne ==
  ASSUME TypeInv, TypeInv', DaemonInv, TableInv, NEW d \in Daemon,
         NEW how \in {"quit", "killed"}, DaemonOver(d, how)
  PROVE  DaemonInv' /\ TableInv'
<1> USE DEF TypeInv, TypeOK
<1>1. dpc' = [dpc EXCEPT ![d] = how] /\ ipc' = ipc /\ table' = table
  BY DEF DaemonOver
<1>2. att' = [att EXCEPT ![d] = NoSeg]
  BY DEF DaemonOver
<1>3. \A e \in Daemon : e # d => (lock = e => lock' = e)
  BY DEF DaemonOver
<1>4. DaemonInv'
  BY <1>1, <1>2, <1>3 DEF DaemonInv, User
<1>5. ASSUME NEW e \in Daemon, Ruling(e)' PROVE Entry(e)' \in Kid /\ dad'[Entry(e)'] \in {e, NoProc}
  <2>1. Ruling(e) /\ e # d /\ Entry(e)' = Entry(e)
    BY <1>1, <1>2, <1>5 DEF Ruling, Entry, User
  <2>2. Entry(e) \in Kid /\ dad[Entry(e)] \in {e, NoProc}
    BY <2>1 DEF TableInv
  <2>3. dad'[Entry(e)] \in {dad[Entry(e)], NoProc}
    BY <2>2 DEF DaemonOver
  <2> QED
    BY <2>1, <2>2, <2>3
<1> QED
  BY <1>4, <1>5 DEF TableInv

\* A step that leaves the daemons and their tables alone; servers may end.
LEMMA KeepsOne ==
  ASSUME TypeInv, DaemonInv, TableInv, UNCHANGED <<dmVars, table>>,
         \A d \in Daemon : att'[d] = att[d],
         \A k \in Kid : dad'[k] \in {dad[k], NoProc}
  PROVE  DaemonInv' /\ TableInv'
<1>1. DaemonInv'
  BY DEF DaemonInv, dmVars
<1>2. TableInv'
  BY DEF TableInv, Ruling, Entry, dmVars
<1> QED
  BY <1>1, <1>2

LEMMA ForksOne ==
  ASSUME TypeInv, TypeInv', DaemonInv, TableInv, NEW d \in Daemon, NEW k \in Kid,
         Forks(d, k), dpc[d] \in {"init", "run"}, dpc' = [dpc EXCEPT ![d] = "run"]
  PROVE  DaemonInv' /\ TableInv'
<1> USE DEF TypeInv, TypeOK
<1>1. \A e \in Daemon : att'[e] = att[e]
  BY SegmentAssumption DEF Forks, User
<1>2. lock' = lock /\ ipc' = ipc
  BY DEF Forks
<1>3. DaemonInv'
  BY <1>1, <1>2 DEF DaemonInv
<1>4. \A e \in Daemon : Ruling(e)' => e = d
  BY DEF DaemonInv, Ruling
<1>5. att[d] \in Seg
  <2>1. att[d] \in 0 .. made /\ att[d] # NoSeg
    BY DEF DaemonInv, User
  <2> QED
    BY <2>1, SegmentAssumption DEF Seg, NoSeg
<1>6. Entry(d)' = k
  BY <1>1, <1>5 DEF Forks, Entry
<1>7. dad'[k] = d
  BY DEF Forks
<1> QED
  BY <1>3, <1>4, <1>6, <1>7 DEF TableInv

LEMMA DaemonOne ==
  ASSUME TypeInv, TypeInv', DaemonInv, TableInv, NEW d \in Daemon,
         \/ DaemonRun(d) \/ DaemonStarts(d) \/ DaemonTermed(d) \/ DaemonKilled(d)
  PROVE  DaemonInv' /\ TableInv'
<1>1. CASE DaemonStarts(d) \/ DaemonLocks(d)
  <2>1. DaemonInv'
    <3>1. ipc' = ipc /\ att' = att
      BY <1>1 DEF DaemonStarts, DaemonLocks
    <3>2. CASE DaemonStarts(d)
      BY <3>1, <3>2 DEF DaemonStarts, DaemonInv, TypeInv, TypeOK
    <3>3. CASE DaemonLocks(d) /\ lock = NoProc
      <4>1. dpc' = [dpc EXCEPT ![d] = "sock"] /\ lock' = d /\ dpc[d] = "lock"
        BY <3>3 DEF DaemonLocks
      <4>2. \A e \in Daemon : lock # e
        BY <3>3, SegmentAssumption
      <4> QED
        BY <3>1, <4>1, <4>2 DEF DaemonInv, TypeInv, TypeOK
    <3>4. CASE DaemonLocks(d) /\ lock # NoProc
      <4>1. dpc' = [dpc EXCEPT ![d] = "refused"] /\ lock' = lock /\ dpc[d] = "lock"
        BY <3>4 DEF DaemonLocks
      <4> QED
        BY <3>1, <4>1 DEF DaemonInv, TypeInv, TypeOK
    <3> QED
      BY <1>1, <3>2, <3>3, <3>4
  <2>2. \A e \in Daemon : Ruling(e)' => Ruling(e)
    <3>1. /\ dpc'[d] \in {"lock", "sock", "refused"}
          /\ \A e \in Daemon : e # d => dpc'[e] = dpc[e]
      <4>1. CASE DaemonStarts(d)
        BY <4>1 DEF DaemonStarts, TypeInv, TypeOK
      <4>2. CASE DaemonLocks(d)
        BY <4>2 DEF DaemonLocks, TypeInv, TypeOK
      <4> QED
        BY <1>1, <4>1, <4>2
    <3> QED
      BY <3>1 DEF Ruling
  <2>3. UNCHANGED <<table, att, dad>>
    BY <1>1 DEF DaemonStarts, DaemonLocks, segVars, kidVars
  <2>4. TableInv'
    BY <2>2, <2>3 DEF TableInv, Entry
  <2> QED
    BY <2>1, <2>4
<1>2. CASE DaemonOpens(d)
  <2>1. \A e \in Daemon : e # d => dpc[e] \notin {"init", "run"} /\ att[e] = NoSeg
    BY <1>2 DEF DaemonOpens, DaemonInv
  <2>2. att'[d] # NoSeg /\ \A e \in Daemon : e # d => att'[e] = att[e]
    BY <1>2 DEF DaemonOpens, Attaches, Fits, Makes, TypeInv, TypeOK, User, NoSeg
  <2>3. dpc' = [dpc EXCEPT ![d] = "init"] /\ ipc' = d /\ lock' = lock
    BY <1>2 DEF DaemonOpens
  <2>4. lock = d
    BY <1>2 DEF DaemonOpens, DaemonInv
  <2>5. DaemonInv'
    BY <2>1, <2>2, <2>3, <2>4 DEF DaemonInv, TypeInv, TypeOK
  <2>6. \A e \in Daemon : ~Ruling(e)'
    BY <2>1, <2>3 DEF Ruling, TypeInv, TypeOK
  <2> QED
    BY <2>5, <2>6 DEF TableInv
<1>3. CASE \E k \in Kid : DaemonInits(d, k) \/ DaemonRestarts(d, k)
  <2>1. PICK k \in Kid : DaemonInits(d, k) \/ DaemonRestarts(d, k)
    BY <1>3
  <2>2. /\ Forks(d, k) /\ dpc[d] \in {"init", "run"}
        /\ dpc' = [dpc EXCEPT ![d] = "run"]
    BY <2>1 DEF DaemonInits, DaemonRestarts, Ruling, TypeInv, TypeOK
  <2> QED
    BY <2>2, ForksOne
<1>4. CASE DaemonReaps(d)
  BY <1>4, KeepsOne DEF DaemonReaps, TypeInv, TypeOK, segVars
<1>5. CASE DaemonQuits(d)
  BY <1>5, OverOne DEF DaemonQuits
<1>6. CASE DaemonTermed(d)
  BY <1>6, OverOne DEF DaemonTermed
<1>7. CASE DaemonKilled(d)
  BY <1>7, OverOne DEF DaemonKilled
<1> QED
  BY <1>1, <1>2, <1>3, <1>4, <1>5, <1>6, <1>7 DEF DaemonRun

LEMMA KidOverKeeps ==
  ASSUME TypeInv, NEW k \in Kid, KidOver(k)
  PROVE  /\ UNCHANGED dmVars
         /\ \A d \in Daemon : att'[d] = att[d]
         /\ \A j \in Kid : dad'[j] \in {dad[j], NoProc}
BY SegmentAssumption DEF KidOver, TypeInv, TypeOK, User

LEMMA RestOne ==
  ASSUME TypeInv, DaemonInv, TableInv,
         \/ \E k \in Kid : KidRun(k) \/ KidTermed(k) \/ KidKilled(k)
         \/ \E g \in Prog : ProgOpens(g) \/ ProgEnds(g)
         \/ Upgrade
  PROVE  DaemonInv' /\ TableInv'
<1>1. ASSUME NEW k \in Kid, KidOpens(k) PROVE DaemonInv' /\ TableInv'
  <2>1. \A d \in Daemon : att'[d] = att[d]
    BY <1>1, SegmentAssumption DEF KidOpens, Attaches, TypeInv, TypeOK, User
  <2> QED
    BY <1>1, <2>1, KeepsOne DEF KidOpens, Attaches, segVars
<1>2. ASSUME NEW k \in Kid, KidFindsNone(k) \/ KidLeaves(k) \/ KidTermed(k) \/ KidKilled(k)
      PROVE DaemonInv' /\ TableInv'
  <2>1. KidOver(k) /\ table' = table
    BY <1>2 DEF KidFindsNone, FindsNone, KidLeaves, KidTermed, KidKilled, segVars
  <2> QED
    BY <2>1, KidOverKeeps, KeepsOne
<1>3. ASSUME NEW g \in Prog, ProgOpens(g) \/ ProgEnds(g) PROVE DaemonInv' /\ TableInv'
  <2>1. \A d \in Daemon : att'[d] = att[d]
    BY <1>3, SegmentAssumption
    DEF ProgOpens, ProgEnds, Attaches, TypeInv, TypeOK, User
  <2>2. UNCHANGED <<dmVars, table, dad>>
    BY <1>3 DEF ProgOpens, ProgEnds, Attaches, FindsNone, segVars, kidVars
  <2> QED
    BY <2>1, <2>2, KeepsOne
<1>4. CASE Upgrade
  BY <1>4, KeepsOne DEF Upgrade, segVars, kidVars
<1> QED
  BY <1>1, <1>2, <1>3, <1>4 DEF KidRun

LEMMA NextOne ==
  ASSUME TypeInv, TypeInv', DaemonInv, TableInv, [Next]_vars
  PROVE  DaemonInv' /\ TableInv'
<1>1. ASSUME NEW g \in Prog, PxinitAsks(g) PROVE DaemonInv' /\ TableInv'
  BY <1>1 DEF PxinitAsks, DaemonInv, TableInv, Ruling, Entry, segVars, kidVars
<1>2. CASE UNCHANGED vars
  BY <1>2, KeepsOne DEF vars, segVars, kidVars
<1> QED
  BY <1>1, <1>2, DaemonOne, RestOne DEF Next

\* For any number of pnoxd started in any order, killed or told to end: the one
\* that runs has the lock and the command socket, and the process in its table is
\* a server of its own or one that has ended.
THEOREM RulerIsOne == Spec => []OneRuler
<1> DEFINE I == TypeInv /\ DaemonInv /\ TableInv
<1>1. Init => I
  BY InitType, InitOne
<1>2. I /\ [Next]_vars => I'
  BY NextType, NextOne
<1>3. I => OneRuler
  BY DEF DaemonInv, TableInv, OneRuler, Ruling
<1> QED
  BY <1>1, <1>2, <1>3, PTL DEF Spec

-----------------------------------------------------------------------------
(* The key and the segments of the servers.                                *)

Began == {"run", "quit", "killed"}

\* What all steps have in common in which no daemon gets its segment and no
\* server attaches one: what such a step does to the daemons, ...
DaemonsCalm ==
  \A e \in Daemon :
    /\ dpc[e] \in Began => dpc'[e] \in Began
    /\ dpc[e] = "killed" => dpc'[e] = "killed"
    /\ Ruling(e)' => dpc[e] \in {"init", "run"}
    /\ Holds(e)' => Holds(e) /\ att'[e] = att[e]
    /\ Ruling(e) /\ ~Lives(e)' => dpc'[e] = "killed" \/ key' = NoSeg
    /\ dpc[e] \in {"quit", "killed"} => dpc'[e] = dpc[e]

\* ... to the key, ...
KeyCalm ==
  /\ key' \in {key, NoSeg}
  /\ stray => stray'
  /\ \A e \in Daemon : Holds(e)' /\ att[e] = key /\ key' # key => stray'

\* ... and to a server.
KidCalm(k) ==
  /\ kpc'[k] = "up" => /\ kpc[k] = "up" /\ att'[k] = att[k] /\ dad'[k] = dad[k]
                       /\ k \in late => k \in late'
  /\ kpc'[k] # "none" => \/ kpc[k] # "none" /\ dad'[k] = dad[k]
                         \/ dad'[k] \in Daemon /\ dpc'[dad'[k]] = "run"

Calm == DaemonsCalm /\ KeyCalm /\ \A k \in Kid : KidCalm(k)

LEMMA InitShare == Init => KeyInv /\ KidInv /\ ShareInv
BY DEF Init, KeyInv, KidInv, ShareInv, Holds, Lives, Ended

LEMMA CalmKeeps ==
  ASSUME TypeInv, DaemonInv, DaemonInv', KeyInv, KidInv, ShareInv, Calm
  PROVE  KeyInv' /\ KidInv' /\ ShareInv'
<1>1. KeyInv'
  BY DEF Calm, DaemonsCalm, KeyCalm, KeyInv
<1>2. KidInv'
  <2> SUFFICES ASSUME NEW k \in Kid
               PROVE  /\ kpc'[k] # "none" => dad'[k] \in Daemon /\ dpc'[dad'[k]] \in Began
                      /\ kpc'[k] = "up" => att'[k] # NoSeg
    BY DEF KidInv, Began
  <2>1. KidCalm(k) /\ DaemonsCalm
    BY DEF Calm
  <2>2. kpc'[k] = "up" => att'[k] # NoSeg
    BY <2>1 DEF KidCalm, KidInv
  <2>3. ASSUME kpc[k] # "none", dad'[k] = dad[k]
        PROVE  dad'[k] \in Daemon /\ dpc'[dad'[k]] \in Began
    BY <2>1, <2>3 DEF DaemonsCalm, KidInv, Began
  <2> QED
    BY <2>1, <2>2, <2>3 DEF KidCalm, Began
<1>3. ASSUME NEW k \in Kid, kpc'[k] = "up" PROVE ShareOf(k)'
  <2>1. /\ kpc[k] = "up" /\ att'[k] = att[k] /\ dad'[k] = dad[k]
        /\ k \in late => k \in late'
    BY <1>3 DEF Calm, KidCalm
  <2>2. PICK e \in Daemon : dad[k] = e /\ dad'[k] = e
    BY <2>1 DEF KidInv
  <2>3. dpc[e] \in Began /\ att[k] # NoSeg /\ ShareOf(k)
    BY <2>1, <2>2 DEF KidInv, Began, ShareInv
  <2>4. Excused(k) => Excused(k)'
    BY <2>1, <2>2 DEF Excused, Calm, DaemonsCalm
  <2>5. ASSUME Ruling(e)' PROVE att'[k] = att'[e]
    <3>1. Ruling(e)
      <4>1. dpc[e] \in {"init", "run"}
        BY <2>5 DEF Calm, DaemonsCalm
      <4> QED
        BY <2>3, <4>1 DEF Ruling, Began
    <3>2. Holds(e)'
      BY <2>5 DEF Ruling, DaemonInv, Holds, Lives, Ended
    <3>3. att[k] = att[e] /\ att'[e] = att[e]
      BY <2>2, <2>3, <3>1, <3>2 DEF Calm, DaemonsCalm, ShareOf
    <3> QED
      BY <2>1, <3>3
  <2>6. ASSUME ~Lives(e)', att'[k] = key' PROVE Excused(k)'
    <3>1. key' = key
      BY <2>1, <2>3, <2>6 DEF Calm, KeyCalm
    <3>2. CASE Ruling(e)
      <4>1. dpc'[e] = "killed"
        BY <2>1, <2>3, <2>6, <3>2 DEF Calm, DaemonsCalm
      <4> QED
        BY <2>2, <4>1 DEF Excused
    <3>3. CASE ~Ruling(e)
      <4>1. ~Lives(e)
        BY <2>3, <3>3 DEF Ruling, Lives, Ended, Began
      <4> QED
        BY <2>1, <2>2, <2>3, <2>4, <2>6, <3>1, <4>1 DEF ShareOf
    <3> QED
      BY <3>2, <3>3
  <2>7. ASSUME NEW d \in Daemon, Holds(d)', dad'[k] # d, att'[k] = att'[d]
        PROVE  Excused(k)'
    <3>1. Holds(d) /\ att'[d] = att[d]
      BY <2>7 DEF Calm, DaemonsCalm
    <3> QED
      BY <2>1, <2>3, <2>4, <2>7, <3>1 DEF ShareOf
  <2> QED
    BY <2>1, <2>2, <2>5, <2>6, <2>7 DEF ShareOf
<1> QED
  BY <1>1, <1>2, <1>3 DEF ShareInv

LEMMA OverCalm ==
  ASSUME TypeInv, DaemonInv, NEW d \in Daemon, Lives(d),
         \/ DaemonOver(d, "quit") /\ Removes(d)
         \/ DaemonOver(d, "killed") /\ UNCHANGED <<key, stray>>
  PROVE  Calm
<1> USE DEF TypeInv, TypeOK
<1>1. PICK how \in {"quit", "killed"} : DaemonOver(d, how) /\ dpc' = [dpc EXCEPT ![d] = how]
  BY DEF DaemonOver
<1>2. \A e \in Daemon : e # d => att'[e] = att[e]
  BY <1>1 DEF DaemonOver, User
<1>3. key' \in {key, NoSeg} /\ (how = "killed" \/ key' = NoSeg)
  BY <1>1 DEF Removes, DaemonOver
<1>11. stray => stray'
  BY DEF Removes
<1>12. ASSUME NEW e \in Daemon, e # d, Holds(e), att[e] = key, key' # key PROVE stray'
  BY <1>12 DEF Removes
<1>4. dpc'[d] = how /\ \A e \in Daemon : e # d => dpc'[e] = dpc[e]
  BY <1>1
<1>5. dpc[d] \notin {"quit", "killed"} /\ ~Lives(d)'
  BY <1>1, <1>4 DEF Lives, Ended
<1>6. \A e \in Daemon : e # d => Lives(e)' = Lives(e)
  BY <1>4 DEF Lives, Ended
<1>7. ASSUME NEW e \in Daemon, Holds(e)' PROVE e # d /\ Holds(e)
  <2>1. Lives(e)' /\ att'[e] # NoSeg
    BY <1>7 DEF Holds
  <2>2. e # d
    BY <1>5, <2>1
  <2>3. Lives(e) /\ att[e] # NoSeg
    BY <1>2, <1>6, <2>1, <2>2
  <2> QED
    BY <2>2, <2>3 DEF Holds
<1>8. DaemonsCalm
  <2> SUFFICES ASSUME NEW e \in Daemon
               PROVE  /\ dpc[e] \in Began => dpc'[e] \in Began
                      /\ dpc[e] = "killed" => dpc'[e] = "killed"
                      /\ Ruling(e)' => dpc[e] \in {"init", "run"}
                      /\ Holds(e)' => Holds(e) /\ att'[e] = att[e]
                      /\ Ruling(e) /\ ~Lives(e)' => dpc'[e] = "killed" \/ key' = NoSeg
                      /\ dpc[e] \in {"quit", "killed"} => dpc'[e] = dpc[e]
    BY DEF DaemonsCalm
  <2>1. CASE e = d
    BY <1>1, <1>3, <1>4, <1>5, <1>7, <2>1 DEF Ruling, Began
  <2>2. CASE e # d
    BY <1>2, <1>4, <1>6, <1>7, <2>2 DEF Ruling, Lives, Ended
  <2> QED
    BY <2>1, <2>2
<1>9. KeyCalm
  BY <1>3, <1>7, <1>11, <1>12 DEF KeyCalm
<1>10. ASSUME NEW k \in Kid PROVE KidCalm(k)
  <2>1. att'[k] = att[k]
    BY <1>1, SegmentAssumption DEF DaemonOver, User
  <2>2. late' = late /\ (kpc'[k] = "none" \/ (kpc'[k] = kpc[k] /\ dad'[k] = dad[k]))
    BY <1>1 DEF DaemonOver
  <2> QED
    BY <2>1, <2>2 DEF KidCalm
<1> QED
  BY <1>8, <1>9, <1>10 DEF Calm

LEMMA ForksCalm ==
  ASSUME TypeInv, DaemonInv, NEW d \in Daemon, NEW k \in Kid,
         Forks(d, k), dpc[d] \in {"init", "run"}, dpc' = [dpc EXCEPT ![d] = "run"]
  PROVE  Calm
<1> USE DEF TypeInv, TypeOK
<1>1. dpc'[d] = "run" /\ \A e \in Daemon : e # d => dpc'[e] = dpc[e]
  OBVIOUS
<1>2. \A p \in User : p # k => att'[p] = att[p]
  BY DEF Forks
<1>3. \A e \in Daemon : att'[e] = att[e]
  BY <1>2, SegmentAssumption DEF User
<1>4. DaemonsCalm
  BY <1>1, <1>3 DEF DaemonsCalm, Began, Ruling, Holds, Lives, Ended
<1>5. KeyCalm
  BY DEF Forks, KeyCalm
<1>6. ASSUME NEW j \in Kid PROVE KidCalm(j)
  <2>1. CASE j = k
    BY <1>1, <2>1 DEF Forks, KidCalm
  <2>2. CASE j # k
    BY <1>2, <2>2 DEF Forks, KidCalm, User
  <2> QED
    BY <2>1, <2>2
<1> QED
  BY <1>4, <1>5, <1>6 DEF Calm

\* The daemons are left alone, and servers do nothing but end.
LEMMA EndsCalm ==
  ASSUME TypeInv, UNCHANGED dpc, \A e \in Daemon : att'[e] = att[e], KeyCalm,
         \A k \in Kid : KidCalm(k)
  PROVE  Calm
<1>1. ASSUME NEW e \in Daemon
      PROVE  dpc'[e] = dpc[e] /\ Ruling(e)' = Ruling(e) /\ Lives(e)' = Lives(e)
             /\ Holds(e)' = Holds(e)
  BY DEF Ruling, Holds, Lives
<1>2. DaemonsCalm
  BY <1>1 DEF DaemonsCalm, Ruling, Lives, Ended
<1> QED
  BY <1>2 DEF Calm

LEMMA RemovesCalm ==
  ASSUME TypeInv, UNCHANGED dpc, \A e \in Daemon : att'[e] = att[e], NEW p,
         p \notin Daemon, Removes(p)
  PROVE  KeyCalm
<1>1. \A e \in Daemon : Holds(e)' => Holds(e)
  BY DEF Holds, Lives
<1> QED
  BY <1>1 DEF Removes, KeyCalm

LEMMA KidOverCalm ==
  ASSUME TypeInv, NEW k \in Kid, kpc[k] # "none", KidOver(k), KeyCalm
  PROVE  Calm
<1> USE DEF TypeInv, TypeOK
<1>1. UNCHANGED dpc /\ \A e \in Daemon : att'[e] = att[e]
  BY KidOverKeeps DEF dmVars
<1>2. ASSUME NEW j \in Kid PROVE KidCalm(j)
  <2>1. CASE j = k
    BY <2>1 DEF KidOver, KidCalm
  <2>2. CASE j # k
    <3>1. kpc'[j] = kpc[j] /\ dad'[j] = dad[j] /\ att'[j] = att[j]
      BY <2>2 DEF KidOver, User
    <3>2. j \in late => j \in late'
      BY <2>2 DEF KidOver
    <3> QED
      BY <3>1, <3>2 DEF KidCalm
  <2> QED
    BY <2>1, <2>2
<1> QED
  BY <1>1, <1>2, EndsCalm

LEMMA DaemonCalm ==
  ASSUME TypeInv, DaemonInv, DaemonInv', KidInv, NEW d \in Daemon,
         \/ DaemonStarts(d) \/ DaemonLocks(d) \/ DaemonReaps(d)
         \/ DaemonQuits(d) \/ DaemonTermed(d) \/ DaemonKilled(d)
         \/ \E k \in Kid : DaemonInits(d, k) \/ DaemonRestarts(d, k)
  PROVE  Calm
<1> USE DEF TypeInv, TypeOK
<1>1. CASE DaemonStarts(d) \/ DaemonLocks(d)
  <2>1. /\ dpc[d] \in {"none", "lock"} /\ dpc'[d] \in {"lock", "sock", "refused"}
        /\ \A e \in Daemon : e # d => dpc'[e] = dpc[e]
    <3>1. CASE DaemonStarts(d)
      BY <3>1 DEF DaemonStarts
    <3>2. CASE DaemonLocks(d)
      BY <3>2 DEF DaemonLocks
    <3> QED
      BY <1>1, <3>1, <3>2
  <2>2. UNCHANGED <<att, key, stray, kpc, dad, late>>
    BY <1>1 DEF DaemonStarts, DaemonLocks, segVars, kidVars
  <2>3. att'[d] = NoSeg
    BY <2>1 DEF DaemonInv
  <2>4. DaemonsCalm
    BY <2>1, <2>2, <2>3 DEF DaemonsCalm, Began, Ruling, Holds, Lives, Ended
  <2> QED
    BY <2>2, <2>4 DEF Calm, KeyCalm, KidCalm
<1>2. CASE DaemonReaps(d)
  <2>1. /\ UNCHANGED <<dpc, att, key, stray, late>>
        /\ \A k \in Kid : kpc'[k] = "none" \/ (kpc'[k] = kpc[k] /\ dad'[k] = dad[k])
    BY <1>2 DEF DaemonReaps, dmVars, segVars
  <2>2. KeyCalm /\ \A k \in Kid : KidCalm(k)
    BY <2>1 DEF KeyCalm, KidCalm
  <2> QED
    BY <2>1, <2>2, EndsCalm
<1>3. CASE DaemonQuits(d) \/ DaemonTermed(d) \/ DaemonKilled(d)
  <2>1. Lives(d)
    BY <1>3 DEF DaemonQuits, DaemonTermed, DaemonKilled, Ruling, Lives, Ended
  <2> QED
    BY <1>3, <2>1, OverCalm DEF DaemonQuits, DaemonTermed, DaemonKilled
<1>4. CASE \E k \in Kid : DaemonInits(d, k) \/ DaemonRestarts(d, k)
  <2>1. PICK k \in Kid : DaemonInits(d, k) \/ DaemonRestarts(d, k)
    BY <1>4
  <2>2. /\ Forks(d, k) /\ dpc[d] \in {"init", "run"}
        /\ dpc' = [dpc EXCEPT ![d] = "run"]
    BY <2>1 DEF DaemonInits, DaemonRestarts, Ruling
  <2> QED
    BY <2>2, ForksCalm
<1> QED
  BY <1>1, <1>2, <1>3, <1>4

LEMMA RestCalm ==
  ASSUME TypeInv,
         \/ \E k \in Kid : KidFindsNone(k) \/ KidLeaves(k) \/ KidTermed(k) \/ KidKilled(k)
         \/ \E g \in Prog : ProgOpens(g) \/ ProgEnds(g) \/ PxinitAsks(g)
         \/ Upgrade
  PROVE  Calm
<1>1. ASSUME NEW k \in Kid, KidFindsNone(k) \/ KidTermed(k) PROVE Calm
  <2>1. KidOver(k) /\ Removes(k) /\ kpc[k] # "none" /\ k \notin Daemon
    BY <1>1, SegmentAssumption DEF KidFindsNone, FindsNone, KidTermed
  <2> QED
    BY <2>1, KidOverKeeps, RemovesCalm, KidOverCalm DEF dmVars
<1>2. ASSUME NEW k \in Kid, KidLeaves(k) \/ KidKilled(k) PROVE Calm
  <2>1. KidOver(k) /\ kpc[k] # "none" /\ UNCHANGED <<key, stray>>
    BY <1>2 DEF KidLeaves, KidKilled, segVars
  <2> QED
    BY <2>1, KidOverCalm DEF KeyCalm
<1>3. ASSUME NEW g \in Prog, ProgOpens(g) \/ ProgEnds(g) PROVE Calm
  <2>1. \A p \in Daemon \union Kid : att'[p] = att[p]
    BY <1>3, SegmentAssumption
    DEF ProgOpens, ProgEnds, Attaches, TypeInv, TypeOK, User
  <2>2. UNCHANGED <<dpc, kpc, dad, late>> /\ g \notin Daemon
    BY <1>3, SegmentAssumption DEF ProgOpens, ProgEnds, dmVars, kidVars
  <2>3. UNCHANGED <<key, stray>> \/ Removes(g)
    BY <1>3 DEF ProgOpens, ProgEnds, Attaches, FindsNone, segVars
  <2>4. KeyCalm
    BY <2>1, <2>2, <2>3, RemovesCalm DEF KeyCalm
  <2>5. \A k \in Kid : KidCalm(k)
    BY <2>1, <2>2 DEF KidCalm
  <2> QED
    BY <2>1, <2>2, <2>4, <2>5, EndsCalm
<1>4. ASSUME Upgrade \/ \E g \in Prog : PxinitAsks(g) PROVE Calm
  <2>1. UNCHANGED <<dpc, att, key, stray, kpc, dad, late>>
    BY <1>4 DEF Upgrade, PxinitAsks, dmVars, segVars, kidVars
  <2> QED
    BY <2>1, EndsCalm DEF KeyCalm, KidCalm
<1> QED
  BY <1>1, <1>2, <1>3, <1>4

\* The daemon that gets its segment is the only one that passed the lock.
LEMMA OpensShare ==
  ASSUME TypeInv, DaemonInv, KeyInv, KidInv, ShareInv, NEW d \in Daemon,
         DaemonOpens(d)
  PROVE  KeyInv' /\ KidInv' /\ ShareInv'
<1>1. /\ dpc[d] = "sock" /\ dpc' = [dpc EXCEPT ![d] = "init"]
      /\ UNCHANGED <<kpc, dad, late>>
  BY DEF DaemonOpens, kidVars
<1>2. dpc'[d] = "init" /\ \A e \in Daemon : e # d => dpc'[e] = dpc[e]
  BY <1>1 DEF TypeInv, TypeOK
<1>3. att'[d] = key' /\ \A p \in User : p # d => att'[p] = att[p]
  <2>1. att' = [att EXCEPT ![d] = key']
    BY DEF DaemonOpens, Attaches, Makes, segVars
  <2> QED
    BY <2>1 DEF TypeInv, TypeOK, User
<1>4. \A e \in Daemon : e # d => att[e] = NoSeg /\ dpc[e] \notin {"init", "run"}
  BY <1>1 DEF DaemonInv
<1>5. \A e \in Daemon : Holds(e)' => e = d
  BY <1>3, <1>4 DEF Holds, User
<1>6. KeyInv'
  BY <1>3, <1>5 DEF KeyInv
<1>7. ASSUME NEW k \in Kid, kpc[k] # "none"
      PROVE  /\ dad[k] \in Daemon /\ dad[k] # d /\ dpc[dad[k]] \in {"quit", "killed"}
             /\ dpc'[dad[k]] = dpc[dad[k]]
  <2>1. dad[k] \in Daemon /\ dpc[dad[k]] \in {"run", "quit", "killed"}
    BY <1>7 DEF KidInv
  <2> QED
    BY <1>1, <1>2, <1>4, <2>1
<1>8. \A k \in Kid : att'[k] = att[k]
  BY <1>3, SegmentAssumption DEF User
<1>9. KidInv'
  BY <1>1, <1>7, <1>8 DEF KidInv
<1>10. ASSUME NEW k \in Kid, kpc[k] = "up", att[k] = key' PROVE Excused(k)'
  <2>1. key' = key
    <3>1. att[k] \in 0 .. made /\ made \in Nat
      BY SegmentAssumption DEF TypeInv, TypeOK, User
    <3>2. key' = key \/ key' = made + 1
      BY DEF DaemonOpens, Attaches, Makes, segVars
    <3> QED
      BY <1>10, <3>1, <3>2
  <2>2. Excused(k)
    BY <1>7, <1>10, <2>1 DEF ShareInv, ShareOf, Lives, Ended
  <2> QED
    BY <1>1, <1>7, <1>10, <2>2 DEF Excused
<1>11. ASSUME NEW k \in Kid, kpc[k] = "up" PROVE ShareOf(k)'
  <2>1. PICK e \in Daemon : dad[k] = e /\ dad'[k] = e
    BY <1>1, <1>7, <1>11
  <2>2. ~Ruling(e)'
    BY <1>7, <1>11, <2>1 DEF Ruling
  <2>3. att'[k] = key' => Excused(k)'
    BY <1>8, <1>10, <1>11
  <2>4. \A f \in Daemon : Holds(f)' /\ att'[k] = att'[f] => Excused(k)'
    BY <1>3, <1>5, <2>3
  <2> QED
    BY <2>1, <2>2, <2>3, <2>4 DEF ShareOf
<1> QED
  BY <1>1, <1>6, <1>9, <1>11 DEF ShareInv

\* A server attaches the segment of its daemon, which is the only one that lives,
\* or is late.
LEMMA KidOpensShare ==
  ASSUME TypeInv, DaemonInv, KeyInv, KidInv, ShareInv, NEW k \in Kid, KidOpens(k)
  PROVE  KeyInv' /\ KidInv' /\ ShareInv'
<1>1. /\ kpc[k] = "forked" /\ key # NoSeg /\ att' = [att EXCEPT ![k] = key]
      /\ kpc' = [kpc EXCEPT ![k] = "up"]
      /\ UNCHANGED <<dpc, dad, key, stray>>
  BY DEF KidOpens, Attaches, Fits, dmVars, segVars
<1>2. att'[k] = key /\ \A p \in User : p # k => att'[p] = att[p]
  BY <1>1 DEF TypeInv, TypeOK, User
<1>3. \A e \in Daemon : att'[e] = att[e]
  BY <1>2, SegmentAssumption DEF User
<1>4. \A j \in Kid : j # k => kpc'[j] = kpc[j] /\ att'[j] = att[j]
  BY <1>1, <1>2 DEF TypeInv, TypeOK, User
<1>5. ASSUME NEW e \in Daemon
      PROVE  /\ Holds(e)' = Holds(e) /\ Ruling(e)' = Ruling(e)
             /\ Lives(e)' = Lives(e)
  BY <1>1, <1>3 DEF Holds, Ruling, Lives
<1>6. KeyInv'
  BY <1>1, <1>3, <1>5 DEF KeyInv
<1>7. KidInv'
  BY <1>1, <1>2, <1>4 DEF KidInv
<1>8. late \subseteq late' /\ (~Lives(dad[k]) => k \in late')
  BY DEF KidOpens
<1>9. ShareOf(k)'
  <2>1. PICK e \in Daemon : dad[k] = e /\ dad'[k] = e
    BY <1>1 DEF KidInv
  <2>2. ~Lives(e) => Excused(k)'
    BY <1>8, <2>1 DEF Excused
  <2>3. Ruling(e) => key = att[e]
    <3>1. Ruling(e) => Holds(e)
      BY DEF Ruling, Holds, Lives, Ended, DaemonInv
    <3> QED
      BY <1>1, <3>1 DEF KeyInv
  <2>4. ASSUME NEW f \in Daemon, Holds(f), e # f PROVE ~Lives(e)
    <3>1. dpc[e] \in {"run", "quit", "killed"}
      BY <1>1, <2>1 DEF KidInv
    <3>2. lock = f
      BY <2>4 DEF Holds, DaemonInv
    <3>3. dpc[e] # "run"
      BY <2>4, <3>2 DEF DaemonInv
    <3> QED
      BY <3>1, <3>3 DEF Lives, Ended
  <2> QED
    BY <1>2, <1>3, <1>5, <2>1, <2>2, <2>3, <2>4 DEF ShareOf
<1>10. ASSUME NEW j \in Kid, j # k, kpc[j] = "up" PROVE ShareOf(j)'
  <2>1. PICK e \in Daemon : dad[j] = e /\ dad'[j] = e
    BY <1>1, <1>10 DEF KidInv
  <2>2. ShareOf(j) /\ (Excused(j) => Excused(j)') /\ att'[j] = att[j]
    BY <1>1, <1>4, <1>8, <1>10 DEF ShareInv, Excused
  <2> QED
    BY <1>1, <1>3, <1>5, <2>1, <2>2 DEF ShareOf
<1> QED
  BY <1>4, <1>6, <1>7, <1>9, <1>10 DEF ShareInv

LEMMA NextShare ==
  ASSUME TypeInv, TypeInv', DaemonInv, DaemonInv', KeyInv, KidInv, ShareInv,
         [Next]_vars
  PROVE  KeyInv' /\ KidInv' /\ ShareInv'
<1>1. CASE UNCHANGED vars
  BY <1>1, CalmKeeps, EndsCalm
  DEF vars, dmVars, segVars, kidVars, KeyCalm, KidCalm
<1>2. CASE Next
  BY <1>2, OpensShare, KidOpensShare, CalmKeeps, DaemonCalm, RestCalm
  DEF Next, DaemonRun, KidRun
<1> QED
  BY <1>1, <1>2

THEOREM SegmentInvariant == Spec => []Inv
<1>1. Init => Inv
  BY InitType, InitOne, InitShare DEF Inv
<1>2. Inv /\ [Next]_vars => Inv'
  BY NextType, NextOne, NextShare DEF Inv
<1> QED
  BY <1>1, <1>2, PTL DEF Spec

\* Whatever ends, is killed or is installed, and in whatever order: whoever
\* attaches now attaches the segment of the daemon that lives, unless a stray
\* process has removed it, and what the key leads to is never another one.
THEOREM KeyOfRuler == Spec => []KeyLeadsToRuler
<1>1. Inv => KeyLeadsToRuler
  BY DEF Inv, KeyInv, KeyLeadsToRuler
<1> QED
  BY <1>1, SegmentInvariant, PTL

\* A server uses its daemon's segment; one that a daemon told to end leaves
\* behind does not share that of the next daemon, unless it started late.
THEOREM GenerationsApart == Spec => []SegmentPerGeneration
<1>1. ASSUME Inv, NEW d \in Daemon, NEW k \in Kid, Ruling(d), kpc[k] = "up"
      PROVE  IF dad[k] = d THEN att[k] = att[d]
             ELSE att[k] = att[d] => dpc[dad[k]] = "killed" \/ k \in late
  <2>1. Holds(d)
    BY <1>1 DEF Inv, DaemonInv, Ruling, Holds, Lives, Ended
  <2>2. ShareOf(k)
    BY <1>1 DEF Inv, ShareInv
  <2> QED
    BY <1>1, <2>1, <2>2 DEF ShareOf, Excused
<1>2. Inv => SegmentPerGeneration
  BY <1>1 DEF SegmentPerGeneration
<1> QED
  BY <1>2, SegmentInvariant, PTL
=============================================================================
