--------------------------- MODULE PnoxDialProofs ---------------------------
(***************************************************************************)
(* Proofs about PnoxDial, for any number of hosts, of pnoxrtc processes,   *)
(* of faults and of hosts going down.                                      *)
(*                                                                         *)
(* NameKept is not inductive: it has to be known as well that a child that *)
(* has not opened its queue yet finds the name free, and that a pnoxrtc    *)
(* that began alone stays alone, since only it can start children.         *)
(***************************************************************************)
EXTENDS PnoxDial, TLAPS

KidPc == {"none", "open", "dial", "serve", "gone"}

\* The types of what steps change.
Types ==
  /\ parent \in [Gen -> {"none", "fork", "watch"}]
  /\ next \in [Gen -> 1 .. NHost + 1]
  /\ kid \in [Gen -> [Host -> KidPc]]
  /\ link \in [Gen -> [Host -> BOOLEAN]]
  /\ name \in [Host -> Gen \union {NoGen}]
  /\ up \subseteq Host
  /\ downs \in 0 .. MaxDown
  /\ faults \in 0 .. MaxFaults
  /\ crossed \in [Gen -> BOOLEAN]
  /\ late \in BOOLEAN

\* A parent that forks has a host left; one that watches has none.
NextFits ==
  \A g \in Gen : /\ parent[g] = "fork" => next[g] <= NHost
                 /\ parent[g] = "watch" => next[g] = NHost + 1

\* A connection that holds has both its ends.
LinkEnds == \A g \in Gen, h \in Host : link[g][h] => kid[g][h] = "serve" /\ h \in up

\* There is one parent at most.
OneParent ==
  \A g, o \in Gen : parent[g] # "none" /\ parent[o] # "none" => g = o

\* A pnoxrtc that began alone is alone.
Alone ==
  \A g, o \in Gen : parent[g] # "none" /\ ~crossed[g] /\ o # g =>
    \A h \in Host : ~Lives(o, h)

\* A parent has no children yet for the hosts it has not come to.
NotYet ==
  \A g \in Gen, h \in Host : parent[g] = "fork" /\ next[g] <= h => kid[g][h] = "none"

\* The names of the queues of a pnoxrtc that began alone.
Names ==
  \A g \in Gen, h \in Host :
    parent[g] # "none" /\ ~crossed[g] =>
      /\ kid[g][h] \in {"dial", "serve"} => name[h] = g
      /\ kid[g][h] \in {"none", "open"} => name[h] = NoGen

DialInv ==
  Types /\ NextFits /\ LinkEnds /\ OneParent /\ Alone /\ NotYet /\ Names

-----------------------------------------------------------------------------
LEMMA DialInit == Init => DialInv
<1> SUFFICES ASSUME Init PROVE DialInv
  OBVIOUS
<1>1. Types
  <2>1. /\ parent \in [Gen -> {"none", "fork", "watch"}]
        /\ next \in [Gen -> 1 .. NHost + 1]
        /\ kid \in [Gen -> [Host -> KidPc]]
        /\ name \in [Host -> Gen \union {NoGen}]
        /\ up \subseteq Host
        /\ downs \in 0 .. MaxDown
        /\ faults \in 0 .. MaxFaults
    BY DialAssumption DEF Init, KidPc, Host
  <2>2. link \in [Gen -> [Host -> BOOLEAN]]
    BY DEF Init
  <2>3. crossed \in [Gen -> BOOLEAN] /\ late \in BOOLEAN
    BY DEF Init
  <2> QED
    BY <2>1, <2>2, <2>3 DEF Types
<1>2. NextFits /\ OneParent
  BY DEF Init, NextFits, OneParent
<1>3. LinkEnds
  BY DEF Init, LinkEnds
<1>4. Alone /\ NotYet /\ Names
  BY DEF Init, Alone, NotYet, Names
<1> QED
  BY <1>1, <1>2, <1>3, <1>4 DEF DialInv

LEMMA StartsKeeps ==
  ASSUME DialInv, NEW g \in Gen, Starts(g) PROVE DialInv'
<1> USE DialAssumption DEF DialInv, Starts, KidPc, histVars
<1>1. Types'
  BY DEF Types, Host
<1>2. NextFits'
  BY DEF Types, NextFits, Host
<1>3. LinkEnds'
  BY DEF Types, LinkEnds, Idle, Lives, Host
<1>4. OneParent'
  BY DEF Types, OneParent
<1>5. Alone'
  BY DEF Types, Alone, Idle, Lives
<1>6. NotYet'
  BY DEF Types, NotYet
<1>7. Names'
  BY DEF Types, Names
<1> QED
  BY <1>1, <1>2, <1>3, <1>4, <1>5, <1>6, <1>7

LEMMA ForksKeeps ==
  ASSUME DialInv, NEW g \in Gen, Forks(g) PROVE DialInv'
<1> USE DialAssumption DEF DialInv, Forks, Forked, KidPc, histVars
<1>0. next[g] \in Host /\ next[g] + 1 \in 1 .. NHost + 1
  BY DEF Types, NextFits, Host
<1>1. Types'
  BY <1>0 DEF Types, Host
<1>2. NextFits'
  BY <1>0 DEF Types, NextFits, Host
<1>3. LinkEnds'
  BY <1>0 DEF Types, LinkEnds, NotYet
<1>4. OneParent'
  BY DEF Types, OneParent
<1>5. Alone'
  BY <1>0 DEF Types, Alone, OneParent, Lives
<1>6. NotYet'
  BY <1>0 DEF Types, NotYet, OneParent, Host
<1>7. Names'
  BY <1>0 DEF Types, Names, NotYet
<1> QED
  BY <1>1, <1>2, <1>3, <1>4, <1>5, <1>6, <1>7

LEMMA ForkFailsKeeps ==
  ASSUME DialInv, NEW g \in Gen, ForkFails(g) PROVE DialInv'
<1> USE DialAssumption DEF DialInv, ForkFails, Forked, Fault, KidPc, histVars
<1>0. next[g] \in Host /\ next[g] + 1 \in 1 .. NHost + 1
  BY DEF Types, NextFits, Host
<1>1. Types'
  BY <1>0 DEF Types, Host
<1>2. NextFits'
  BY <1>0 DEF Types, NextFits, Host
<1>3. LinkEnds'
  BY DEF LinkEnds
<1>4. OneParent'
  BY DEF Types, OneParent
<1>5. Alone'
  BY DEF Types, Alone, Lives
<1>6. NotYet'
  BY <1>0 DEF Types, NotYet, OneParent, Host
<1>7. Names'
  BY DEF Types, Names
<1> QED
  BY <1>1, <1>2, <1>3, <1>4, <1>5, <1>6, <1>7
LEMMA ParentEndsKeeps ==
  ASSUME DialInv, NEW g \in Gen, ParentEnds(g) PROVE DialInv'
<1> USE DialAssumption DEF DialInv, ParentEnds, KidPc, histVars
<1>1. Types'
  BY DEF Types, Host
<1>2. NextFits'
  BY DEF Types, NextFits
<1>3. LinkEnds'
  BY DEF Types, LinkEnds
<1>4. OneParent'
  BY DEF Types, OneParent
<1>5. Alone'
  BY DEF Types, Alone, Lives
<1>6. NotYet'
  BY DEF Types, NotYet
<1>7. Names'
  BY DEF Types, Names
<1> QED
  BY <1>1, <1>2, <1>3, <1>4, <1>5, <1>6, <1>7

LEMMA ParentKilledKeeps ==
  ASSUME DialInv, NEW g \in Gen, ParentKilled(g) PROVE DialInv'
<1> USE DialAssumption DEF DialInv, ParentKilled, Fault, KidPc, histVars
<1>1. Types'
  BY DEF Types, Host
<1>2. NextFits'
  BY DEF Types, NextFits
<1>3. LinkEnds'
  BY DEF Types, LinkEnds
<1>4. OneParent'
  BY DEF Types, OneParent
<1>5. Alone'
  BY DEF Types, Alone, Lives
<1>6. NotYet'
  BY DEF Types, NotYet
<1>7. Names'
  BY DEF Types, Names
<1> QED
  BY <1>1, <1>2, <1>3, <1>4, <1>5, <1>6, <1>7

LEMMA OpensFree ==
  ASSUME DialInv, NEW g \in Gen, NEW h \in Host, kid[g][h] = "open",
         name[h] = NoGen, name' = [name EXCEPT ![h] = g],
         kid' = [kid EXCEPT ![g][h] = "dial"],
         UNCHANGED <<parent, next, link, up, downs, faults, histVars>>
  PROVE  DialInv'
<1> USE DialAssumption DEF DialInv, KidPc, histVars
<1>1. Types'
  BY DEF Types, Host
<1>2. NextFits'
  BY DEF Types, NextFits
<1>3. LinkEnds'
  BY DEF Types, LinkEnds
<1>4. OneParent'
  BY DEF Types, OneParent
<1>5. Alone'
  BY DEF Types, Alone, Lives
<1>6. NotYet'
  BY DEF Types, NotYet
<1>7. Names'
  BY DEF Types, Names, Alone, OneParent, Lives
<1> QED
  BY <1>1, <1>2, <1>3, <1>4, <1>5, <1>6, <1>7

LEMMA OpensTaken ==
  ASSUME DialInv, NEW g \in Gen, NEW h \in Host, kid[g][h] = "open",
         name[h] # NoGen, name' = [name EXCEPT ![h] = NoGen],
         kid' = [kid EXCEPT ![g][h] = "gone"],
         UNCHANGED <<parent, next, link, up, downs, faults, histVars>>
  PROVE  DialInv'
<1> USE DialAssumption DEF DialInv, KidPc, histVars
<1>1. Types'
  BY DEF Types, Host
<1>2. NextFits'
  BY DEF Types, NextFits
<1>3. LinkEnds'
  BY DEF Types, LinkEnds
<1>4. OneParent'
  BY DEF Types, OneParent
<1>5. Alone'
  BY DEF Types, Alone, Lives
<1>6. NotYet'
  BY DEF Types, NotYet
<1>7. Names'
  BY DEF Types, Names, Alone, OneParent, Lives
<1> QED
  BY <1>1, <1>2, <1>3, <1>4, <1>5, <1>6, <1>7

LEMMA KidOpensKeeps ==
  ASSUME DialInv, NEW g \in Gen, NEW h \in Host, KidOpens(g, h) PROVE DialInv'
<1>1. CASE name[h] = NoGen
  BY <1>1, OpensFree DEF KidOpens
<1>2. CASE name[h] # NoGen
  BY <1>2, OpensTaken DEF KidOpens
<1> QED
  BY <1>1, <1>2

LEMMA KidConnectsKeeps ==
  ASSUME DialInv, NEW g \in Gen, NEW h \in Host, KidConnects(g, h) PROVE DialInv'
<1> USE DialAssumption DEF DialInv, KidConnects, KidPc, histVars
<1>1. Types'
  BY DEF Types, Host
<1>2. NextFits'
  BY DEF Types, NextFits
<1>3. LinkEnds'
  BY DEF Types, LinkEnds
<1>4. OneParent'
  BY DEF Types, OneParent
<1>5. Alone'
  BY DEF Types, Alone, Lives
<1>6. NotYet'
  BY DEF Types, NotYet
<1>7. Names'
  BY DEF Types, Names
<1> QED
  BY <1>1, <1>2, <1>3, <1>4, <1>5, <1>6, <1>7

LEMMA KidGivesUpKeeps ==
  ASSUME DialInv, NEW g \in Gen, NEW h \in Host, KidGivesUp(g, h) PROVE DialInv'
<1> USE DialAssumption DEF DialInv, KidGivesUp, KidPc, histVars
<1>1. Types'
  BY DEF Types, Host
<1>2. NextFits'
  BY DEF Types, NextFits
<1>3. LinkEnds'
  BY DEF Types, LinkEnds
<1>4. OneParent'
  BY DEF Types, OneParent
<1>5. Alone'
  BY DEF Types, Alone, Lives
<1>6. NotYet'
  BY DEF Types, NotYet
<1>7. Names'
  BY DEF Types, Names
<1> QED
  BY <1>1, <1>2, <1>3, <1>4, <1>5, <1>6, <1>7

LEMMA KidEndsKeeps ==
  ASSUME DialInv, NEW g \in Gen, NEW h \in Host, KidEnds(g, h) PROVE DialInv'
<1> USE DialAssumption DEF DialInv, KidEnds, Closes, KidPc, histVars
<1>1. Types'
  BY DEF Types, Host
<1>2. NextFits'
  BY DEF Types, NextFits
<1>3. LinkEnds'
  BY DEF Types, LinkEnds
<1>4. OneParent'
  BY DEF Types, OneParent
<1>5. Alone'
  BY DEF Types, Alone, Lives
<1>6. NotYet'
  BY DEF Types, NotYet
<1>7. Names'
  BY DEF Types, Names, Alone, OneParent, Lives
<1> QED
  BY <1>1, <1>2, <1>3, <1>4, <1>5, <1>6, <1>7

LEMMA KidKilledKeeps ==
  ASSUME DialInv, NEW g \in Gen, NEW h \in Host, KidKilled(g, h) PROVE DialInv'
<1> USE DialAssumption DEF DialInv, KidKilled, Fault, KidPc, histVars
<1>1. Types'
  BY DEF Types, Host
<1>2. NextFits'
  BY DEF Types, NextFits
<1>3. LinkEnds'
  BY DEF Types, LinkEnds
<1>4. OneParent'
  BY DEF Types, OneParent
<1>5. Alone'
  BY DEF Types, Alone, Lives
<1>6. NotYet'
  BY DEF Types, NotYet, Lives
<1>7. Names'
  BY DEF Types, Names, Lives
<1> QED
  BY <1>1, <1>2, <1>3, <1>4, <1>5, <1>6, <1>7

LEMMA HostDownKeeps ==
  ASSUME DialInv, NEW h \in Host, HostDown(h) PROVE DialInv'
<1> USE DialAssumption DEF DialInv, HostDown, KidPc, histVars
<1>1. Types'
  BY DEF Types, Host
<1>2. NextFits'
  BY DEF Types, NextFits
<1>3. LinkEnds'
  BY DEF Types, LinkEnds
<1>4. OneParent'
  BY DEF Types, OneParent
<1>5. Alone'
  BY DEF Types, Alone, Lives
<1>6. NotYet'
  BY DEF Types, NotYet
<1>7. Names'
  BY DEF Types, Names
<1> QED
  BY <1>1, <1>2, <1>3, <1>4, <1>5, <1>6, <1>7

LEMMA HostUpKeeps ==
  ASSUME DialInv, NEW h \in Host, HostUp(h) PROVE DialInv'
<1> USE DialAssumption DEF DialInv, HostUp, KidPc, histVars
<1>1. Types'
  BY DEF Types, Host
<1>2. NextFits'
  BY DEF Types, NextFits
<1>3. LinkEnds'
  BY DEF Types, LinkEnds
<1>4. OneParent'
  BY DEF Types, OneParent
<1>5. Alone'
  BY DEF Types, Alone, Lives
<1>6. NotYet'
  BY DEF Types, NotYet
<1>7. Names'
  BY DEF Types, Names
<1> QED
  BY <1>1, <1>2, <1>3, <1>4, <1>5, <1>6, <1>7

LEMMA StutterKeeps == DialInv /\ UNCHANGED vars => DialInv'
BY DEF DialInv, Types, NextFits, LinkEnds, OneParent, Alone, NotYet, Names, Lives,
   Idle, vars, histVars

LEMMA StepKeeps == DialInv /\ [Next]_vars => DialInv'
<1> SUFFICES ASSUME DialInv, [Next]_vars PROVE DialInv'
  OBVIOUS
<1>1. ASSUME NEW g \in Gen, GenStep(g) \/ ForkFails(g) \/ ParentKilled(g)
      PROVE  DialInv'
  BY <1>1, StartsKeeps, ForksKeeps, ForkFailsKeeps, ParentEndsKeeps,
     ParentKilledKeeps DEF GenStep
<1>2. ASSUME NEW g \in Gen, NEW h \in Host, KidStep(g, h) \/ KidKilled(g, h)
      PROVE  DialInv'
  BY <1>2, KidOpensKeeps, KidConnectsKeeps, KidGivesUpKeeps, KidEndsKeeps,
     KidKilledKeeps DEF KidStep
<1>3. ASSUME NEW h \in Host, HostDown(h) \/ HostUp(h)
      PROVE  DialInv'
  BY <1>3, HostDownKeeps, HostUpKeeps
<1>4. CASE UNCHANGED vars
  BY <1>4, StutterKeeps
<1> QED
  BY <1>1, <1>2, <1>3, <1>4 DEF Next

LEMMA DialInvariant == Spec => []DialInv
BY DialInit, StepKeeps, PTL DEF Spec

\* The variables of pnoxrtc and its children have their types, for any number of
\* hosts; a connection that holds has a serving child and a host that is up.
THEOREM DialTyping == Spec => []TypeOK
<1>1. DialInv => TypeOK
  BY DEF DialInv, Types, NextFits, LinkEnds, TypeOK, KidPc
<1> QED
  BY <1>1, DialInvariant, PTL

\* Of whatever hosts go down and whatever is killed: the children of a pnoxrtc
\* that began after all earlier children had ended keep the names of their queues.
THEOREM DialNames == Spec => []NameKept
<1>1. DialInv => NameKept
  BY DEF DialInv, Names, NameKept
<1> QED
  BY <1>1, DialInvariant, PTL
=============================================================================
