------------------------- MODULE OnefilePosixProofs -------------------------
(***************************************************************************)
(* For any number of launches, failures, kills and signals: a lock has     *)
(* somebody who will remove it, or was killed with it; a marked tree is    *)
(* whole; and, until a signal arrives, one launch unpacks at a time.       *)
(***************************************************************************)
EXTENDS OnefilePosix, TLAPS

(* A launch that has set its trap keeps it till it has done without it,    *)
(* and takes the lock down with it whichever way its text ends.            *)
Trapped == \A l \in Launches : pc[l] \in Unpacking \ {"trap"} => l \in trapped

(* What a launch is about to mark is whole, unless a signal's trap took it *)
(* away; no temporary is one that a removal has left part of.              *)
UntarredIsWhole ==
  \A l \in Launches : /\ pc[l] = "mark" => temp[l].files \in {"all", "none"}
                      /\ temp[l].files # "left"
                      /\ temp[l].mark => temp[l].files = "all"

Inv == TypeOK /\ Trapped /\ LockIsSomebodys /\ UntarredIsWhole /\ MarkedIsWhole /\ OneUnpacks

-----------------------------------------------------------------------------
(* The trees the text makes.                                               *)
LEMMA MadeTrees ==
  /\ Nothing \in Trees /\ ~Nothing.mark /\ Nothing.files = "none"
  /\ \A f \in {"some", "left"}, m \in BOOLEAN : /\ Tree(f, m) \in Trees
                                                /\ Tree(f, m).mark = m
                                                /\ Tree(f, m).files = f
<1>1. \A f \in {"none", "some", "left", "all"}, m \in BOOLEAN :
         [files |-> f, mark |-> m] \in Trees
  BY DEF Trees
<1>2. QED
  BY <1>1 DEF Nothing, Tree

(* A tree of which one part is replaced is a tree.                         *)
LEMMA TreeParts ==
  ASSUME NEW x \in Trees
  PROVE  /\ [x EXCEPT !.files = "all"] \in Trees
         /\ [x EXCEPT !.files = "all"].files = "all"
         /\ [x EXCEPT !.mark = TRUE] \in Trees
         /\ [x EXCEPT !.mark = TRUE].files = x.files
         /\ x.mark \in BOOLEAN
  BY DEF Trees

LEMMA InitInv == Init => Inv
<1> SUFFICES ASSUME Init PROVE Inv
  OBVIOUS
<1>1. TypeOK
  <2>1. cache \in Trees /\ temp \in [Launches -> Trees]
    BY MadeTrees DEF Init
  <2>2. pc \in [Launches -> Places] /\ signals \in 0 .. MaxSignals
    BY PosixFaults DEF Init, Places
  <2>3. QED
    BY <2>1, <2>2 DEF Init, TypeOK
<1>2. Trapped /\ OneUnpacks
  BY DEF Init, Trapped, OneUnpacks, Unpacking
<1>3. LockIsSomebodys
  BY DEF Init, LockIsSomebodys
<1>4. UntarredIsWhole /\ MarkedIsWhole
  BY MadeTrees DEF Init, UntarredIsWhole, MarkedIsWhole
<1>5. QED
  BY <1>1, <1>2, <1>3, <1>4 DEF Inv

-----------------------------------------------------------------------------
(* A step of l that touches neither trees nor lock keeps the invariant if  *)
(* it neither enters nor leaves the unpacking.                             *)
LEMMA IdleStep ==
  ASSUME Inv, NEW l \in Launches, NEW there \in Places \ Unpacking,
         pc[l] \notin Unpacking \cup Settled, Goto(l, there),
         UNCHANGED <<cache, lock, temp, signals>>,
         trapped' \in {trapped, trapped \ {l}}
  PROVE  Inv'
<1>1. TypeOK'
  BY DEF Inv, TypeOK, Goto
<1>2. Trapped'
  BY DEF Inv, TypeOK, Trapped, Goto
<1>3. LockIsSomebodys'
  BY DEF Inv, TypeOK, LockIsSomebodys, Goto, Settled
<1>4. UntarredIsWhole'
  BY DEF Inv, TypeOK, UntarredIsWhole, Goto, Unpacking
<1>5. MarkedIsWhole'
  BY DEF Inv, TypeOK, MarkedIsWhole, Goto, Unpacking, Settled
<1>6. OneUnpacks'
  BY DEF Inv, TypeOK, OneUnpacks, Goto
<1>7. QED
  BY <1>1, <1>2, <1>3, <1>4, <1>5, <1>6 DEF Inv

(* A step within the unpacking: what it does to its own temporary and to   *)
(* the cache must leave marked trees whole.                                *)
LEMMA UnpackingStep ==
  ASSUME Inv, NEW l \in Launches, NEW there \in Unpacking,
         pc[l] \in Unpacking, Goto(l, there),
         UNCHANGED <<lock, signals>>,
         trapped' \in {trapped, trapped \cup {l}},
         pc[l] = "trap" => l \in trapped', there # "trap",
         NEW tree \in Trees, temp' = [temp EXCEPT ![l] = tree],
         there = "mark" => tree.files \in {"all", "none"},
         tree.mark => tree.files = "all", tree.files # "left",
         cache' \in Trees,
         cache'.mark => cache'.files \in {"all", "left"},
         cache'.files = "left" => there = "purging" \/ (cache' = cache /\ pc[l] # "purging")
  PROVE  Inv'
<1>1. TypeOK'
  BY DEF Inv, TypeOK, Goto, Unpacking, Places
<1>2. Trapped'
  BY DEF Inv, TypeOK, Trapped, Goto
<1>3. LockIsSomebodys'
  BY DEF Inv, TypeOK, LockIsSomebodys, Goto
<1>4. UntarredIsWhole'
  BY DEF Inv, TypeOK, UntarredIsWhole, Goto
<1>5. MarkedIsWhole'
  <2>1. \A k \in Launches : temp'[k].mark => temp'[k].files = "all"
    BY <1>4 DEF UntarredIsWhole
  <2>2. pc'[l] = there /\ \A k \in Launches : k # l => pc'[k] = pc[k]
    BY DEF Inv, TypeOK, Goto
  <2>3. cache'.files = "left" => \E k \in Launches : pc'[k] \in {"purging", "failed", "killed"}
    BY <2>2 DEF Inv, MarkedIsWhole, Unpacking
  <2>4. QED
    BY <2>1, <2>3 DEF MarkedIsWhole
<1>6. OneUnpacks'
  BY DEF Inv, TypeOK, OneUnpacks, Goto
<1>7. QED
  BY <1>1, <1>2, <1>3, <1>4, <1>5, <1>6 DEF Inv

(* A launch that ends on a failing command runs its trap.                  *)
LEMMA ExitStep ==
  ASSUME Inv, NEW l \in Launches, pc[l] \in Unpacking \ {"trap"}, Exit(l),
         UNCHANGED <<cache, trapped, signals>>
  PROVE  Inv'
<1>1. /\ pc' = [pc EXCEPT ![l] = "failed"]
      /\ temp' = [temp EXCEPT ![l] = Nothing]
      /\ lock' = FALSE
  BY DEF Inv, Trapped, Exit, RunTrap, Goto
<1>2. TypeOK'
  BY <1>1, MadeTrees DEF Inv, TypeOK, Places, Settled
<1>3. Trapped'
  BY <1>1 DEF Inv, TypeOK, Trapped, Unpacking
<1>4. LockIsSomebodys'
  BY <1>1 DEF LockIsSomebodys
<1>5. UntarredIsWhole'
  BY <1>1, MadeTrees DEF Inv, TypeOK, UntarredIsWhole
<1>6. MarkedIsWhole'
  BY <1>1, MadeTrees DEF Inv, TypeOK, MarkedIsWhole, Unpacking
<1>7. OneUnpacks'
  <2>1. signals = 0 => \A k \in Launches : pc'[k] \notin Unpacking
    BY <1>1 DEF Inv, TypeOK, OneUnpacks, Unpacking
  <2>2. QED
    BY <2>1 DEF OneUnpacks
<1>8. QED
  BY <1>2, <1>3, <1>4, <1>5, <1>6, <1>7 DEF Inv

(* A launch that is killed leaves its trees and its lock as they are.      *)
LEMMA KilledStep ==
  ASSUME Inv, NEW l \in Launches, Goto(l, "killed"),
         UNCHANGED <<cache, lock, temp, trapped>>, signals' \in signals .. MaxSignals
  PROVE  Inv'
<1>1. TypeOK'
  BY PosixFaults DEF Inv, TypeOK, Goto, Places, Settled
<1>2. Trapped'
  BY DEF Inv, TypeOK, Trapped, Goto, Unpacking
<1>3. LockIsSomebodys'
  BY DEF Inv, TypeOK, LockIsSomebodys, Goto
<1>4. UntarredIsWhole'
  BY DEF Inv, TypeOK, UntarredIsWhole, Goto
<1>5. MarkedIsWhole'
  BY DEF Inv, TypeOK, MarkedIsWhole, Goto
<1>6. OneUnpacks'
  BY PosixFaults DEF Inv, TypeOK, OneUnpacks, Goto, Unpacking
<1>7. QED
  BY <1>1, <1>2, <1>3, <1>4, <1>5, <1>6 DEF Inv

(* A signal that is trapped: the trees and the lock go, the text goes on.  *)
LEMMA SignalStep == ASSUME Inv, NEW l \in Launches, Signal(l) PROVE Inv'
<1>0. signals' \in signals .. MaxSignals /\ signals' # 0
  BY PosixFaults DEF Signal, Inv, TypeOK
<1>1. CASE l \notin trapped
  <2>1. Goto(l, "killed") /\ UNCHANGED <<cache, lock, temp, trapped>>
    BY <1>1 DEF Signal, RunTrap
  <2>2. QED
    BY <1>0, <2>1, KilledStep
<1>2. CASE l \in trapped
  <2>1. /\ UNCHANGED <<cache, trapped, pc>>
        /\ temp' = [temp EXCEPT ![l] = Nothing]
        /\ lock' = FALSE
    BY <1>2 DEF Signal, RunTrap
  <2>2. TypeOK'
    <3>1. temp' \in [Launches -> Trees]
      BY <2>1, MadeTrees DEF Inv, TypeOK
    <3>2. signals' \in 0 .. MaxSignals
      BY <1>0, PosixFaults DEF Inv, TypeOK
    <3>3. QED
      BY <2>1, <3>1, <3>2 DEF Inv, TypeOK
  <2>3. Trapped' /\ LockIsSomebodys' /\ OneUnpacks'
    BY <1>0, <2>1 DEF Inv, Trapped, LockIsSomebodys, OneUnpacks
  <2>4. UntarredIsWhole' /\ MarkedIsWhole'
    BY <2>1, MadeTrees DEF Inv, TypeOK, UntarredIsWhole, MarkedIsWhole
  <2>5. QED
    BY <2>2, <2>3, <2>4 DEF Inv
<1>3. QED
  BY <1>1, <1>2

-----------------------------------------------------------------------------
LEMMA NextInv == ASSUME Inv, [Next]_vars PROVE Inv'
<1>1. CASE UNCHANGED vars
  BY <1>1 DEF vars, Inv, TypeOK, Trapped, LockIsSomebodys, UntarredIsWhole, MarkedIsWhole, OneUnpacks
<1>2. ASSUME NEW l \in Launches, Begin(l) \/ Probe(l) \/ Await(l) \/ ClearTrap(l) \/ Exec(l)
      PROVE  Inv'
  <2> DEFINE There == {"probe", "exec", "lock", "running", "lost"}
  <2>1. \E there \in There : Goto(l, there)
    BY <1>2 DEF Begin, Probe, Await, ClearTrap, Exec
  <2>2. /\ pc[l] \notin Unpacking \cup Settled
        /\ UNCHANGED <<cache, lock, temp, signals>>
        /\ trapped' \in {trapped, trapped \ {l}}
    BY <1>2 DEF Begin, Probe, Await, ClearTrap, Exec, Unpacking, Settled
  <2>3. There \subseteq Places \ Unpacking
    BY DEF Places, Settled, Unpacking
  <2>4. QED
    BY <2>1, <2>2, <2>3, IdleStep
<1>3. ASSUME NEW l \in Launches, MakeLock(l) PROVE Inv'
  <2>1. CASE lock
    <3>1. Goto(l, "await") /\ lock' = lock /\ UNCHANGED <<cache, temp, trapped, signals>>
      BY <1>3, <2>1 DEF MakeLock
    <3>2. "await" \in Places \ Unpacking /\ pc[l] \notin Unpacking \cup Settled
      BY <1>3 DEF MakeLock, Places, Unpacking, Settled
    <3>3. QED
      BY <3>1, <3>2, IdleStep
  <2>2. CASE ~lock
    <3>1. /\ pc' = [pc EXCEPT ![l] = "trap"] /\ lock' = TRUE
          /\ pc[l] = "lock" /\ UNCHANGED <<cache, temp, trapped, signals>>
      BY <1>3, <2>2 DEF MakeLock, Goto
    <3>2. TypeOK'
      BY <3>1 DEF Inv, TypeOK, Places, Unpacking
    <3>3. Trapped'
      BY <3>1 DEF Inv, TypeOK, Trapped
    <3>4. LockIsSomebodys'
      BY <3>1 DEF Inv, TypeOK, LockIsSomebodys, Unpacking
    <3>5. UntarredIsWhole' /\ MarkedIsWhole'
      BY <3>1 DEF Inv, TypeOK, UntarredIsWhole, MarkedIsWhole
    <3>6. OneUnpacks'
      <4>1. signals = 0 => \A k \in Launches : pc[k] \notin Unpacking
        BY <2>2 DEF Inv, OneUnpacks
      <4>2. QED
        BY <3>1, <4>1 DEF Inv, TypeOK, OneUnpacks
    <3>7. QED
      BY <3>2, <3>3, <3>4, <3>5, <3>6 DEF Inv
  <2>3. QED
    BY <2>1, <2>2
<1>4. ASSUME NEW l \in Launches, SetTrap(l) \/ Prepare(l) \/ Purge(l) \/ Purged(l)
      PROVE  Inv'
  <2>0. /\ cache \in Trees /\ temp \in [Launches -> Trees] /\ temp[l] \in Trees
        /\ cache.mark => cache.files \in {"all", "left"}
    BY DEF Inv, TypeOK, MarkedIsWhole
  <2>1. CASE SetTrap(l)
    <3>1. temp' = [temp EXCEPT ![l] = temp[l]]
      BY <2>0, <2>1 DEF SetTrap
    <3>2. (temp[l].mark => temp[l].files = "all") /\ temp[l].files # "left"
      BY DEF Inv, UntarredIsWhole
    <3>3. pc[l] \in Unpacking /\ Goto(l, "prepare") /\ "prepare" \in Unpacking
      BY <2>1 DEF SetTrap, Unpacking
    <3>4. UNCHANGED <<cache, lock, signals>> /\ trapped' = trapped \cup {l} /\ pc[l] = "trap"
      BY <2>1 DEF SetTrap
    <3>5. QED
      BY <2>0, <3>1, <3>2, <3>3, <3>4, UnpackingStep
  <2>2. CASE Prepare(l)
    <3>1. temp' = [temp EXCEPT ![l] = Tree("some", FALSE)]
      BY <2>2 DEF Prepare
    <3>2. pc[l] \in Unpacking /\ Goto(l, "untar") /\ "untar" \in Unpacking
      BY <2>2 DEF Prepare, Unpacking
    <3>3. UNCHANGED <<cache, lock, signals>> /\ trapped' = trapped /\ pc[l] = "prepare"
      BY <2>2 DEF Prepare
    <3>4. QED
      BY <2>0, <3>1, <3>2, <3>3, MadeTrees, UnpackingStep
  <2>3. CASE Purge(l)
    <3>1. /\ temp' = [temp EXCEPT ![l] = temp[l]]
          /\ UNCHANGED <<lock, signals>> /\ trapped' = trapped /\ pc[l] = "purge"
      BY <2>0, <2>3 DEF Purge
    <3>2. (temp[l].mark => temp[l].files = "all") /\ temp[l].files # "left"
      BY DEF Inv, UntarredIsWhole
    <3>3. pc[l] \in Unpacking /\ Goto(l, "purging") /\ "purging" \in Unpacking
      BY <2>3 DEF Purge, Unpacking
    <3>4. cache' \in Trees /\ (cache'.mark => cache'.files \in {"all", "left"})
      <4>1. CASE cache.files = "none"
        BY <2>0, <2>3, <4>1 DEF Purge
      <4>2. CASE cache.files # "none"
        <5>1. PICK m \in {cache.mark, FALSE} : cache' = Tree("left", m)
          BY <2>3, <4>2 DEF Purge
        <5>2. m \in BOOLEAN
          BY <2>0, TreeParts
        <5>3. QED
          BY <5>1, <5>2, MadeTrees
      <4>3. QED
        BY <4>1, <4>2
    <3>5. QED
      BY <2>0, <3>1, <3>2, <3>3, <3>4, UnpackingStep
  <2>4. CASE Purged(l)
    <3>1. /\ temp' = [temp EXCEPT ![l] = temp[l]]
          /\ UNCHANGED <<lock, signals>> /\ trapped' = trapped /\ pc[l] = "purging"
      BY <2>0, <2>4 DEF Purged
    <3>2. (temp[l].mark => temp[l].files = "all") /\ temp[l].files # "left"
      BY DEF Inv, UntarredIsWhole
    <3>3. pc[l] \in Unpacking /\ Goto(l, "move") /\ "move" \in Unpacking
      BY <2>4 DEF Purged, Unpacking
    <3>4. cache' \in Trees /\ ~cache'.mark /\ cache'.files = "none"
      BY <2>4, MadeTrees DEF Purged
    <3>5. QED
      BY <2>0, <3>1, <3>2, <3>3, <3>4, UnpackingStep
  <2>5. QED
    BY <1>4, <2>1, <2>2, <2>3, <2>4
<1>5. ASSUME NEW l \in Launches, Untar(l) PROVE Inv'
  <2>0. /\ temp \in [Launches -> Trees] /\ temp[l] \in Trees /\ cache \in Trees
        /\ cache.mark => cache.files \in {"all", "left"}
    BY DEF Inv, TypeOK, MarkedIsWhole
  <2>1. CASE temp[l].files = "none"
    BY <1>5, <2>1, ExitStep DEF Untar, Unpacking
  <2>2. CASE temp[l].files # "none"
    <3> DEFINE tree == [temp[l] EXCEPT !.files = "all"]
    <3>0. temp' = [temp EXCEPT ![l] = tree]
      BY <1>5, <2>2 DEF Untar
    <3>1. tree \in Trees /\ tree.files = "all"
      BY <2>0, TreeParts
    <3> HIDE DEF tree
    <3>2. pc[l] \in Unpacking /\ Goto(l, "mark") /\ "mark" \in Unpacking
      BY <1>5, <2>2 DEF Untar, Unpacking
    <3>3. UNCHANGED <<cache, lock, signals>> /\ trapped' = trapped /\ pc[l] = "untar"
      BY <1>5, <2>2 DEF Untar
    <3>4. QED
      BY <2>0, <3>0, <3>1, <3>2, <3>3, UnpackingStep
  <2>3. QED
    BY <2>1, <2>2
<1>6. ASSUME NEW l \in Launches, Mark(l) PROVE Inv'
  <2>0. /\ temp \in [Launches -> Trees] /\ temp[l] \in Trees /\ cache \in Trees
        /\ cache.mark => cache.files \in {"all", "left"}
    BY DEF Inv, TypeOK, MarkedIsWhole
  <2>1. CASE temp[l].files = "none"
    BY <1>6, <2>1, ExitStep DEF Mark, Unpacking
  <2>2. CASE temp[l].files # "none"
    <3>1. temp[l].files = "all"
      BY <1>6, <2>2 DEF Inv, UntarredIsWhole, Mark
    <3> DEFINE tree == [temp[l] EXCEPT !.mark = TRUE]
    <3>0. temp' = [temp EXCEPT ![l] = tree]
      BY <1>6, <2>2 DEF Mark
    <3>2. tree \in Trees /\ tree.files = "all"
      BY <2>0, <3>1, TreeParts
    <3> HIDE DEF tree
    <3>3. pc[l] \in Unpacking /\ Goto(l, "purge") /\ "purge" \in Unpacking
      BY <1>6, <2>2 DEF Mark, Unpacking
    <3>4. UNCHANGED <<cache, lock, signals>> /\ trapped' = trapped /\ pc[l] = "mark"
      BY <1>6, <2>2 DEF Mark
    <3>5. QED
      BY <2>0, <3>0, <3>2, <3>3, <3>4, UnpackingStep
  <2>3. QED
    BY <2>1, <2>2
<1>7. ASSUME NEW l \in Launches, Move(l) PROVE Inv'
  <2>0. /\ temp \in [Launches -> Trees] /\ temp[l] \in Trees /\ cache \in Trees
        /\ cache.mark => cache.files \in {"all", "left"}
    BY DEF Inv, TypeOK, MarkedIsWhole
  <2>1. CASE temp[l].files = "none"
    BY <1>7, <2>1, ExitStep DEF Move, Unpacking
  <2>2. CASE temp[l].files # "none"
    <3>1. (temp[l].mark => temp[l].files = "all") /\ temp[l].files # "left"
      BY DEF Inv, UntarredIsWhole
    <3>2. temp' = [temp EXCEPT ![l] = Nothing] /\ cache' \in {temp[l], cache}
      BY <1>7, <2>2 DEF Move
    <3>3. pc[l] \in Unpacking /\ Goto(l, "unlock") /\ "unlock" \in Unpacking
      BY <1>7, <2>2 DEF Move, Unpacking
    <3>4. UNCHANGED <<lock, signals>> /\ trapped' = trapped /\ pc[l] = "move"
      BY <1>7, <2>2 DEF Move
    <3>5. QED
      BY <2>0, <3>1, <3>2, <3>3, <3>4, MadeTrees, UnpackingStep
  <2>3. QED
    BY <2>1, <2>2
<1>8. ASSUME NEW l \in Launches, Unlock(l) PROVE Inv'
  <2>1. CASE ~lock
    BY <1>8, <2>1, ExitStep DEF Unlock, Unpacking
  <2>2. CASE lock
    <3>1. /\ pc' = [pc EXCEPT ![l] = "untrap"] /\ lock' = FALSE
          /\ pc[l] = "unlock" /\ UNCHANGED <<cache, temp, trapped, signals>>
      BY <1>8, <2>2 DEF Unlock, Goto
    <3>2. TypeOK'
      BY <3>1 DEF Inv, TypeOK, Places
    <3>3. Trapped' /\ LockIsSomebodys'
      BY <3>1 DEF Inv, TypeOK, Trapped, LockIsSomebodys, Unpacking
    <3>4. UntarredIsWhole' /\ MarkedIsWhole'
      BY <3>1 DEF Inv, TypeOK, UntarredIsWhole, MarkedIsWhole
    <3>5. OneUnpacks'
      <4>1. signals = 0 => \A k \in Launches : pc'[k] \notin Unpacking
        BY <3>1 DEF Inv, TypeOK, OneUnpacks, Unpacking
      <4>2. QED
        BY <3>1, <4>1 DEF OneUnpacks
    <3>6. QED
      BY <3>2, <3>3, <3>4, <3>5 DEF Inv
  <2>3. QED
    BY <2>1, <2>2
<1>9. ASSUME NEW l \in Launches, Die(l) PROVE Inv'
  <2>1. signals' \in signals .. MaxSignals
    BY <1>9, PosixFaults DEF Die, Inv, TypeOK
  <2>2. QED
    BY <1>9, <2>1, KilledStep DEF Die
<1>10. ASSUME NEW l \in Launches, CommandFails(l) PROVE Inv'
  BY <1>10, ExitStep DEF CommandFails, Unpacking
<1>11. QED
  BY <1>1, <1>2, <1>3, <1>4, <1>5, <1>6, <1>7, <1>8, <1>9, <1>10, SignalStep DEF Next, Step

LEMMA Invariance == Spec => []Inv
<1>1. Init => Inv
  BY InitInv
<1>2. Inv /\ [Next]_vars => Inv'
  BY NextInv
<1>3. QED
  BY <1>1, <1>2, PTL DEF Spec

(* The trees, traps and places of the launches are what the text can make. *)
THEOREM TypesHold == Spec => []TypeOK
BY Invariance, PTL DEF Inv

(* Until a signal arrives one launch at most is between its mkdir and its  *)
(* rmdir of the lock, whatever fails and whoever is killed.                *)
THEOREM OneUnpacksHolds == Spec => []OneUnpacks
BY Invariance, PTL DEF Inv

(* A lock that is there belongs to a launch that is unpacking, or to one   *)
(* that was killed: no failing command and no signal leaves one over.      *)
THEOREM LockIsSomebodysHolds == Spec => []LockIsSomebodys
BY Invariance, PTL DEF Inv

(* A marked temporary is whole; a marked cache is whole, or is what a      *)
(* removal that is under way, failed or was killed has left of one.        *)
THEOREM MarkedIsWholeHolds == Spec => []MarkedIsWhole
BY Invariance, PTL DEF Inv
=============================================================================
