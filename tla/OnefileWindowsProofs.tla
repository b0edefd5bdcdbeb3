------------------------ MODULE OnefileWindowsProofs ------------------------
(***************************************************************************)
(* For any number of launches, process identifiers, failures and kills:    *)
(* one launch unpacks at a time, what is marked is whole and stays, and    *)
(* the launches implement ContentCache.                                    *)
(*                                                                         *)
(* The argument: the owner of the mutex is the launch between the wait and *)
(* the release, it alone touches temporaries and cache, and it only gets   *)
(* to do so while the cache is not marked.                                 *)
(***************************************************************************)
EXTENDS OnefileWindows, TLAPS

Whole == Tree("all", TRUE)

OwnerIsInside == \A l \in Launches : owner = l <=> pc[l] \in Locked

TempIsBuilt ==
  \A l \in Launches : /\ pc[l] = "mark" => temp[pid[l]].files = "all"
                      /\ pc[l] \in {"clear", "move"} => temp[pid[l]] = Whole

UnpacksUnmarked == \A l \in Launches : pc[l] \in Unpacking => ~cache.mark

ShownMarked ==
  \A l \in Launches : pc[l] \in {"release", "launch", "running"} => cache.mark

IInv == /\ TypeOK
        /\ OwnerIsInside
        /\ TempIsBuilt
        /\ UnpacksUnmarked
        /\ ShownMarked
        /\ cache.mark => cache.files = "all"

-----------------------------------------------------------------------------
(* The owner being the one inside, two launches inside are one.            *)
LEMMA InsideIsOne ==
  ASSUME OwnerIsInside
  PROVE  OneUnpacks
<1> SUFFICES ASSUME NEW k \in Launches, NEW l \in Launches,
                    pc[k] \in Locked, pc[l] \in Locked
             PROVE  k = l
  BY DEF OneUnpacks
<1>1. owner = k /\ owner = l
  BY DEF OwnerIsInside
<1>2. QED
  BY <1>1

(* The trees the launcher makes.                                           *)
LEMMA MadeTrees ==
  /\ Nothing \in Trees /\ ~Nothing.mark
  /\ Tree("some", FALSE) \in Trees /\ ~Tree("some", FALSE).mark
  /\ Whole \in Trees /\ Whole.mark /\ Whole.files = "all"
<1>1. [files |-> "none", mark |-> FALSE] \in Trees
  BY DEF Trees
<1>2. [files |-> "some", mark |-> FALSE] \in Trees
  BY DEF Trees
<1>3. [files |-> "all", mark |-> TRUE] \in Trees
  BY DEF Trees
<1>4. QED
  BY <1>1, <1>2, <1>3 DEF Nothing, Whole, Tree

(* Every launch starts outside, with a cache that is not marked.           *)
LEMMA InitIInv == Init => IInv
<1> SUFFICES ASSUME Init PROVE IInv
  OBVIOUS
<1>1. TypeOK
  <2>1. cache \in Trees /\ temp \in [Pids -> Trees]
    BY MadeTrees DEF Init
  <2>2. pc \in [Launches -> Places]
    BY DEF Init, Places
  <2>3. QED
    BY <2>1, <2>2 DEF Init, TypeOK
<1>2. OwnerIsInside
  BY NoOneAssumption DEF Init, OwnerIsInside, Locked, Unpacking
<1>3. TempIsBuilt /\ UnpacksUnmarked /\ ShownMarked
  BY DEF Init, TempIsBuilt, UnpacksUnmarked, ShownMarked, Unpacking
<1>4. ~cache.mark
  BY MadeTrees DEF Init
<1>5. QED
  BY <1>1, <1>2, <1>3, <1>4 DEF IInv

-----------------------------------------------------------------------------
(* A step of a launch between places outside the mutex, that leaves the    *)
(* files alone, keeps the invariant.                                       *)
LEMMA OutsideStep ==
  ASSUME IInv, NEW l \in Launches, NEW there \in Places \ Locked,
         pc[l] \notin Locked, Goto(l, there),
         there \in {"launch", "running"} => cache.mark,
         UNCHANGED <<cache, temp, owner, pid>>,
         abandoned' \in BOOLEAN, handles' \subseteq Launches
  PROVE  IInv'
<1>1. TypeOK'
  BY DEF IInv, TypeOK, Goto
<1>2. OwnerIsInside'
  BY DEF IInv, TypeOK, OwnerIsInside, Goto
<1>3. TempIsBuilt'
  BY DEF IInv, TypeOK, TempIsBuilt, Goto, Locked, Unpacking
<1>4. UnpacksUnmarked' /\ ShownMarked'
  BY DEF IInv, TypeOK, UnpacksUnmarked, ShownMarked, Goto, Locked, Unpacking
<1>5. (cache.mark => cache.files = "all")'
  BY DEF IInv
<1>6. QED
  BY <1>1, <1>2, <1>3, <1>4, <1>5 DEF IInv

(* A launch that leaves the mutex by closing its handle, or never had it,  *)
(* keeps the invariant.                                                    *)
LEMMA LeavingStep ==
  ASSUME IInv, NEW l \in Launches, NEW there \in {"launch", "failed", "killed"},
         NEW byDying \in BOOLEAN, Close(l, byDying), Goto(l, there),
         there = "launch" => cache.mark,
         UNCHANGED <<cache, temp, pid>>
  PROVE  IInv'
<1>1. there \in Places \ Locked
  BY DEF Places, Locked, Unpacking, Settled
<1>2. TypeOK'
  BY <1>1 DEF IInv, TypeOK, Goto, Close
<1>3. OwnerIsInside'
  BY <1>1, NoOneAssumption DEF IInv, TypeOK, OwnerIsInside, Goto, Close
<1>4. TempIsBuilt'
  BY <1>1 DEF IInv, TypeOK, TempIsBuilt, Goto, Locked, Unpacking
<1>5. UnpacksUnmarked' /\ ShownMarked'
  BY <1>1 DEF IInv, TypeOK, UnpacksUnmarked, ShownMarked, Goto, Locked, Unpacking
<1>6. (cache.mark => cache.files = "all")'
  BY DEF IInv
<1>7. QED
  BY <1>2, <1>3, <1>4, <1>5, <1>6 DEF IInv

(* A step of the owner that stays inside: what it does to its temporary    *)
(* and to the cache is its own business, as long as the place it gets to   *)
(* tells the truth about both.                                             *)
LEMMA InsideStep ==
  ASSUME IInv, NEW l \in Launches, NEW there \in Locked,
         pc[l] \in Locked, Goto(l, there),
         UNCHANGED <<owner, abandoned, handles, pid>>,
         cache' \in Trees, temp' \in [Pids -> Trees],
         there = "mark" => temp'[pid[l]].files = "all",
         there \in {"clear", "move"} => temp'[pid[l]] = Whole,
         there \in Unpacking => ~cache'.mark,
         there = "release" => cache'.mark,
         cache.mark => cache'.mark,
         cache'.mark => cache'.files = "all"
  PROVE  IInv'
<1>1. TypeOK'
  BY DEF IInv, TypeOK, Goto, Places
<1>2. OwnerIsInside'
  BY DEF IInv, TypeOK, OwnerIsInside, Goto
<1>3. ASSUME NEW k \in Launches, k # l PROVE pc'[k] = pc[k] /\ pc[k] \notin Locked
  BY <1>3 DEF IInv, TypeOK, OwnerIsInside, Goto
<1>4. pc'[l] = there
  BY DEF IInv, TypeOK, Goto
<1>5. TempIsBuilt'
  BY <1>3, <1>4 DEF TempIsBuilt, Locked, Unpacking
<1>6. UnpacksUnmarked'
  BY <1>3, <1>4 DEF UnpacksUnmarked, Locked
<1>7. ShownMarked'
  BY <1>3, <1>4 DEF IInv, ShownMarked, Locked, Unpacking
<1>8. QED
  BY <1>1, <1>2, <1>5, <1>6, <1>7 DEF IInv

-----------------------------------------------------------------------------
(* Every step keeps the invariant.                                         *)
LEMMA NextIInv == IInv /\ [Next]_vars => IInv'
<1> SUFFICES ASSUME IInv, [Next]_vars PROVE IInv'
  OBVIOUS
<1>1. CASE UNCHANGED vars
  BY <1>1 DEF vars, IInv, TypeOK, OwnerIsInside, TempIsBuilt, UnpacksUnmarked, ShownMarked
<1>2. ASSUME NEW l \in Launches, Begin(l) \/ Probe(l) \/ OpenMutex(l) \/ Launch(l)
      PROVE  IInv'
  <2> DEFINE there == pc'[l]
  <2>1. /\ there \in Places \ Locked
        /\ pc[l] \notin Locked
        /\ Goto(l, there)
        /\ there \in {"launch", "running"} => cache.mark
    BY <1>2 DEF Begin, Probe, OpenMutex, Launch, Goto, IInv, TypeOK, ShownMarked,
                Places, Locked, Unpacking, Settled
  <2>2. /\ UNCHANGED <<cache, temp, owner, pid>>
        /\ abandoned' \in BOOLEAN
        /\ handles' \subseteq Launches
    BY <1>2 DEF Begin, Probe, OpenMutex, Launch, files, mutex, IInv, TypeOK
  <2>3. QED
    BY <2>1, <2>2, OutsideStep
<1>3. ASSUME NEW l \in Launches, WaitOne(l) PROVE IInv'
  <2> USE <1>3 DEF WaitOne, files, Goto
  <2>1. TypeOK'
    BY DEF IInv, TypeOK, Places, Locked
  <2>2. OwnerIsInside'
    BY NoOneAssumption DEF IInv, TypeOK, OwnerIsInside, Locked
  <2>3. TempIsBuilt' /\ UnpacksUnmarked' /\ ShownMarked'
    BY DEF IInv, TypeOK, TempIsBuilt, UnpacksUnmarked, ShownMarked, Unpacking
  <2>4. (cache.mark => cache.files = "all")'
    BY DEF IInv
  <2>5. QED
    BY <2>1, <2>2, <2>3, <2>4 DEF IInv
<1>4. ASSUME NEW l \in Launches, WaitAbandoned(l) PROVE IInv'
  BY <1>4, LeavingStep DEF WaitAbandoned, files
<1>5. ASSUME NEW l \in Launches, Recheck(l) PROVE IInv'
  <2> DEFINE there == IF cache.mark THEN "release" ELSE "prepare"
  <2>1. /\ there \in Locked
        /\ pc[l] \in Locked
        /\ Goto(l, there)
        /\ UNCHANGED <<cache, temp, owner, abandoned, handles, pid>>
    BY <1>5 DEF Recheck, files, mutex, Locked, Unpacking
  <2>2. QED
    BY <2>1, InsideStep DEF IInv, TypeOK, Unpacking
<1>6. ASSUME NEW l \in Launches, Prepare(l) PROVE IInv'
  <2>1. /\ "unpack" \in Locked
        /\ pc[l] \in Locked
        /\ Goto(l, "unpack")
        /\ UNCHANGED <<cache, owner, abandoned, handles, pid>>
        /\ ~cache.mark
    BY <1>6 DEF Prepare, mutex, Locked, Unpacking, IInv, UnpacksUnmarked
  <2>2. temp' \in [Pids -> Trees]
    BY <1>6, MadeTrees DEF Prepare, IInv, TypeOK
  <2>3. QED
    BY <2>1, <2>2, InsideStep DEF IInv, TypeOK
<1>7. ASSUME NEW l \in Launches, Unpack(l) PROVE IInv'
  <2>1. /\ "mark" \in Locked
        /\ pc[l] \in Locked
        /\ Goto(l, "mark")
        /\ UNCHANGED <<cache, owner, abandoned, handles, pid>>
        /\ ~cache.mark
    BY <1>7 DEF Unpack, mutex, Locked, Unpacking, IInv, UnpacksUnmarked
  <2>2. /\ temp' \in [Pids -> Trees]
        /\ temp'[pid[l]].files = "all"
    <3>1. temp[pid[l]].mark \in BOOLEAN /\ pid[l] \in Pids
      BY DEF IInv, TypeOK, Trees
    <3> DEFINE unpacked == Tree("all", temp[pid[l]].mark)
    <3>2. unpacked \in Trees /\ unpacked.files = "all"
      BY <3>1 DEF Tree, Trees
    <3>3. temp' = [temp EXCEPT ![pid[l]] = unpacked]
      BY <1>7 DEF Unpack
    <3> HIDE DEF unpacked
    <3>4. QED
      BY <3>1, <3>2, <3>3 DEF IInv, TypeOK
  <2>3. QED
    BY <2>1, <2>2, InsideStep DEF IInv, TypeOK
<1>8. ASSUME NEW l \in Launches, Mark(l) PROVE IInv'
  <2>1. /\ "clear" \in Locked
        /\ pc[l] \in Locked
        /\ Goto(l, "clear")
        /\ UNCHANGED <<cache, owner, abandoned, handles, pid>>
        /\ ~cache.mark
    BY <1>8 DEF Mark, mutex, Locked, Unpacking, IInv, UnpacksUnmarked
  <2>2. /\ temp' \in [Pids -> Trees]
        /\ temp'[pid[l]] = Whole
    <3>1. pid[l] \in Pids /\ temp[pid[l]].files = "all"
      BY <1>8 DEF Mark, IInv, TypeOK, TempIsBuilt
    <3>2. temp' = [temp EXCEPT ![pid[l]] = Whole]
      BY <1>8, <3>1 DEF Mark, Whole
    <3>3. QED
      BY <3>1, <3>2, MadeTrees DEF IInv, TypeOK
  <2>3. QED
    BY <2>1, <2>2, InsideStep DEF IInv, TypeOK
<1>9. ASSUME NEW l \in Launches, ClearCache(l) PROVE IInv'
  <2>1. /\ "move" \in Locked
        /\ pc[l] \in Locked
        /\ Goto(l, "move")
        /\ UNCHANGED <<temp, owner, abandoned, handles, pid>>
        /\ ~cache.mark
        /\ temp[pid[l]] = Whole
    BY <1>9 DEF ClearCache, mutex, Locked, Unpacking, IInv, UnpacksUnmarked, TempIsBuilt
  <2>2. cache' \in Trees /\ ~cache'.mark
    BY <1>9, MadeTrees DEF ClearCache
  <2>3. QED
    BY <2>1, <2>2, InsideStep DEF IInv, TypeOK
<1>10. ASSUME NEW l \in Launches, Move(l) PROVE IInv'
  <2>1. /\ "release" \in Locked
        /\ pc[l] \in Locked
        /\ Goto(l, "release")
        /\ UNCHANGED <<owner, abandoned, handles, pid>>
        /\ "release" \notin Unpacking
    BY <1>10 DEF Move, mutex, Locked, Unpacking
  <2>2. /\ temp' \in [Pids -> Trees]
        /\ cache' = Whole
    BY <1>10, MadeTrees DEF Move, IInv, TypeOK, TempIsBuilt
  <2>3. cache' \in Trees /\ cache'.mark /\ cache'.files = "all"
    BY <2>2, MadeTrees
  <2>4. QED
    BY <2>1, <2>2, <2>3, InsideStep
<1>11. ASSUME NEW l \in Launches, Release(l) PROVE IInv'
  <2> DEFINE there == IF pc[l] = "release" THEN "launch" ELSE "failed"
  <2>1. /\ there \in {"launch", "failed", "killed"}
        /\ Close(l, FALSE)
        /\ Goto(l, there)
        /\ there = "launch" => cache.mark
        /\ UNCHANGED <<cache, temp, pid>>
    BY <1>11 DEF Release, files, IInv, ShownMarked
  <2>2. QED
    BY <2>1, LeavingStep
<1>12. ASSUME NEW l \in Launches, Fail(l) PROVE IInv'
  <2>1. /\ "giveup" \in Locked
        /\ pc[l] \in Locked
        /\ Goto(l, "giveup")
        /\ UNCHANGED <<temp, owner, abandoned, handles, pid>>
        /\ "giveup" \notin Unpacking
        /\ ~cache.mark
    BY <1>12 DEF Fail, mutex, Locked, Unpacking, IInv, UnpacksUnmarked
  <2>2. cache' \in Trees /\ ~cache'.mark
    <3>1. cache' = cache \/ cache' = Tree("some", FALSE)
      BY <1>12 DEF Fail
    <3>2. QED
      BY <2>1, <3>1, MadeTrees DEF IInv, TypeOK
  <2>3. QED
    BY <2>1, <2>2, InsideStep DEF IInv, TypeOK
<1>13. ASSUME NEW l \in Launches, Die(l) PROVE IInv'
  BY <1>13, LeavingStep DEF Die, files
<1>14. QED
  BY <1>1, <1>2, <1>3, <1>4, <1>5, <1>6, <1>7, <1>8, <1>9, <1>10, <1>11, <1>12, <1>13
     DEF Next, Step

(* The invariant holds in every state that is reached.                     *)
LEMMA AlwaysIInv == Spec => []IInv
BY InitIInv, NextIInv, PTL DEF Spec

-----------------------------------------------------------------------------
(* The state of onefile.py's launches keeps its types.                     *)
THEOREM TypesHold == Spec => []TypeOK
<1>1. IInv => TypeOK
  BY DEF IInv
<1>2. QED
  BY <1>1, AlwaysIInv, PTL

(* onefile.py's mutex keeps two launches from deleting and replacing the   *)
(* cache at once, whoever failed or was killed.                            *)
THEOREM OneUnpacksHolds == Spec => []OneUnpacks
<1>1. IInv => OneUnpacks
  BY InsideIsOne DEF IInv
<1>2. QED
  BY <1>1, AlwaysIInv, PTL

(* onefile.py starts programs from whole caches only.                      *)
THEOREM MarkedIsWholeHolds == Spec => []MarkedIsWhole
<1>1. IInv => MarkedIsWhole
  BY DEF IInv, MarkedIsWhole, ShownMarked
<1>2. QED
  BY <1>1, AlwaysIInv, PTL

(* Only the launch inside the mutex changes the cache, and it found it     *)
(* unmarked under the mutex.                                               *)
LEMMA ChangesUnmarked ==
  ASSUME IInv, Next, cache' # cache
  PROVE  /\ ~cache.mark
         /\ cache' = Whole \/ ~cache'.mark
<1>1. PICK l \in Launches : ClearCache(l) \/ Move(l) \/ Fail(l)
  BY DEF Next, Step, Begin, Probe, OpenMutex, WaitOne, WaitAbandoned, Recheck, Prepare,
         Unpack, Mark, Release, Launch, Die, files
<1>2. ~cache.mark
  BY <1>1 DEF ClearCache, Move, Fail, IInv, UnpacksUnmarked, Unpacking
<1>3. cache' = Whole \/ ~cache'.mark
  BY <1>1, <1>2, MadeTrees DEF ClearCache, Move, Fail, IInv, TempIsBuilt
<1>4. QED
  BY <1>2, <1>3

(* onefile.py never touches a cache once it is published.                  *)
THEOREM PublishedStaysHolds == Spec => PublishedStays
<1>1. IInv /\ [Next]_vars => [cache.mark => cache' = cache]_cache
  BY ChangesUnmarked DEF vars
<1>2. QED
  BY <1>1, AlwaysIInv, PTL DEF Spec, PublishedStays

-----------------------------------------------------------------------------
(* The initial states are ContentCache's.                                  *)
LEMMA InitIsAbstract == Init => Abstract!Init
<1> SUFFICES ASSUME Init PROVE Abstract!Init
  OBVIOUS
<1>1. ~Published
  BY MadeTrees DEF Init, Published, Whole
<1>2. Outcome = [l \in Launches |-> "none"]
  BY DEF Init, Outcome, Told
<1>3. QED
  BY <1>1, <1>2 DEF Abstract!Init

(* A cache is marked when it is published and only then.                   *)
LEMMA MarkedIsPublished ==
  ASSUME NEW t \in Trees, t.mark => t.files = "all"
  PROVE  t.mark <=> t = Tree("all", TRUE)
BY DEF Trees, Tree

(* What became of the others is not changed by a step of one launch.       *)
LEMMA OneOutcome ==
  ASSUME IInv, NEW l \in Launches, NEW there, Goto(l, there)
  PROVE  /\ Outcome' = [Outcome EXCEPT ![l] = Told(there)]
         /\ Outcome[l] = Told(pc[l])
         /\ Told(there) = Told(pc[l]) => Outcome' = Outcome
BY DEF IInv, TypeOK, Goto, Outcome

(* Every step of the launches is a step of ContentCache or changes nothing *)
(* it promises.                                                            *)
LEMMA StepIsAbstract == IInv /\ IInv' /\ [Next]_vars => [Abstract!Next]_(Abstract!vars)
<1> SUFFICES ASSUME IInv, IInv', [Next]_vars PROVE [Abstract!Next]_(Abstract!vars)
  OBVIOUS
<1>0. (cache.mark <=> Published) /\ (cache.mark <=> Published)'
  BY MarkedIsPublished DEF IInv, TypeOK, Published
<1>1. CASE UNCHANGED vars
  BY <1>1 DEF vars, Outcome, Published, Abstract!vars
<1>2. ASSUME NEW l \in Launches,
             \/ Begin(l) \/ Probe(l) \/ OpenMutex(l) \/ WaitOne(l)
             \/ Recheck(l) \/ Prepare(l) \/ Unpack(l) \/ Mark(l)
      PROVE  UNCHANGED Abstract!vars
  <2>1. UNCHANGED Published
    BY <1>2 DEF Begin, Probe, OpenMutex, WaitOne, Recheck, Prepare, Unpack, Mark,
                files, Published
  <2>2. PICK there \in {"launch", "open", "probe", "wait", "recheck", "release", "prepare",
                        "unpack", "mark", "clear"} : Goto(l, there)
    BY <1>2 DEF Begin, Probe, OpenMutex, WaitOne, Recheck, Prepare, Unpack, Mark
  <2>3. Told(there) = "none" /\ Told(pc[l]) = "none"
    BY <1>2 DEF Begin, Probe, OpenMutex, WaitOne, Recheck, Prepare, Unpack, Mark, Told
  <2>4. QED
    BY <2>1, <2>2, <2>3, OneOutcome DEF Abstract!vars
<1>3. ASSUME NEW l \in Launches, ClearCache(l) \/ Fail(l)
      PROVE  UNCHANGED Abstract!vars
  <2>1. ~cache.mark
    BY <1>3 DEF ClearCache, Fail, IInv, UnpacksUnmarked, Unpacking
  <2>2. ~cache'.mark
    BY <1>3, <2>1, MadeTrees DEF ClearCache, Fail
  <2>3. PICK there \in {"move", "giveup"} : Goto(l, there)
    BY <1>3 DEF ClearCache, Fail
  <2>4. Told(there) = "none" /\ Told(pc[l]) = "none"
    BY <1>3 DEF ClearCache, Fail, Unpacking, Told
  <2>5. UNCHANGED Published
    BY <1>0, <2>1, <2>2 DEF Published
  <2>6. QED
    BY <2>3, <2>4, <2>5, OneOutcome DEF Abstract!vars
<1>4. ASSUME NEW l \in Launches, Move(l) PROVE Abstract!Publish
  <2>1. ~Published
    BY <1>0, <1>4 DEF Move, IInv, UnpacksUnmarked, Unpacking
  <2>2. Published'
    BY <1>4 DEF Move, IInv, TempIsBuilt, Published, Whole
  <2>3. Outcome' = Outcome
    BY <1>4, OneOutcome DEF Move, Told
  <2>4. QED
    BY <2>1, <2>2, <2>3 DEF Abstract!Publish
<1>5. ASSUME NEW l \in Launches, WaitAbandoned(l) \/ Die(l)
             \/ (Release(l) /\ pc[l] = "giveup")
      PROVE  Abstract!GiveUp(l)
  <2>1. UNCHANGED Published
    BY <1>5 DEF WaitAbandoned, Die, Release, files, Published
  <2>2. PICK there \in {"failed", "killed"} : Goto(l, there)
    BY <1>5 DEF WaitAbandoned, Die, Release
  <2>3. Told(there) = "failed" /\ Told(pc[l]) = "none"
    BY <1>5 DEF WaitAbandoned, Die, Release, Alive, Settled, Told
  <2>4. QED
    BY <2>1, <2>2, <2>3, OneOutcome DEF Abstract!GiveUp
<1>6. ASSUME NEW l \in Launches, Release(l), pc[l] = "release"
      PROVE  UNCHANGED Abstract!vars
  <2>1. UNCHANGED Published /\ Goto(l, "launch")
    BY <1>6 DEF Release, files, Published
  <2>2. QED
    BY <1>6, <2>1, OneOutcome DEF Told, Abstract!vars
<1>7. ASSUME NEW l \in Launches, Launch(l) PROVE Abstract!Run(l)
  <2>1. cache.mark /\ cache.files # "none"
    BY <1>7 DEF Launch, IInv, ShownMarked
  <2>2. Published /\ UNCHANGED Published /\ Goto(l, "running") /\ pc[l] = "launch"
    BY <1>0, <1>7, <2>1 DEF Launch, files, Published
  <2>3. QED
    BY <2>2, OneOutcome DEF Told, Abstract!Run
<1>8. ASSUME NEW l \in Launches, Release(l)
      PROVE  pc[l] \in {"release", "giveup"}
  BY <1>8 DEF Release
<1>9. QED
  BY <1>1, <1>2, <1>3, <1>4, <1>5, <1>6, <1>7, <1>8 DEF Next, Step, Abstract!Next

(* The launches of onefile.py's Windows program implement ContentCache.    *)
THEOREM Implements == Spec => IsAContentCache
BY InitIsAbstract, StepIsAbstract, AlwaysIInv, PTL DEF Spec, IsAContentCache, Abstract!Spec
=============================================================================
