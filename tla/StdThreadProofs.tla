--------------------------- MODULE StdThreadProofs ---------------------------
(***************************************************************************)
(* What holds of StdThread for any number of threads and turns, where a    *)
(* long is as wide as what is exchanged.                                   *)
(*                                                                         *)
(* MutualExclusion is not inductive: that an exchange answers zero must    *)
(* mean that nobody is inside (HeldByOwner), and that a destructor unlocks *)
(* that its own thread is (OwnsInside).  NothingLost needs in addition     *)
(* that what a thread has read is what is there still (SeenIsThere), and   *)
(* JoinedHasRun that a handle is missing only of what never began          *)
(* (HandleOfBegun).  The types need that only a thread with a turn left is *)
(* at the mutex (InTurn).                                                  *)
(***************************************************************************)
EXTENDS StdThread, TLAPS

OwnsInside == \A t \in Threads : owns[t] <=> at[t] \in Critical
HeldByOwner == held = 0 <=> \A t \in Threads : at[t] \notin Critical
SeenIsThere == \A t \in Threads : at[t] = "read" => seen[t] = counted
HandleOfBegun == \A t \in Threads :
                   /\ asked[t] = "nothing" => at[t] = "unborn"
                   /\ asked[t] = "start" /\ ~handle[t] => at[t] = "unborn"

InTurn == \A t \in Threads :
            at[t] \in Critical \cup {"spinning", "outside", "respinning"} => turn[t] < Turns

Exclusive == OwnsInside /\ HeldByOwner /\ MutualExclusion
Kept == NothingLost /\ SeenIsThere
Joined == HandleOfBegun /\ JoinedHasRun
IInv == TypeOK /\ InTurn /\ Exclusive /\ Kept /\ Joined

-----------------------------------------------------------------------------
LEMMA Initially == Init => IInv
BY TurnsAssumption
   DEF Init, IInv, TypeOK, InTurn, Places, Critical, Exclusive, OwnsInside, HeldByOwner,
       MutualExclusion, Kept, NothingLost, SeenIsThere, Joined, HandleOfBegun, JoinedHasRun

(* Each step keeps the types.                                              *)
LEMMA TypesKept == ASSUME TypeOK, InTurn, [Next]_vars PROVE TypeOK'
<1>0. ASSUME NEW t \in Threads, Thread(t) PROVE TypeOK'
  <2>1. CASE Lock(t)
    BY <2>1 DEF Lock, TypeOK, Places, Critical, Exchange, Goes, Owns
  <2>2. CASE TryLock(t)
    <3>1. turn' = turn \/ turn' = [turn EXCEPT ![t] = turn[t] + 1]
      BY <2>2 DEF TryLock, EndsTurn
    <3>2. turn[t] + 1 \in 0 .. Turns
      BY <2>2, TurnsAssumption DEF TryLock, TypeOK
    <3>3. turn' \in [Threads -> 0 .. Turns]
      BY <3>1, <3>2 DEF TypeOK
    <3>4. at' \in [Threads -> Places] /\ owns' \in [Threads -> BOOLEAN]
      BY <2>2 DEF TryLock, TypeOK, Places, Critical, Goes, Owns
    <3>5. held' \in {0, 1} /\ counted' \in Nat
      BY <2>2 DEF TryLock, TypeOK, Exchange
    <3> QED BY <2>2, <3>3, <3>4, <3>5 DEF TryLock, TypeOK
  <2>3. CASE Read(t)
    BY <2>3 DEF Read, TypeOK, Places, Critical, Goes
  <2>4. CASE Write(t)
    BY <2>4 DEF Write, TypeOK, Places, Critical, Goes
  <2>5. CASE Unlock(t)
    BY <2>5 DEF Unlock, TypeOK, Places, Critical, Exchange, Goes, Owns
  <2>6. CASE Relock(t)
    BY <2>6 DEF Relock, TypeOK, Places, Critical, Exchange, Goes, Owns
  <2>7. CASE Leave(t)
    <3>1. turn[t] < Turns
      BY <2>7 DEF Leave, InTurn, Critical
    <3>2. turn' \in [Threads -> 0 .. Turns]
      BY <2>7, <3>1, TurnsAssumption DEF Leave, TypeOK, EndsTurn
    <3>3. at' \in [Threads -> Places] /\ owns' \in [Threads -> BOOLEAN]
      BY <2>7 DEF Leave, TypeOK, Places, Critical, Goes, Owns
    <3>4. held' \in {0, 1} /\ counted' \in Nat
      BY <2>7 DEF Leave, TypeOK, Exchange
    <3> QED BY <2>7, <3>2, <3>3, <3>4 DEF Leave, TypeOK
  <2>8. CASE Finish(t)
    BY <2>8 DEF Finish, TypeOK, Places, Critical, Goes
  <2> QED BY <1>0, <2>1, <2>2, <2>3, <2>4, <2>5, <2>6, <2>7, <2>8 DEF Thread
<1>1. ASSUME NEW t \in Threads, Main(t) PROVE TypeOK'
  BY <1>1 DEF Main, Start, StartRefused, Join, Detach, TypeOK, Places, Critical, Goes
<1>2. CASE UNCHANGED vars
  BY <1>2 DEF vars, TypeOK
<1> QED BY <1>0, <1>1, <1>2 DEF Next

LEMMA TurnsKept == ASSUME TypeOK, InTurn, [Next]_vars PROVE InTurn'
<1> USE DEF TypeOK, InTurn, Critical
<1>0. ASSUME NEW t \in Threads, Thread(t) PROVE InTurn'
  BY <1>0 DEF Thread, Lock, TryLock, Read, Write, Unlock, Relock, Leave, Finish,
              From, Goes, EndsTurn
<1>1. ASSUME NEW t \in Threads, Main(t) PROVE InTurn'
  BY <1>1 DEF Main, Start, StartRefused, Join, Detach, Goes
<1>2. CASE UNCHANGED vars
  BY <1>2 DEF vars
<1> QED BY <1>0, <1>1, <1>2 DEF Next

-----------------------------------------------------------------------------
(* Each step keeps the mutex to one thread, and what it guards.            *)
LEMMA ExclusiveKept ==
  ASSUME ~Narrow, TypeOK, Exclusive, Joined, [Next]_vars PROVE Exclusive'
<1> USE DEF Exclusive, OwnsInside, HeldByOwner, MutualExclusion, TypeOK
<1>0. ASSUME NEW t \in Threads, Thread(t) PROVE Exclusive'
  <2>1. CASE Lock(t)
    BY <2>1 DEF Lock, Critical, Exchange, AnswersZero, Goes, Owns
  <2>2. CASE TryLock(t)
    BY <2>2 DEF TryLock, From, Critical, Exchange, AnswersZero, Goes, Owns
  <2>3. CASE Read(t)
    BY <2>3 DEF Read, From, Critical, Goes
  <2>4. CASE Write(t)
    BY <2>4 DEF Write, From, Critical, Goes
  <2>5. CASE Unlock(t)
    BY <2>5 DEF Unlock, From, Critical, Exchange, Goes, Owns
  <2>6. CASE Relock(t)
    BY <2>6 DEF Relock, From, Critical, Exchange, AnswersZero, Goes, Owns
  <2>7. CASE Leave(t)
    BY <2>7 DEF Leave, Critical, Exchange, Goes, Owns
  <2>8. CASE Finish(t)
    BY <2>8 DEF Finish, From, Critical, Goes
  <2> QED BY <1>0, <2>1, <2>2, <2>3, <2>4, <2>5, <2>6, <2>7, <2>8 DEF Thread
<1>1. ASSUME NEW t \in Threads, Main(t) PROVE Exclusive'
  BY <1>1 DEF Main, Start, StartRefused, Join, Detach, Critical, Goes, Joined, HandleOfBegun
<1>2. CASE UNCHANGED vars
  BY <1>2 DEF vars
<1> QED BY <1>0, <1>1, <1>2 DEF Next

LEMMA KeptKept ==
  ASSUME ~Narrow, TypeOK, Exclusive, Kept, Joined, [Next]_vars PROVE Kept'
<1> USE DEF Kept, NothingLost, SeenIsThere, TypeOK
<1>0. ASSUME NEW t \in Threads, Thread(t) PROVE Kept'
  <2>1. CASE Write(t)
    BY <2>1 DEF Write, From, Goes, Exclusive, MutualExclusion, Critical
  <2>2. CASE Read(t)
    BY <2>2 DEF Read, From, Goes
  <2>3. CASE Lock(t) \/ TryLock(t) \/ Unlock(t) \/ Relock(t) \/ Leave(t) \/ Finish(t)
    BY <2>3 DEF Lock, TryLock, Unlock, Relock, Leave, Finish, Exchange, Goes
  <2> QED BY <1>0, <2>1, <2>2, <2>3 DEF Thread
<1>1. ASSUME NEW t \in Threads, Main(t) PROVE Kept'
  BY <1>1 DEF Main, Start, StartRefused, Join, Detach, Goes
<1>2. CASE UNCHANGED vars
  BY <1>2 DEF vars
<1> QED BY <1>0, <1>1, <1>2 DEF Next

LEMMA JoinedKept == ASSUME TypeOK, Joined, [Next]_vars PROVE Joined'
<1> USE DEF Joined, HandleOfBegun, JoinedHasRun, TypeOK
<1>0. ASSUME NEW t \in Threads, Thread(t) PROVE Joined'
  BY <1>0 DEF Thread, Lock, TryLock, Read, Write, Unlock, Relock, Leave, Finish, From, Goes
<1>1. ASSUME NEW t \in Threads, Main(t) PROVE Joined'
  BY <1>1 DEF Main, Start, StartRefused, Join, Detach, Goes
<1>2. CASE UNCHANGED vars
  BY <1>2 DEF vars
<1> QED BY <1>0, <1>1, <1>2 DEF Next
-----------------------------------------------------------------------------
LEMMA Inductive == ASSUME ~Narrow, IInv, [Next]_vars PROVE IInv'
BY TypesKept, TurnsKept, ExclusiveKept, KeptKept, JoinedKept DEF IInv

THEOREM Invariance == ASSUME ~Narrow PROVE Spec => []IInv
BY Initially, Inductive, PTL DEF Spec

(* Every variable keeps its type, for any number of threads and turns.     *)
THEOREM TypesHold == ASSUME ~Narrow PROVE Spec => []TypeOK
<1>1. IInv => TypeOK
  BY DEF IInv
<1> QED BY Invariance, <1>1, PTL

(* Two threads are never between a lock and its unlock at once.            *)
THEOREM MutualExclusionHolds == ASSUME ~Narrow PROVE Spec => []MutualExclusion
<1>1. IInv => MutualExclusion
  BY DEF IInv, Exclusive
<1> QED BY Invariance, <1>1, PTL

(* The member the mutex guards keeps all that was added to it.             *)
THEOREM NothingLostHolds == ASSUME ~Narrow PROVE Spec => []NothingLost
<1>1. IInv => NothingLost
  BY DEF IInv, Kept
<1> QED BY Invariance, <1>1, PTL

(* A thread that was joined has run, or never began.                       *)
THEOREM JoinedHasRunHolds == ASSUME ~Narrow PROVE Spec => []JoinedHasRun
<1>1. IInv => JoinedHasRun
  BY DEF IInv, Joined
<1> QED BY Invariance, <1>1, PTL

-----------------------------------------------------------------------------
(* The word is zero while nobody owns the mutex, and nobody owns it twice. *)
WordAndOwners ==
  /\ held = 0 <=> \A t \in Threads : ~owns[t]
  /\ \A t, u \in Threads : owns[t] /\ owns[u] => t = u

(* Each step of the threads is a step of the mutex, or none.               *)
LEMMA StepImplements ==
  ASSUME IInv, IInv', [Next]_vars PROVE [Abstract!Next]_(Abstract!vars)
<1>1. /\ WordAndOwners /\ WordAndOwners'
      /\ held \in {0, 1} /\ held' \in {0, 1}
      /\ owns \in [Threads -> BOOLEAN] /\ owns' \in [Threads -> BOOLEAN]
  BY DEF IInv, TypeOK, Exclusive, OwnsInside, HeldByOwner, MutualExclusion, WordAndOwners
<1>2. ASSUME UNCHANGED owns PROVE UNCHANGED Abstract!vars
  <2>1. held' = held
    BY <1>1, <1>2 DEF WordAndOwners
  <2> QED BY <1>2, <2>1 DEF Abstract!vars
<1>3. ASSUME NEW t \in Threads, ~owns[t], owns'[t], \A u \in Threads : u # t => owns'[u] = owns[u]
      PROVE  Abstract!Acquire(t)
  <2>1. \A u \in Threads : ~owns[u] /\ (owns'[u] <=> u = t)
    BY <1>1, <1>3 DEF WordAndOwners
  <2>2. held = 0 /\ held' # 0
    BY <1>1, <2>1 DEF WordAndOwners
  <2>3. {u \in Threads : owns[u]} = {} /\ {u \in Threads : owns'[u]} = {t}
    BY <2>1
  <2> QED BY <2>2, <2>3 DEF Abstract!Acquire
<1>4. ASSUME NEW t \in Threads, owns[t], ~owns'[t], \A u \in Threads : u # t => owns'[u] = owns[u]
      PROVE  Abstract!Release(t)
  <2>1. \A u \in Threads : ~owns'[u] /\ (owns[u] <=> u = t)
    BY <1>1, <1>4 DEF WordAndOwners
  <2>2. held # 0 /\ held' = 0
    BY <1>1, <2>1 DEF WordAndOwners
  <2>3. {u \in Threads : owns[u]} = {t} /\ {u \in Threads : owns'[u]} = {}
    BY <2>1
  <2> QED BY <2>2, <2>3 DEF Abstract!Release
<1>5. ASSUME NEW t \in Threads, Thread(t) \/ Main(t)
      PROVE  [Abstract!Next]_(Abstract!vars)
  <2>1. \A u \in Threads : u # t => owns'[u] = owns[u]
    BY <1>1, <1>5 DEF Thread, Lock, TryLock, Read, Write, Unlock, Relock, Leave, Finish,
                      Main, Start, StartRefused, Join, Detach, Owns
  <2>2. CASE owns'[t] = owns[t]
    BY <1>1, <1>2, <2>1, <2>2
  <2>3. CASE ~owns[t] /\ owns'[t]
    BY <1>3, <2>1, <2>3 DEF Abstract!Next
  <2>4. CASE owns[t] /\ ~owns'[t]
    BY <1>4, <2>1, <2>4 DEF Abstract!Next
  <2> QED BY <1>1, <2>2, <2>3, <2>4
<1>6. CASE UNCHANGED vars
  BY <1>2, <1>6 DEF vars
<1> QED BY <1>5, <1>6 DEF Next

(* The word and the locks over it implement what a mutex promises: the     *)
(* safety half of the refinement, for any number of threads and turns.     *)
THEOREM Implements == ASSUME ~Narrow PROVE Spec => IsAMutex
<1>1. Init => Abstract!Init
  BY DEF Init, Abstract!Init
<1> QED BY Invariance, StepImplements, <1>1, PTL DEF Spec, IsAMutex, Abstract!Spec

=============================================================================
