------------------------------ MODULE StdThread ------------------------------
(***************************************************************************)
(* std::thread, std::mutex and the two locks over it, as py2bin's headers  *)
(* have them (_THREAD_HEADER, _THREADS, _MUTEX_HEADER), in use: an object  *)
(* with a mutex and, next to it, a member the mutex guards; threads that   *)
(* add to that member under a lock_guard, a unique_lock or try_lock; and a *)
(* main thread that starts them and joins or detaches each.                *)
(*                                                                         *)
(* A `long` is the mutex's word.  What is exchanged is always eight bytes  *)
(* (atomic_add_builtin, xchg): Narrow is whether a long is only four of    *)
(* them, as on Windows, and the other four are the member after it.        *)
(***************************************************************************)
EXTENDS Naturals

CONSTANTS Threads,      \* the threads main makes
          Turns,        \* how often each takes the mutex
          Narrow        \* whether the exchange is wider than a long

ASSUME TurnsAssumption == Turns \in Nat
ASSUME NarrowAssumption == Narrow \in BOOLEAN

VARIABLES held,         \* mutex::__held
          counted,      \* the member next to it
          owns,         \* unique_lock::__owns, of each thread's lock
          seen,         \* what a thread has read of the member
          at, turn,     \* where each thread is, and how many turns it has had
          handle,       \* whether thread::__handle is one
          asked,        \* what main has asked of each thread so far
          added         \* how many times a thread has added to the member

vars == <<held, counted, owns, seen, at, turn, handle, asked, added>>

(* Where a thread may touch the member                                     *)
Critical == {"inside", "read", "wrote", "again"}
Places == Critical \cup {"unborn", "idle", "spinning", "outside", "respinning", "done"}

Init == /\ held = 0
        /\ counted = 0
        /\ owns = [t \in Threads |-> FALSE]
        /\ seen = [t \in Threads |-> 0]
        /\ at = [t \in Threads |-> "unborn"]
        /\ turn = [t \in Threads |-> 0]
        /\ handle = [t \in Threads |-> FALSE]
        /\ asked = [t \in Threads |-> "nothing"]
        /\ added = 0

-----------------------------------------------------------------------------
(* What an exchange leaves in memory, and whether it answers zero          *)
Exchange(value) == /\ held' = value
                   /\ counted' = IF Narrow THEN 0 ELSE counted
AnswersZero == held = 0 /\ (Narrow => counted = 0)

From(t, place) == at[t] = place
Goes(t, place) == at' = [at EXCEPT ![t] = place]
Owns(t, whether) == owns' = [owns EXCEPT ![t] = whether]
EndsTurn(t) == turn' = [turn EXCEPT ![t] = @ + 1]

(* One turn of the spin in mutex::lock, from a lock that is being made     *)
Lock(t) == /\ at[t] \in {"idle", "spinning"}
           /\ turn[t] < Turns
           /\ Exchange(1)
           /\ IF AnswersZero THEN Goes(t, "inside") /\ Owns(t, TRUE)
              ELSE Goes(t, "spinning") /\ UNCHANGED owns
           /\ UNCHANGED <<seen, turn, handle, asked, added>>

(* Slip: what was there before is not looked at                            *)
TryLockBlindly(t) ==
  /\ From(t, "idle")
  /\ turn[t] < Turns
  /\ Exchange(1)
  /\ Goes(t, "inside") /\ Owns(t, TRUE)
  /\ UNCHANGED <<seen, turn, handle, asked, added>>

(* mutex::try_lock, by a thread that lets the turn go if it is refused     *)
TryLock(t) == /\ From(t, "idle")
              /\ turn[t] < Turns
              /\ Exchange(1)
              /\ IF AnswersZero THEN Goes(t, "inside") /\ Owns(t, TRUE) /\ UNCHANGED turn
                 ELSE EndsTurn(t) /\ UNCHANGED <<at, owns>>
              /\ UNCHANGED <<seen, handle, asked, added>>

(* What the mutex is for: member += 1 is a read and a write                *)
Read(t) == /\ From(t, "inside")
           /\ seen' = [seen EXCEPT ![t] = counted]
           /\ Goes(t, "read")
           /\ UNCHANGED <<held, counted, owns, turn, handle, asked, added>>

Write(t) == /\ From(t, "read")
            /\ counted' = seen[t] + 1
            /\ added' = added + 1
            /\ Goes(t, "wrote")
            /\ UNCHANGED <<held, owns, seen, turn, handle, asked>>

(* Slip: the lock is said to be given back, and the word is not            *)
UnlockInNameOnly(t) ==
  /\ From(t, "wrote")
  /\ Owns(t, FALSE)
  /\ Goes(t, "outside")
  /\ UNCHANGED <<held, counted, seen, turn, handle, asked, added>>

(* unique_lock::unlock                                                     *)
Unlock(t) == /\ From(t, "wrote")
             /\ Exchange(0)
             /\ Owns(t, FALSE)
             /\ Goes(t, "outside")
             /\ UNCHANGED <<seen, turn, handle, asked, added>>

(* Slip: unique_lock::lock does not say that it owns                       *)
RelockUnowned(t) ==
  /\ at[t] \in {"outside", "respinning"}
  /\ Exchange(1)
  /\ Goes(t, IF AnswersZero THEN "again" ELSE "respinning")
  /\ UNCHANGED <<owns, seen, turn, handle, asked, added>>

(* unique_lock::lock after an unlock: once refused it is in mutex::lock's  *)
(* loop, which it leaves with the mutex only                               *)
Relock(t) == /\ at[t] \in {"outside", "respinning"}
             /\ Exchange(1)
             /\ IF AnswersZero THEN Goes(t, "again") /\ Owns(t, TRUE)
                ELSE Goes(t, "respinning") /\ UNCHANGED owns
             /\ UNCHANGED <<seen, turn, handle, asked, added>>

(* Slip: the destructor unlocks whether or not the lock owns               *)
LeaveUnlocking(t) ==
  /\ at[t] \in {"inside", "wrote", "outside", "again"}
  /\ Exchange(0)
  /\ Owns(t, FALSE)
  /\ EndsTurn(t)
  /\ Goes(t, "idle")
  /\ UNCHANGED <<seen, handle, asked, added>>

(* The end of the scope the lock is in: its destructor                     *)
Leave(t) == /\ at[t] \in {"inside", "wrote", "outside", "again"}
            /\ IF owns[t] THEN Exchange(0) ELSE UNCHANGED <<held, counted>>
            /\ Owns(t, FALSE)
            /\ EndsTurn(t)
            /\ Goes(t, "idle")
            /\ UNCHANGED <<seen, handle, asked, added>>

Finish(t) == /\ From(t, "idle")
             /\ turn[t] = Turns
             /\ Goes(t, "done")
             /\ UNCHANGED <<held, counted, owns, seen, turn, handle, asked, added>>

-----------------------------------------------------------------------------
(* thread::__begin.  A thread the platform refuses leaves no handle, and   *)
(* nothing says so.                                                        *)
Start(t) == /\ asked[t] = "nothing"
            /\ asked' = [asked EXCEPT ![t] = "start"]
            /\ handle' = [handle EXCEPT ![t] = TRUE]
            /\ Goes(t, "idle")
            /\ UNCHANGED <<held, counted, owns, seen, turn, added>>

StartRefused(t) == /\ asked[t] = "nothing"
                   /\ asked' = [asked EXCEPT ![t] = "start"]
                   /\ UNCHANGED <<held, counted, owns, seen, at, turn, handle, added>>

(* Slip: a join that does not wait                                         *)
JoinAtOnce(t) ==
  /\ asked[t] = "start"
  /\ asked' = [asked EXCEPT ![t] = "join"]
  /\ handle' = [handle EXCEPT ![t] = FALSE]
  /\ UNCHANGED <<held, counted, owns, seen, at, turn, added>>

(* thread::join waits for the end, if there is a handle to wait on         *)
Join(t) == /\ asked[t] = "start"
           /\ handle[t] => at[t] = "done"
           /\ asked' = [asked EXCEPT ![t] = "join"]
           /\ handle' = [handle EXCEPT ![t] = FALSE]
           /\ UNCHANGED <<held, counted, owns, seen, at, turn, added>>

Detach(t) == /\ asked[t] = "start"
             /\ asked' = [asked EXCEPT ![t] = "detach"]
             /\ handle' = [handle EXCEPT ![t] = FALSE]
             /\ UNCHANGED <<held, counted, owns, seen, at, turn, added>>

Thread(t) == \/ Lock(t) \/ TryLock(t) \/ Read(t) \/ Write(t)
             \/ Unlock(t) \/ Relock(t) \/ Leave(t) \/ Finish(t)
Main(t) == Start(t) \/ StartRefused(t) \/ Join(t) \/ Detach(t)

Next == \E t \in Threads : Thread(t) \/ Main(t)

Spec == Init /\ [][Next]_vars

(* Every thread keeps running.  A spin is no promise that a thread ever    *)
(* gets the mutex, but the others' turns come to an end.                   *)
FairSpec == Spec /\ \A t \in Threads : WF_vars(Thread(t))

-----------------------------------------------------------------------------
(* The mutex is 0 or 1, and every thread somewhere in its turns.           *)
TypeOK == /\ held \in {0, 1}
          /\ counted \in Nat
          /\ owns \in [Threads -> BOOLEAN]
          /\ seen \in [Threads -> Nat]
          /\ at \in [Threads -> Places]
          /\ turn \in [Threads -> 0 .. Turns]
          /\ handle \in [Threads -> BOOLEAN]
          /\ asked \in [Threads -> {"nothing", "start", "join", "detach"}]
          /\ added \in Nat

(* Two threads are never between a lock and its unlock at once, however    *)
(* each came by it: lock, try_lock, or a unique_lock taken a second time.  *)
MutualExclusion ==
  \A t, u \in Threads : at[t] \in Critical /\ at[u] \in Critical => t = u

(* What the mutex guards keeps everything that was ever added to it.       *)
NothingLost == counted = added

(* What join has returned from has run to its end, or never began: the     *)
(* second is a thread the platform refused, of which nothing is said.      *)
JoinedHasRun == \A t \in Threads : asked[t] = "join" => at[t] \in {"done", "unborn"}

(* Every thread that is started ends, and a join of it can return: whoever *)
(* has the mutex gives it back, on every way out of the scope of its lock. *)
EveryThreadEnds == \A t \in Threads : at[t] = "idle" ~> at[t] = "done"

(* Word and locks agree, step by step: the word is zero exactly while no   *)
(* lock owns the mutex, it is taken in the step that makes its lock the    *)
(* one owner, and given back in the step that lock stops being it.         *)
Abstract == INSTANCE Mutex WITH free <- held = 0, has <- {t \in Threads : owns[t]}
IsAMutex == Abstract!Spec
=============================================================================
