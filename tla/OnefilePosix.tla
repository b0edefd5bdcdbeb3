---------------------------- MODULE OnefilePosix ----------------------------
(***************************************************************************)
(* Launches of one POSIX one-file program: the shell text that             *)
(* onefile._posix_command writes.  Each launch looks for the marker of the *)
(* cache.  When it is missing, the launch that makes the lock's directory  *)
(* unpacks the payload and moves it into place, and the others wait for    *)
(* the marker.                                                             *)
(*                                                                         *)
(* The text runs under `set -eu`: a command that fails ends the shell,     *)
(* which runs the trap, if one is set.  A trapped signal runs the trap and *)
(* goes on with the next command: nothing in the trap exits.               *)
(***************************************************************************)
EXTENDS Naturals, FiniteSets

CONSTANTS Launches,     \* the launches of the program, each with its own $$
          CanFail,      \* whether a command may fail between the trap and the move
          CanDie,       \* whether a launch may be killed (SIGKILL)
          MaxSignals    \* how many trapped signals arrive in all

ASSUME PosixFaults == /\ CanFail \in BOOLEAN
                      /\ CanDie \in BOOLEAN
                      /\ MaxSignals \in Nat

VARIABLES cache,        \* $CACHE: what files it holds, and whether it is marked;
                        \* "some" is a tree being filled, "left" what a removal leaves
          lock,         \* whether $LOCK is there
          temp,         \* $TMP of every launch, in the terms of the cache
          trapped,      \* the launches with their trap set
          pc,           \* where each launch is
          signals       \* how many trapped signals have arrived

vars == <<cache, lock, temp, trapped, pc, signals>>

Tree(files, mark) == [files |-> files, mark |-> mark]
Trees == [files : {"none", "some", "left", "all"}, mark : BOOLEAN]
Nothing == Tree("none", FALSE)

Unpacking == {"trap", "prepare", "untar", "mark", "purge", "purging", "move", "unlock"}
Settled == {"running", "lost", "failed", "killed"}
Places == Unpacking \cup Settled \cup {"unborn", "probe", "lock", "await", "untrap", "exec"}

Init == /\ cache = Nothing
        /\ lock = FALSE
        /\ temp = [l \in Launches |-> Nothing]
        /\ trapped = {}
        /\ pc = [l \in Launches |-> "unborn"]
        /\ signals = 0

Goto(l, there) == pc' = [pc EXCEPT ![l] = there]
Alive(l) == pc[l] \notin Settled \cup {"unborn"}

(* rm -rf "$TMP";rmdir "$LOCK" 2>/dev/null||:                              *)
RunTrap(l) == IF l \in trapped
                THEN temp' = [temp EXCEPT ![l] = Nothing] /\ lock' = FALSE
                ELSE UNCHANGED <<temp, lock>>

(* A command failed: the shell ends, and its trap runs.                    *)
Exit(l) == /\ RunTrap(l)
           /\ Goto(l, "failed")

-----------------------------------------------------------------------------
Begin(l) == /\ pc[l] = "unborn"
            /\ Goto(l, "probe")
            /\ UNCHANGED <<cache, lock, temp, trapped, signals>>

(* if [ ! -f "$MARK" ]                                                     *)
Probe(l) == /\ pc[l] = "probe"
            /\ Goto(l, IF cache.mark THEN "exec" ELSE "lock")
            /\ UNCHANGED <<cache, lock, temp, trapped, signals>>

(* A slip: a lock that is there is taken all the same, as mkdir -p would.  *)
MakeLockAnyway(l) == /\ pc[l] = "lock"
                     /\ lock' = TRUE
                     /\ Goto(l, "trap")
                     /\ UNCHANGED <<cache, temp, trapped, signals>>

(* if mkdir "$LOCK"                                                        *)
MakeLock(l) == /\ pc[l] = "lock"
               /\ lock' = TRUE
               /\ Goto(l, IF lock THEN "await" ELSE "trap")
               /\ UNCHANGED <<cache, temp, trapped, signals>>

(* A slip: a waiter looks for the marker only while the lock is there.     *)
AwaitLock(l) == /\ pc[l] = "await"
                /\ lock
                /\ cache.mark
                /\ Goto(l, "exec")
                /\ UNCHANGED <<cache, lock, temp, trapped, signals>>

(* while [ ! -f "$MARK" ];do sleep .05;done                                *)
Await(l) == /\ pc[l] = "await"
            /\ cache.mark
            /\ Goto(l, "exec")
            /\ UNCHANGED <<cache, lock, temp, trapped, signals>>

SetTrap(l) == /\ pc[l] = "trap"
              /\ trapped' = trapped \cup {l}
              /\ Goto(l, "prepare")
              /\ UNCHANGED <<cache, lock, temp, signals>>

(* rm -rf "$TMP";mkdir -p "$TMP"                                           *)
Prepare(l) == /\ pc[l] = "prepare"
              /\ temp' = [temp EXCEPT ![l] = Tree("some", FALSE)]
              /\ Goto(l, "untar")
              /\ UNCHANGED <<cache, lock, trapped, signals>>

(* tail | head | tar -xzf - -C "$TMP", which fails without its directory   *)
Untar(l) == /\ pc[l] = "untar"
            /\ IF temp[l].files = "none"
                 THEN Exit(l)
                 ELSE /\ temp' = [temp EXCEPT ![l].files = "all"]
                      /\ Goto(l, "mark")
                      /\ UNCHANGED lock
            /\ UNCHANGED <<cache, trapped, signals>>

(* A slip: the marker goes straight into the cache.                        *)
MarkInPlace(l) == /\ pc[l] = "mark"
                  /\ cache' = [cache EXCEPT !.mark = TRUE]
                  /\ Goto(l, "purge")
                  /\ UNCHANGED <<temp, lock, trapped, signals>>

(* printf ok >"$TMP/.py2bin-complete"                                      *)
Mark(l) == /\ pc[l] = "mark"
           /\ IF temp[l].files = "none"
                THEN Exit(l)
                ELSE /\ temp' = [temp EXCEPT ![l].mark = TRUE]
                     /\ Goto(l, "purge")
                     /\ UNCHANGED lock
           /\ UNCHANGED <<cache, trapped, signals>>

(* rm -rf "$CACHE" takes a tree apart entry by entry, in the order the     *)
(* directory is in: the marker is in no particular place.                  *)
Purge(l) == /\ pc[l] = "purge"
            /\ IF cache.files = "none" THEN UNCHANGED cache
               ELSE \E m \in {cache.mark, FALSE} : cache' = Tree("left", m)
            /\ Goto(l, "purging")
            /\ UNCHANGED <<lock, temp, trapped, signals>>

Purged(l) == /\ pc[l] = "purging"
             /\ cache' = Nothing
             /\ Goto(l, "move")
             /\ UNCHANGED <<lock, temp, trapped, signals>>

(* mv "$TMP" "$CACHE", which fails where there is nothing to move and      *)
(* moves into the cache where there is one                                 *)
Move(l) == /\ pc[l] = "move"
           /\ IF temp[l].files = "none"
                THEN Exit(l) /\ UNCHANGED cache
                ELSE /\ cache' = IF cache.files = "none" THEN temp[l] ELSE cache
                     /\ temp' = [temp EXCEPT ![l] = Nothing]
                     /\ Goto(l, "unlock")
                     /\ UNCHANGED lock
           /\ UNCHANGED <<trapped, signals>>

(* A slip: the trap is for signals alone, and not for the shell's exit.    *)
CommandFailsUntrapped(l) ==
  /\ CanFail
  /\ pc[l] \in {"prepare", "untar", "mark", "purge", "purging", "move"}
  /\ Goto(l, "failed")
  /\ UNCHANGED <<cache, lock, temp, trapped, signals>>

(* mkdir, tar, printf, rm or mv fails, of which only rm -rf "$CACHE" may   *)
(* have done something lasting: it stops part-way, the marker gone or not. *)
CommandFails(l) ==
  /\ CanFail
  /\ pc[l] \in {"prepare", "untar", "mark", "purge", "purging", "move"}
  /\ Exit(l)
  /\ UNCHANGED <<cache, trapped, signals>>

(* rmdir "$LOCK", which fails where it is gone                             *)
Unlock(l) == /\ pc[l] = "unlock"
             /\ IF lock THEN lock' = FALSE /\ UNCHANGED temp /\ Goto(l, "untrap")
                ELSE Exit(l)
             /\ UNCHANGED <<cache, trapped, signals>>

(* trap - 0 1 2 3 15                                                       *)
ClearTrap(l) == /\ pc[l] = "untrap"
                /\ trapped' = trapped \ {l}
                /\ Goto(l, "exec")
                /\ UNCHANGED <<cache, lock, temp, signals>>

(* exec "$CACHE"/launcher, which may be among the files already gone       *)
Exec(l) == /\ pc[l] = "exec"
           /\ \/ cache.files # "none" /\ Goto(l, "running")
              \/ cache.files # "all" /\ Goto(l, "lost")
           /\ UNCHANGED <<cache, lock, temp, trapped, signals>>

(* Signals 1, 2, 3 and 15: the trap runs and the text goes on; a launch    *)
(* with no trap set dies of it.                                            *)
Signal(l) == /\ signals < MaxSignals
             /\ Alive(l)
             /\ signals' = signals + 1
             /\ RunTrap(l)
             /\ IF l \in trapped THEN UNCHANGED pc ELSE Goto(l, "killed")
             /\ UNCHANGED <<cache, trapped>>

Die(l) == /\ CanDie
          /\ Alive(l)
          /\ Goto(l, "killed")
          /\ UNCHANGED <<cache, lock, temp, trapped, signals>>

Step(l) == \/ Probe(l) \/ MakeLock(l) \/ Await(l) \/ SetTrap(l) \/ Prepare(l)
           \/ Untar(l) \/ Mark(l) \/ Purge(l) \/ Purged(l) \/ Move(l)
           \/ Unlock(l) \/ ClearTrap(l) \/ Exec(l)

Next == \E l \in Launches :
          Begin(l) \/ Step(l) \/ CommandFails(l) \/ Signal(l) \/ Die(l)

Spec == Init /\ [][Next]_vars

(* Every process runs.  A waiter that looks again every .05 s sees a       *)
(* marker that stays.                                                      *)
FairSpec == Spec /\ \A l \in Launches : WF_vars(Step(l))

-----------------------------------------------------------------------------
(* The cache and the temporaries are trees, the traps those of launches.   *)
TypeOK == /\ cache \in Trees
          /\ lock \in BOOLEAN
          /\ temp \in [Launches -> Trees]
          /\ trapped \subseteq Launches
          /\ pc \in [Launches -> Places]
          /\ signals \in 0 .. MaxSignals

(* One launch at most is between making the lock and removing it, and the  *)
(* lock is there while it is; where no signal arrives, whatever fails or   *)
(* is killed.                                                              *)
OneUnpacks ==
  signals = 0 =>
    /\ \A k, l \in Launches : pc[k] \in Unpacking /\ pc[l] \in Unpacking => k = l
    /\ (\E l \in Launches : pc[l] \in Unpacking) => lock

(* However a launch ends short of being killed, by a failing command or    *)
(* after a trapped signal, its lock does not outlive it.                    *)
LockIsSomebodys ==
  lock => \E l \in Launches : pc[l] \in Unpacking \cup {"killed"}

(* "A completion marker is written only after tar exits successfully": a   *)
(* marked temporary is whole, and a marked cache is whole or was.  What a  *)
(* removal leaves of a cache, marked perhaps, is there only while the      *)
(* removal is under way, or after it failed or was killed part-way.        *)
MarkedIsWhole ==
  /\ \A l \in Launches : temp[l].mark => temp[l].files = "all"
  /\ cache.mark => cache.files \in {"all", "left"}
  /\ cache.files = "left" => \E l \in Launches : pc[l] \in {"purging", "failed", "killed"}

(* Where nothing fails and nobody is signalled or killed, every launch     *)
(* that begins settles: whoever waits for the marker is shown one.         *)
Disturbed == signals > 0 \/ \E l \in Launches : pc[l] \in {"failed", "killed"}
EveryLaunchSettles ==
  \A l \in Launches : pc[l] = "probe" ~> pc[l] \in Settled \/ Disturbed

-----------------------------------------------------------------------------
(* What the documentation says, and this text does not keep.               *)

(* "Prevents repeated payload extraction": a marked cache stays as it is.  *)
PublishedStays == [][cache.mark => cache' = cache]_cache

(* "Unpacks itself once ... and runs from there": a launch that waits is   *)
(* not left waiting when the one it waits for fails or is killed.          *)
OthersSettle == \A l \in Launches : pc[l] = "await" ~> pc[l] \in Settled
=============================================================================
