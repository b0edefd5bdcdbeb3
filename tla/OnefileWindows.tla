--------------------------- MODULE OnefileWindows ---------------------------
(***************************************************************************)
(* Launches of one Windows one-file program: the PowerShell text that      *)
(* onefile._powershell_script writes.  Each launch looks for the marker    *)
(* of the cache and, when it is missing, unpacks the payload beside the    *)
(* cache under a named mutex and moves it into place.                      *)
(*                                                                         *)
(* The mutex is Windows's: a process that dies with it in hand abandons    *)
(* it, the next one to wait is given it together with an exception, and it *)
(* is forgotten when the last handle to it is closed.                      *)
(***************************************************************************)
EXTENDS Naturals, FiniteSets

CONSTANTS Launches,     \* the launches of the program
          Pids,         \* the process identifiers there are
          CanFail,      \* whether a step of unpacking may fail
          CanDie,       \* whether a launcher may be killed
          NoOne

ASSUME NoOneAssumption == NoOne \notin Launches
ASSUME FaultsAssumption == CanFail \in BOOLEAN /\ CanDie \in BOOLEAN

VARIABLES cache,        \* $r: what files it holds, and whether it is marked
          temp,         \* $t of every process identifier, in the same terms
          owner,        \* the launch that has the mutex, or NoOne
          abandoned,    \* whether its last owner died with it
          handles,      \* the launches with a handle to it open
          pid,          \* $PID of each launch
          pc            \* where each launch is

vars == <<cache, temp, owner, abandoned, handles, pid, pc>>

Tree(files, mark) == [files |-> files, mark |-> mark]
Trees == [files : {"none", "some", "all"}, mark : BOOLEAN]
Nothing == Tree("none", FALSE)

Unpacking == {"prepare", "unpack", "mark", "clear", "move"}
Locked == Unpacking \cup {"recheck", "release", "giveup"}
Settled == {"running", "failed", "killed"}
Places == Locked \cup Settled \cup {"unborn", "probe", "open", "wait", "launch"}

(* A cache that was cleaned by hand may be there without its marker.       *)
Init == /\ cache \in {Nothing, Tree("some", FALSE)}
        /\ temp = [d \in Pids |-> Nothing]
        /\ owner = NoOne
        /\ abandoned = FALSE
        /\ handles = {}
        /\ pid \in [Launches -> Pids]
        /\ pc = [l \in Launches |-> "unborn"]

Goto(l, there) == pc' = [pc EXCEPT ![l] = there]
Alive(l) == pc[l] \notin Settled \cup {"unborn"}
files == <<cache, temp>>
mutex == <<owner, abandoned, handles>>

(* No two processes alive at once have one identifier.                     *)
Begin(l) == /\ pc[l] = "unborn"
            /\ \A k \in Launches : Alive(k) => pid[k] # pid[l]
            /\ Goto(l, "probe")
            /\ UNCHANGED <<files, mutex, pid>>

(* if(![IO.File]::Exists($m))                                              *)
Probe(l) == /\ pc[l] = "probe"
            /\ Goto(l, IF cache.mark THEN "launch" ELSE "open")
            /\ UNCHANGED <<files, mutex, pid>>

(* [Threading.Mutex]::new($false, name)                                    *)
OpenMutex(l) == /\ pc[l] = "open"
                /\ handles' = handles \cup {l}
                /\ Goto(l, "wait")
                /\ UNCHANGED <<files, owner, abandoned, pid>>

(* A slip: the wait is given a time-out whose answer nobody reads.         *)
WaitAWhile(l) == /\ pc[l] = "wait"
                 /\ ~abandoned
                 /\ owner' = l
                 /\ Goto(l, "recheck")
                 /\ UNCHANGED <<files, abandoned, handles, pid>>

(* WaitOne                                                                 *)
WaitOne(l) == /\ pc[l] = "wait"
              /\ owner = NoOne
              /\ ~abandoned
              /\ owner' = l
              /\ Goto(l, "recheck")
              /\ UNCHANGED <<files, abandoned, handles, pid>>

(* What closing a handle leaves of the mutex; one that nobody has open is  *)
(* no longer there.                                                        *)
Close(l, byDying) == /\ handles' = handles \ {l}
                     /\ owner' = IF owner = l THEN NoOne ELSE owner
                     /\ abandoned' = /\ handles \ {l} # {}
                                     /\ abandoned \/ (byDying /\ owner = l)

(* WaitOne on an abandoned mutex takes it and throws AbandonedMutexException *)
(* before the inner try is entered: the launcher exits with code 3, and    *)
(* abandons the mutex in its turn.                                         *)
WaitAbandoned(l) == /\ pc[l] = "wait"
                    /\ owner = NoOne
                    /\ abandoned
                    /\ Close(l, TRUE)
                    /\ Goto(l, "failed")
                    /\ UNCHANGED <<files, pid>>

(* A slip: a launch that waited unpacks without looking again.             *)
NoRecheck(l) == /\ pc[l] = "recheck"
                /\ Goto(l, "prepare")
                /\ UNCHANGED <<files, mutex, pid>>

(* The second look, under the mutex                                        *)
Recheck(l) == /\ pc[l] = "recheck"
              /\ Goto(l, IF cache.mark THEN "release" ELSE "prepare")
              /\ UNCHANGED <<files, mutex, pid>>

(* Delete($t,$true) and CreateDirectory($t)                                *)
Prepare(l) == /\ pc[l] = "prepare"
              /\ temp' = [temp EXCEPT ![pid[l]] = Tree("some", FALSE)]
              /\ Goto(l, "unpack")
              /\ UNCHANGED <<cache, mutex, pid>>

(* A slip: the directory is left as a launch that died may have left it.   *)
UnpackAnyhow(l) == /\ pc[l] = "unpack"
                   /\ Goto(l, "mark")
                   /\ UNCHANGED <<files, mutex, pid>>

(* CopyTo($o) and ExtractToDirectory($z,$t)                                *)
Unpack(l) == /\ pc[l] = "unpack"
             /\ temp' = [temp EXCEPT ![pid[l]] = Tree("all", @.mark)]
             /\ Goto(l, "mark")
             /\ UNCHANGED <<cache, mutex, pid>>

(* WriteAllText('.py2bin-complete')                                        *)
Mark(l) == /\ pc[l] = "mark"
           /\ temp' = [temp EXCEPT ![pid[l]] = Tree(@.files, TRUE)]
           /\ Goto(l, "clear")
           /\ UNCHANGED <<cache, mutex, pid>>

(* if([IO.Directory]::Exists($r)){Delete($r,$true)}                        *)
ClearCache(l) == /\ pc[l] = "clear"
                 /\ cache' = Nothing
                 /\ Goto(l, "move")
                 /\ UNCHANGED <<temp, mutex, pid>>

(* Directory.Move($t,$r)                                                   *)
Move(l) == /\ pc[l] = "move"
           /\ cache' = temp[pid[l]]
           /\ temp' = [temp EXCEPT ![pid[l]] = Nothing]
           /\ Goto(l, "release")
           /\ UNCHANGED <<mutex, pid>>

(* Whatever throws between the second look and the move, the mutex is      *)
(* given back on the way out; a deletion that fails may be half done.      *)
Fail(l) == /\ CanFail
           /\ pc[l] \in Unpacking
           /\ cache' \in IF pc[l] = "clear" /\ cache.files # "none"
                           THEN {cache, Tree("some", FALSE)} ELSE {cache}
           /\ Goto(l, "giveup")
           /\ UNCHANGED <<temp, mutex, pid>>

(* A slip: only the way out of a success gives the mutex back.             *)
ReleaseOnSuccess(l) == /\ pc[l] \in {"release", "giveup"}
                       /\ IF pc[l] = "release" THEN Close(l, FALSE)
                          ELSE UNCHANGED mutex
                       /\ Goto(l, IF pc[l] = "release" THEN "launch" ELSE "failed")
                       /\ UNCHANGED <<files, pid>>

(* finally{$mx.ReleaseMutex();$mx.Dispose()}                               *)
Release(l) == /\ pc[l] \in {"release", "giveup"}
              /\ Close(l, FALSE)
              /\ Goto(l, IF pc[l] = "release" THEN "launch" ELSE "failed")
              /\ UNCHANGED <<files, pid>>

(* [Diagnostics.Process]::Start($si), of the launcher in the cache         *)
Launch(l) == /\ pc[l] = "launch"
             /\ Goto(l, IF cache.files = "none" THEN "failed" ELSE "running")
             /\ UNCHANGED <<files, mutex, pid>>

(* The launcher is killed, wherever it is.                                 *)
Die(l) == /\ CanDie
          /\ Alive(l)
          /\ Close(l, TRUE)
          /\ Goto(l, "killed")
          /\ UNCHANGED <<files, pid>>

Step(l) == \/ Probe(l) \/ OpenMutex(l) \/ WaitOne(l) \/ WaitAbandoned(l)
           \/ Recheck(l) \/ Prepare(l) \/ Unpack(l) \/ Mark(l)
           \/ ClearCache(l) \/ Move(l) \/ Release(l) \/ Launch(l)

Next == \E l \in Launches : Begin(l) \/ Step(l) \/ Fail(l) \/ Die(l)

Spec == Init /\ [][Next]_vars

(* Every process runs; nobody has to fail, to die, or to launch anything.  *)
(* Windows hands a mutex that is free over and over to somebody waiting,   *)
(* and each launch takes it once.                                          *)
FairSpec == Spec /\ \A l \in Launches : WF_vars(Step(l))

-----------------------------------------------------------------------------
(* The cache and the temporaries are trees, the mutex one launch's.        *)
TypeOK == /\ cache \in Trees
          /\ temp \in [Pids -> Trees]
          /\ owner \in Launches \cup {NoOne}
          /\ abandoned \in BOOLEAN
          /\ handles \subseteq Launches
          /\ pid \in [Launches -> Pids]
          /\ pc \in [Launches -> Places]

(* One launch at most is between the mutex and its release, so one at most *)
(* deletes and replaces the cache.                                         *)
OneUnpacks == \A k, l \in Launches : pc[k] \in Locked /\ pc[l] \in Locked => k = l

(* A cache with its marker is whole, and a launch about to start the       *)
(* program, or that started it, has a marked cache: whatever failed or     *)
(* died, nobody runs half a payload.                                       *)
MarkedIsWhole ==
  /\ cache.mark => cache.files = "all"
  /\ \A l \in Launches : pc[l] \in {"launch", "running"} => cache.mark

(* "The content-addressed cache prevents repeated payload extraction": a   *)
(* marked cache is never touched again, nor unpacked over.                 *)
PublishedStays == [][cache.mark => cache' = cache]_cache

(* The cache all these launches share is the one ContentCache promises.    *)
Told(place) == IF place = "running" THEN "running"
               ELSE IF place \in {"failed", "killed"} THEN "failed" ELSE "none"
Outcome == [l \in Launches |-> Told(pc[l])]
Published == cache = Tree("all", TRUE)
Abstract == INSTANCE ContentCache WITH published <- Published, outcome <- Outcome
IsAContentCache == Abstract!Spec

(* Every launch that begins comes to an end of its own: it never waits for *)
(* a mutex a dead or failed one kept.                                      *)
EveryLaunchSettles == \A l \in Launches : pc[l] = "probe" ~> pc[l] \in Settled
=============================================================================
