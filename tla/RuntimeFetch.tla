----------------------------- MODULE RuntimeFetch -----------------------------
(***************************************************************************)
(* Builds that fetch a Windows runtime and a wheel: runtime_fetch's        *)
(* FetchLock, download_verified, fetch_windows_runtime and fetch_wheel, as *)
(* the two callers put them together.  The command line unpacks a runtime  *)
(* afresh into the room beside its output; the freezer's room is in its    *)
(* cache, and it takes what it finds there.  The blobs, named by what they *)
(* hold, are shared by all builds.  Nothing keeps two builds from going on *)
(* at once, whether or not they have a room or a lock file in common; what *)
(* they then do to each other is in `met' and `behind', which no step of   *)
(* the code reads.                                                         *)
(***************************************************************************)
CONSTANTS Builds,
          Digests,      \* of what a server may send
          None,
          Spoilt,       \* bytes that are none of them
          Torn,         \* a lock file that is no JSON
          Freezers,     \* the builds that go through the freezer
          Lock, Room,   \* the lock file and the room of each build
          CanFail,      \* whether a download, a deletion or an extraction may fail
          CanDie        \* whether a build may be killed

Locks == {Lock[b] : b \in Builds}
Rooms == {Room[b] : b \in Builds}

VARIABLES blob,         \* what <digest>.blob holds
          lockfile,     \* what each lock file says
          pack,         \* the runtime in each room
          entries,      \* FetchLock.entries of each build
          stage,        \* which of the two files each build is at
          want, got,    \* the digest it must have, and the one it has
          pc,           \* where each build is
          met,          \* the builds that were at work while another was in their room
          behind        \* those whose lock file another has written since they read it

vars == <<blob, lockfile, pack, entries, stage, want, got, pc, met, behind>>

Files == {"runtime", "wheel"}
Entries == [Files -> Digests \cup {None}]
Unpinned == [f \in Files |-> None]

(* A runtime: whose bytes, how much of them, its manifest, and the build   *)
(* that unpacks it if no other has begun to unpack or delete since.        *)
Pack(from, files, manifest, by) ==
    [from |-> from, files |-> files, manifest |-> manifest, by |-> by]
Packs == [from : Digests \cup {None, Spoilt}, files : {"none", "some", "all"},
          manifest : {"none", "torn", "good"}, by : Builds \cup {None}]
Nothing == Pack(None, "none", "none", None)

Working == {"load", "present", "ask", "download", "put", "record", "clear", "clearing",
            "extract", "unpacking", "manifest", "writing", "save", "saving"}
Settled == {"done", "failed", "killed"}
Live(b) == pc[b] \in Working

(* A blob may have been damaged on the disk.                               *)
Init == /\ blob \in [Digests -> {None, Spoilt}]
        /\ lockfile = [l \in Locks |-> Unpinned]
        /\ pack = [r \in Rooms |-> Nothing]
        /\ entries = [b \in Builds |-> Unpinned]
        /\ stage = [b \in Builds |-> "runtime"]
        /\ want = [b \in Builds |-> None]
        /\ got = [b \in Builds |-> None]
        /\ pc = [b \in Builds |-> "unborn"]
        /\ met = {}
        /\ behind = {}

Goto(b, there) == pc' = [pc EXCEPT ![b] = there]
disk == <<blob, lockfile, pack>>
mine == <<entries, stage, want, got>>
others == <<met, behind>>

(* Nothing is asked of the builds that are at work.                        *)
Begin(b) == /\ pc[b] = "unborn"
            /\ Goto(b, "load")
            /\ LET there == {c \in Builds : Live(c) /\ Room[c] = Room[b]}
               IN  met' = IF there = {} THEN met ELSE met \cup there \cup {b}
            /\ UNCHANGED <<disk, mine, behind>>

(* FetchLock.load: no file is no entries, and one that is not JSON is an   *)
(* error.  The freezer loads it again before the wheels.                   *)
Load(b) == /\ pc[b] = "load"
           /\ \/ /\ lockfile[Lock[b]] = Torn
                 /\ Goto(b, "failed")
                 /\ UNCHANGED <<entries, behind>>
              \/ /\ lockfile[Lock[b]] # Torn
                 /\ entries' = [entries EXCEPT ![b] = lockfile[Lock[b]]]
                 /\ behind' = behind \ {b}
                 /\ Goto(b, IF b \in Freezers /\ stage[b] = "runtime" THEN "present" ELSE "ask")
           /\ UNCHANGED <<disk, stage, want, got, met>>

(* A slip: a directory that is there is the runtime.                       *)
PresentAtAll(b) == /\ pc[b] = "present"
                   /\ IF pack[Room[b]] = Nothing
                      THEN Goto(b, "ask") /\ UNCHANGED stage
                      ELSE Goto(b, "load") /\ stage' = [stage EXCEPT ![b] = "wheel"]
                   /\ UNCHANGED <<disk, entries, want, got, others>>

(* _auto_fetch_runtime: a directory with a manifest in it is the runtime.  *)
(* The wheels come next; a manifest that cannot be read stops the freeze.  *)
Present(b) == /\ pc[b] = "present"
              /\ \/ /\ pack[Room[b]].manifest = "none"
                    /\ Goto(b, "ask")
                    /\ UNCHANGED stage
                 \/ /\ pack[Room[b]].manifest = "good"
                    /\ Goto(b, "load")
                    /\ stage' = [stage EXCEPT ![b] = "wheel"]
                 \/ /\ pack[Room[b]].manifest = "torn"
                    /\ Goto(b, "failed")
                    /\ UNCHANGED stage
              /\ UNCHANGED <<disk, entries, want, got, others>>

(* fetch_wheel's FetchError is collected by its callers, which still save  *)
(* the lock; any other ends the build.                                     *)
Refused(b) == Goto(b, IF stage[b] = "wheel" THEN "save" ELSE "failed")

(* The digest to hold the file to: the lock's, else the index's, of which  *)
(* python.org has none.  An index that contradicts the lock is an error.   *)
Published(b) == IF stage[b] = "wheel" THEN Digests \cup {None} ELSE {None}
Recorded(b) == entries[b][stage[b]]

(* A slip: the lock's digest is not handed on to the download.             *)
AskAnew(b) == /\ pc[b] = "ask"
              /\ \E published \in Published(b) :
                    /\ want' = [want EXCEPT ![b] = published]
                    /\ got' = [got EXCEPT ![b] = None]
                    /\ Goto(b, "download")
              /\ UNCHANGED <<disk, entries, stage, others>>

(* A blob of that name, hashed once more, saves the download.              *)
Ask(b) == /\ pc[b] = "ask"
          /\ \E published \in Published(b) :
                IF None \notin {Recorded(b), published} /\ Recorded(b) # published
                THEN Refused(b) /\ UNCHANGED <<want, got>>
                ELSE LET expected == IF Recorded(b) # None THEN Recorded(b) ELSE published
                         hit == expected # None /\ blob[expected] = expected
                     IN  /\ want' = [want EXCEPT ![b] = expected]
                         /\ got' = [got EXCEPT ![b] = IF hit THEN expected ELSE None]
                         /\ Goto(b, IF hit THEN "record" ELSE "download")
          /\ UNCHANGED <<disk, entries, stage, others>>

(* A slip: the file is named by the digest that was asked for.             *)
DownloadAnyhow(b) == /\ pc[b] = "download"
                     /\ \E sent \in Digests :
                           LET name == IF want[b] = None THEN sent ELSE want[b]
                           IN  /\ blob' = [blob EXCEPT ![name] = sent]
                               /\ got' = [got EXCEPT ![b] = name]
                     /\ Goto(b, "record")
                     /\ UNCHANGED <<lockfile, pack, entries, stage, want, others>>

(* The stream goes to a file of the build's own and is hashed on its way.  *)
Download(b) == /\ pc[b] = "download"
               /\ \/ \E sent \in Digests :
                        IF want[b] \in {None, sent}
                        THEN got' = [got EXCEPT ![b] = sent] /\ Goto(b, "put")
                        ELSE Refused(b) /\ UNCHANGED got
                  \/ CanFail /\ Refused(b) /\ UNCHANGED got
               /\ UNCHANGED <<disk, entries, stage, want, others>>

(* temporary_path.replace(<digest>.blob)                                   *)
Put(b) == /\ pc[b] = "put"
          /\ blob' = [blob EXCEPT ![got[b]] = got[b]]
          /\ Goto(b, "record")
          /\ UNCHANGED <<lockfile, pack, mine, others>>

(* lock.record; a wheel is then copied out, and its caller saves.          *)
Record(b) == /\ pc[b] = "record"
             /\ entries' = [entries EXCEPT ![b][stage[b]] = got[b]]
             /\ want' = [want EXCEPT ![b] = None]
             /\ Goto(b, IF stage[b] = "wheel" THEN "save" ELSE "clear")
             /\ UNCHANGED <<disk, stage, got, others>>

(* What a deletion that has begun has left so far: the manifest goes early *)
(* or late.                                                                *)
Remnants(p) == {Pack(p.from, "some", left, None) : left \in {"none", p.manifest}}

(* shutil.rmtree(output), file by file                                     *)
Clear(b) == /\ pc[b] = "clear"
            /\ IF pack[Room[b]] = Nothing
               THEN Goto(b, "extract") /\ UNCHANGED pack
               ELSE /\ Goto(b, "clearing")
                    /\ \E left \in Remnants(pack[Room[b]]) : pack' = [pack EXCEPT ![Room[b]] = left]
            /\ UNCHANGED <<blob, lockfile, mine, others>>

(* It fails if another has deleted the directory before it could, or has   *)
(* put something into it again.                                            *)
FinishClearing(b) ==
    /\ pc[b] = "clearing"
    /\ \/ /\ pack[Room[b]] # Nothing
          /\ pack' = [pack EXCEPT ![Room[b]] = Nothing]
          /\ Goto(b, "extract")
       \/ /\ pack[Room[b]] = Nothing
          /\ Goto(b, "failed")
          /\ UNCHANGED pack
       \/ /\ CanFail
          /\ pack[Room[b]] # Nothing
          /\ \E left \in Remnants(pack[Room[b]]) \cup {pack[Room[b]]} :
                pack' = [pack EXCEPT ![Room[b]] = left]
          /\ Goto(b, "failed")
    /\ UNCHANGED <<blob, lockfile, mine, others>>

(* Files unpacked over those that are there: bytes that are of two         *)
(* runtimes are of none.                                                   *)
Over(p, digest) == IF p.from \in {None, digest} THEN digest ELSE Spoilt

(* extract_zip writes member after member; one that fails leaves those it  *)
(* wrote.                                                                  *)
Extract(b) ==
    /\ pc[b] = "extract"
    /\ pack' = [pack EXCEPT ![Room[b]] = Pack(Over(@, blob[got[b]]), "some", @.manifest, b)]
    /\ Goto(b, "unpacking") \/ (CanFail /\ Goto(b, "failed"))
    /\ UNCHANGED <<blob, lockfile, mine, others>>

(* All of it is there, if nobody else was at it meanwhile; else there is   *)
(* no telling.  And there may be no python.exe among the files.            *)
FinishExtracting(b) ==
    /\ pc[b] = "unpacking"
    /\ IF pack[Room[b]].by = b
       THEN pack' = [pack EXCEPT ![Room[b]] = Pack(@.from, "all", @.manifest, None)]
       ELSE \E files \in {"some", "all"} :
               pack' = [pack EXCEPT ![Room[b]] =
                           Pack(Over(@, blob[got[b]]), files, @.manifest, @.by)]
    /\ got' = [got EXCEPT ![b] = None]
    /\ Goto(b, "manifest") \/ (CanFail /\ Goto(b, "failed"))
    /\ UNCHANGED <<blob, lockfile, entries, stage, want, others>>

(* write_runtime_manifest: a write_text, which makes the file and then     *)
(* fills it.  The directory may have been deleted, and then the file.      *)
Manifest(b) == /\ pc[b] = "manifest"
               /\ IF pack[Room[b]] = Nothing
                  THEN Goto(b, "failed") /\ UNCHANGED pack
                  ELSE /\ pack' = [pack EXCEPT ![Room[b]].manifest = "torn"]
                       /\ Goto(b, "writing")
               /\ UNCHANGED <<blob, lockfile, mine, others>>

FinishManifest(b) == /\ pc[b] = "writing"
                     /\ pack' = IF pack[Room[b]].manifest = "none" THEN pack
                                ELSE [pack EXCEPT ![Room[b]].manifest = "good"]
                     /\ Goto(b, "save")
                     /\ UNCHANGED <<blob, lockfile, mine, others>>

(* FetchLock.save writes the file where it stands.                         *)
Save(b) == /\ pc[b] = "save"
           /\ lockfile' = [lockfile EXCEPT ![Lock[b]] = Torn]
           /\ Goto(b, "saving")
           /\ UNCHANGED <<blob, pack, mine, others>>

(* After the runtime come the wheels.  The freezer, the lock once saved,   *)
(* stops at one it did not get; the command line goes on without it.       *)
FinishSaving(b) == /\ pc[b] = "saving"
                   /\ lockfile' = [lockfile EXCEPT ![Lock[b]] = entries[b]]
                   /\ \/ /\ stage[b] = "runtime"
                         /\ stage' = [stage EXCEPT ![b] = "wheel"]
                         /\ Goto(b, IF b \in Freezers THEN "load" ELSE "ask")
                      \/ /\ stage[b] = "wheel"
                         /\ Goto(b, IF b \in Freezers /\ got[b] = None THEN "failed" ELSE "done")
                         /\ UNCHANGED stage
                   /\ got' = [got EXCEPT ![b] = None]
                   /\ behind' = (behind \ {b}) \cup
                          {c \in Builds \ {b} : Lock[c] = Lock[b] /\ Live(c) /\ pc[c] # "load"}
                   /\ UNCHANGED <<blob, pack, entries, want, met>>

(* What a killed build had in its memory goes with it.                     *)
Kill(b) == /\ CanDie
           /\ Live(b)
           /\ entries' = [entries EXCEPT ![b] = Unpinned]
           /\ want' = [want EXCEPT ![b] = None]
           /\ got' = [got EXCEPT ![b] = None]
           /\ Goto(b, "killed")
           /\ UNCHANGED <<disk, stage, others>>

Step(b) == \/ Begin(b) \/ Load(b) \/ Present(b) \/ Ask(b) \/ Download(b) \/ Put(b) \/ Record(b)
           \/ Clear(b) \/ FinishClearing(b) \/ Extract(b) \/ FinishExtracting(b)
           \/ Manifest(b) \/ FinishManifest(b) \/ Save(b) \/ FinishSaving(b)

Next == \E b \in Builds : Step(b) \/ Kill(b)

Spec == Init /\ [][Next]_vars

Fairness == \A b \in Builds : WF_vars(Step(b))

-----------------------------------------------------------------------------
TypeOK == /\ blob \in [Digests -> Digests \cup {None, Spoilt}]
          /\ lockfile \in [Locks -> Entries \cup {Torn}]
          /\ pack \in [Rooms -> Packs]
          /\ entries \in [Builds -> Entries]
          /\ stage \in [Builds -> Files]
          /\ want \in [Builds -> Digests \cup {None}]
          /\ got \in [Builds -> Digests \cup {None}]
          /\ pc \in [Builds -> Working \cup Settled \cup {"unborn"}]
          /\ met \subseteq Builds
          /\ behind \subseteq Builds

(* What a build records and unpacks is a blob of the digest of its name,   *)
(* and is what its lock file pinned, whatever a server sends, the disk has *)
(* done to a blob, and other builds do at the same time.                   *)
TakesWhatIsPinned ==
    \A b \in Builds :
       pc[b] \in {"record", "clear", "clearing", "extract", "unpacking"}
          => /\ got[b] \in Digests /\ blob[got[b]] = got[b]
             /\ Recorded(b) \in {None, got[b]}

(* No other build was in the room of b while b was; and, of a freezer,     *)
(* who takes what others left there: nor were two others ever, and all of  *)
(* them, and only they, have its lock file.                                *)
Undisturbed(b) ==
    /\ b \notin met
    /\ b \in Freezers =>
          \A c \in Builds : Room[c] = Room[b] \/ Lock[c] = Lock[b] =>
             c \in Freezers \ met /\ Room[c] = Room[b] /\ Lock[c] = Lock[b]

WholeAsPinned(b) ==
    /\ pack'[Room[b]].files = "all"
    /\ pack'[Room[b]].manifest = "good"
    /\ lockfile'[Lock[b]]["runtime"] \in {None, pack'[Room[b]].from}

(* A build that is done has a whole runtime, whether it unpacked one or    *)
(* found it, and the one its lock file names: what an earlier build left   *)
(* that was stopped in the middle of an extraction or of a deletion, what  *)
(* a server sent instead and what has become of a blob are never taken for *)
(* it.  Other builds go on meanwhile, but not in the same room.            *)
FinishesWithWhatIsPinned ==
    \A b \in Builds :
       pc[b] # "done" /\ pc'[b] = "done" /\ Undisturbed(b) => WholeAsPinned(b)

DoneWithWhatIsPinned == [][FinishesWithWhatIsPinned]_vars

(* A pin stays: what a build has of the lock file, and will write back     *)
(* over it, has every digest the file names, unless another build wrote    *)
(* the file after this one had read it.                                    *)
Holds(b) == Live(b) /\ pc[b] # "load" /\ lockfile[Lock[b]] # Torn =>
               \A f \in Files : lockfile[Lock[b]][f] \in {None, entries[b][f]}

PinsKept == \A b \in Builds \ behind : Holds(b)

EveryBuildEnds == \A b \in Builds : <>(pc[b] \in Settled)

-----------------------------------------------------------------------------
(* What nothing in the code ensures of builds that overlap.                *)

(* No build writes the lock file back without what it names meanwhile.     *)
NoPinIsLost == \A b \in Builds : Holds(b)

(* Whoever is done has the whole runtime.                                  *)
EveryoneFinishesWhole ==
    [][\A b \in Builds : pc[b] # "done" /\ pc'[b] = "done" => WholeAsPinned(b)]_vars
=============================================================================
