------------------------------ MODULE SourceFetch ------------------------------
(***************************************************************************)
(* Builds that fetch one locked source into a cache they share:            *)
(* source_fetch._download and fetch_source.  An archive is named by the    *)
(* digest it must have, an unpacked tree by its module and that digest;    *)
(* both are made elsewhere and put in place with one rename.               *)
(***************************************************************************)
CONSTANTS Builds,       \* the builds that need the source
          CanFail,      \* whether a download or an extraction may fail
          CanDie        \* whether a build may be killed

VARIABLES archive,      \* what <sha256>.archive holds
          tree,         \* the directory that is to hold the source
          staged,       \* the directory each build makes it in
          pc            \* where each build is

vars == <<archive, tree, staged, pc>>

Archives == {"none", "right", "wrong"}
Trees == [bytes : {"none", "some", "right", "wrong"}, manifest : BOOLEAN]
Tree(bytes, manifest) == [bytes |-> bytes, manifest |-> manifest]
Nothing == Tree("none", FALSE)
Source == Tree("right", TRUE)

Working == {"cached", "download", "put", "find", "verify", "extract", "copy", "stamp", "replace", "return"}
Settled == {"returned", "failed", "killed"}

(* The cache may have been damaged, or cleaned by hand, before.            *)
Init == /\ archive \in Archives
        /\ tree \in {Nothing, Tree("some", FALSE), Tree("wrong", TRUE)}
        /\ staged = [b \in Builds |-> Nothing]
        /\ pc = [b \in Builds |-> "unborn"]

Goto(b, there) == pc' = [pc EXCEPT ![b] = there]

Begin(b) == /\ pc[b] = "unborn"
            /\ Goto(b, "cached")
            /\ UNCHANGED <<archive, tree, staged>>

(* An archive that is there is used if its digest is right and refused if  *)
(* it is not; it is not fetched again.                                     *)
LookForArchive(b) == /\ pc[b] = "cached"
                     /\ Goto(b, CASE archive = "none"  -> "download"
                                  [] archive = "right" -> "find"
                                  [] OTHER             -> "failed")
                     /\ UNCHANGED <<archive, tree, staged>>

(* The bytes go to a file of the build's own, and that is unlinked when    *)
(* they are too many, break off or have another digest.                    *)
Download(b) == /\ pc[b] = "download"
               /\ Goto(b, "put") \/ (CanFail /\ Goto(b, "failed"))
               /\ UNCHANGED <<archive, tree, staged>>

(* temporary_path.replace(cached)                                          *)
PutArchive(b) == /\ pc[b] = "put"
                 /\ archive' = "right"
                 /\ Goto(b, "find")
                 /\ UNCHANGED <<tree, staged>>

(* target.exists()                                                         *)
LookForTree(b) == /\ pc[b] = "find"
                  /\ Goto(b, IF tree = Nothing THEN "extract" ELSE "verify")
                  /\ UNCHANGED <<archive, tree, staged>>

(* A slip: a manifest is enough, its tree_sha256 is not compared.          *)
TrustManifest(b) == /\ pc[b] = "verify"
                    /\ Goto(b, IF tree.manifest THEN "return" ELSE "failed")
                    /\ UNCHANGED <<archive, tree, staged>>

(* A tree that is there is taken with its manifest, the digest in it and   *)
(* the digest of the whole tree, or refused.                               *)
Verify(b) == /\ pc[b] = "verify"
             /\ Goto(b, IF tree = Source THEN "return" ELSE "failed")
             /\ UNCHANGED <<archive, tree, staged>>

(* What a build leaves of its temporary directory when an error leaves the *)
(* with statement.                                                         *)
Fails(b) == /\ CanFail
            /\ staged' = [staged EXCEPT ![b] = Nothing]
            /\ Goto(b, "failed")

(* _extract, from whatever the archive is by then, and the choice of the   *)
(* subdirectory.                                                           *)
Extract(b) == /\ pc[b] = "extract"
              /\ \/ /\ Goto(b, "copy")
                    /\ staged' = [staged EXCEPT ![b] =
                                    Tree(IF archive = "right" THEN "some" ELSE "wrong", FALSE)]
                 \/ Fails(b)
              /\ UNCHANGED <<archive, tree>>

(* shutil.copytree(selected, staged)                                       *)
CopyTree(b) == /\ pc[b] = "copy"
               /\ \/ /\ Goto(b, "stamp")
                     /\ staged' = [staged EXCEPT ![b] = Tree(IF @.bytes = "some" THEN "right" ELSE @.bytes, FALSE)]
                  \/ Fails(b)
               /\ UNCHANGED <<archive, tree>>

(* The manifest, with the digest of the tree, goes into it last.           *)
Stamp(b) == /\ pc[b] = "stamp"
            /\ staged' = [staged EXCEPT ![b] = Tree(@.bytes, TRUE)]
            /\ Goto(b, "replace")
            /\ UNCHANGED <<archive, tree>>

(* A slip: a rename that is refused is tried until it is not.              *)
ReplaceInTime(b) == /\ pc[b] = "replace"
                    /\ tree = Nothing
                    /\ tree' = staged[b]
                    /\ Goto(b, "return")
                    /\ staged' = [staged EXCEPT ![b] = Nothing]
                    /\ UNCHANGED archive

(* staged.replace(target): a directory that is not empty is not replaced,  *)
(* and the build that comes second fails.                                  *)
Replace(b) == /\ pc[b] = "replace"
              /\ tree' = IF tree = Nothing THEN staged[b] ELSE tree
              /\ Goto(b, IF tree = Nothing THEN "return" ELSE "failed")
              /\ staged' = [staged EXCEPT ![b] = Nothing]
              /\ UNCHANGED archive

Return(b) == /\ pc[b] = "return"
             /\ Goto(b, "returned")
             /\ UNCHANGED <<archive, tree, staged>>

(* What a killed build had in a temporary directory stays there, under a   *)
(* name nobody makes again.                                                *)
Kill(b) == /\ CanDie
           /\ pc[b] \in Working
           /\ Goto(b, "killed")
           /\ UNCHANGED <<archive, tree, staged>>

Step(b) == \/ Begin(b) \/ LookForArchive(b) \/ Download(b) \/ PutArchive(b) \/ LookForTree(b)
           \/ Verify(b) \/ Extract(b) \/ CopyTree(b) \/ Stamp(b) \/ Replace(b) \/ Return(b)

Next == \E b \in Builds : Step(b) \/ Kill(b)

Spec == Init /\ [][Next]_vars

Fairness == \A b \in Builds : WF_vars(Step(b))

-----------------------------------------------------------------------------
TypeOK == /\ archive \in Archives
          /\ tree \in Trees
          /\ staged \in [Builds -> Trees]
          /\ pc \in [Builds -> Working \cup Settled \cup {"unborn"}]

(* Nothing that is half done appears under a name other builds look at,    *)
(* whoever is killed where: what comes to stand at the archive's or the    *)
(* tree's place is whole at once, and is not touched again.                *)
OnlyWholeAppears == [][/\ archive' # archive => archive = "none" /\ archive' = "right"
                       /\ tree' # tree => tree = Nothing /\ tree' = Source]_vars

(* The cache is one that publishes once and serves what it published.      *)
Outcome(b) == CASE pc[b] = "returned"           -> "running"
                [] pc[b] \in {"failed", "killed"} -> "failed"
                [] OTHER                        -> "none"

Cache == INSTANCE ContentCache WITH Launches  <- Builds,
                                    published <- tree = Source,
                                    outcome   <- [b \in Builds |-> Outcome(b)]
IsAContentCache == Cache!Spec

(* Every build ends, also beside others and after ones that were killed.   *)
EveryBuildEnds == \A b \in Builds : <>(pc[b] \in Settled)
=============================================================================
