------------------------------- MODULE MCFetch -------------------------------
(***************************************************************************)
(* Two or three builds of four.  Two of them are of one project, and the   *)
(* command line makes them; the freezer makes the other two, out of one    *)
(* cache.  They fetch runtimes and wheels, or all fetch one locked source; *)
(* the cache of the sources is another one.                                *)
(***************************************************************************)
EXTENDS RuntimeFetch, Naturals, FiniteSets

CONSTANTS first, second,        \* the command line's
          third, fourth         \* the freezer's

VARIABLES who,                  \* the builds
          fetches,              \* "runtimes" or "sources"
          archive, tree, staged, spc                               \* of the sources

runtimes == vars
sources == <<archive, tree, staged, spc>>
chosen == <<who, fetches>>

Project == [b \in Builds |-> IF b \in Freezers THEN "theirs" ELSE "ours"]
Place == [b \in Builds |-> IF b \in Freezers THEN "cache" ELSE "beside"]

Source == INSTANCE SourceFetch WITH pc <- spc

(* A bound: two builds overlap as they like; of three, those that have a   *)
(* room in common are made one after the other.                            *)
Begins(b) == pc[b] = "unborn" /\ Cardinality(who) > 2 =>
                \A c \in who : Live(c) => Room[c] # Room[b]

(* Of the blobs one at most is damaged; as the digests are alike, it is    *)
(* always the same one.                                                    *)
MCInit == /\ Init
          /\ Source!Init
          /\ who \in {{first, second}, {third, fourth}, {first, second, third}, {first, third, fourth}}
          /\ fetches \in {"runtimes", "sources"}
          /\ \A d \in Digests : d # (CHOOSE e \in Digests : TRUE) => blob[d] = None
          /\ fetches = "sources" => who = {first, second, third} /\ \A d \in Digests : blob[d] = None
          /\ fetches = "runtimes" => archive = "none" /\ tree = Source!Nothing

Goes(b) == \/ fetches = "runtimes" /\ Begins(b) /\ Step(b) /\ UNCHANGED sources
           \/ fetches = "sources" /\ Source!Step(b) /\ UNCHANGED runtimes

Dies(b) == \/ fetches = "runtimes" /\ Kill(b) /\ UNCHANGED sources
           \/ fetches = "sources" /\ Source!Kill(b) /\ UNCHANGED runtimes

MCNext == /\ UNCHANGED chosen
          /\ \E b \in who : Goes(b) \/ Dies(b)

(* A build that can go on does; nothing promises that one is killed.       *)
MCSpec == /\ MCInit
          /\ [][MCNext]_<<chosen, runtimes, sources>>
          /\ \A b \in Builds : WF_<<chosen, runtimes, sources>>(UNCHANGED chosen /\ b \in who /\ Goes(b))

(* The cache of sources publishes once: SourceFetch.                       *)
SourcesAreACache == Source!IsAContentCache

(* Every build ends, beside others and after ones that were killed: both   *)
(* modules.                                                                *)
EveryFetchEnds ==
    \A b \in Builds : <>(b \in who => \/ fetches = "runtimes" /\ pc[b] \in Settled
                                      \/ fetches = "sources" /\ spc[b] \in Source!Settled)
=============================================================================
