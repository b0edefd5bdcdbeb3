------------------------------ MODULE FetchProofs ------------------------------
(***************************************************************************)
(* That builds which fetch keep what their lock files pin, for any number  *)
(* of builds, digests, lock files and rooms; and that the cache of locked  *)
(* sources is one that publishes once, whoever fails or is killed.         *)
(***************************************************************************)
EXTENDS MCFetch, TLAPS

(* Two builds in one room at once have met.                                *)
Exclusive == \A b, c \in Builds : Live(b) /\ Live(c) /\ b # c /\ Room[b] = Room[c]
                                    => b \in met /\ c \in met

(* What a build has read of its lock file is there still, but for one that *)
(* another has written; and none has, while an undisturbed freezer works.  *)
PinsHeldBy(b) == b \notin behind => Holds(b)
Abreast(b) == Live(b) /\ pc[b] # "load" /\ b \in Freezers /\ Undisturbed(b) => b \notin behind

(* What a build carries from one step to the next                          *)
Fetching(b) ==
    /\ pc[b] = "download" => Recorded(b) \in {None, want[b]}
    /\ pc[b] \in {"put", "record"} => got[b] \in Digests /\ Recorded(b) \in {None, got[b]}
    /\ pc[b] \in {"record", "clear", "clearing", "extract", "unpacking"}
          => got[b] \in Digests /\ blob[got[b]] = got[b]
    /\ pc[b] \in {"clear", "clearing", "extract", "unpacking"} => entries[b]["runtime"] = got[b]
    /\ pc[b] = "present" \/ (pc[b] = "load" /\ stage[b] = "wheel") => b \in Freezers
    /\ pc[b] \in {"unborn", "present", "clear", "clearing", "extract", "unpacking", "manifest", "writing"}
          => stage[b] = "runtime"

(* What is in the room of a build at work that nobody disturbs             *)
Unpacking(b) ==
    LET mine_ == pack[Room[b]]
        fresh == mine_.from = entries[b]["runtime"]
        whole == mine_.files = "all"
        marked == mine_.manifest = "good"
    IN  Undisturbed(b) =>
        /\ pc[b] = "extract" => mine_ = Nothing
        /\ pc[b] = "unpacking" => fresh /\ mine_.by = b
        /\ pc[b] \in {"manifest", "writing"} => fresh /\ whole
        /\ pc[b] = "writing" => mine_.manifest # "none"
        /\ pc[b] \in {"save", "saving"} /\ stage[b] = "runtime" => fresh /\ whole /\ marked
        /\ Live(b) /\ stage[b] = "wheel"
              => /\ whole /\ marked
                 /\ pc[b] = "load" => \/ lockfile[Lock[b]] = Torn
                                      \/ lockfile[Lock[b]]["runtime"] \in {None, mine_.from}
                 /\ pc[b] # "load" => entries[b]["runtime"] \in {None, mine_.from}

(* A freezer that fetches found no manifest, and there is none until its   *)
(* own.                                                                    *)
Absent(b) ==
    /\ Undisturbed(b) /\ b \in Freezers /\ stage[b] = "runtime"
    /\ pc[b] \in {"ask", "download", "put", "record", "clear", "clearing", "extract", "unpacking", "manifest"}
    => pack[Room[b]].manifest = "none"

(* What is in a freezer's room, whether one is at work in it or not        *)
KeptRoom(b) ==
    Undisturbed(b) /\ b \in Freezers /\ pack[Room[b]].manifest # "none"
       => /\ pack[Room[b]].files = "all"
          /\ \/ lockfile[Lock[b]] = Torn
             \/ lockfile[Lock[b]]["runtime"] \in {None, pack[Room[b]].from}

Own(b) == PinsHeldBy(b) /\ Abreast(b) /\ Fetching(b) /\ Unpacking(b) /\ Absent(b)

Inv == /\ TypeOK
       /\ Exclusive
       /\ \A b \in Builds : Own(b) /\ KeptRoom(b)

-----------------------------------------------------------------------------
(* What one step of build b leaves alone                                   *)
Touches(b) ==
    /\ \A c \in Builds \ {b} : /\ pc'[c] = pc[c] /\ entries'[c] = entries[c] /\ stage'[c] = stage[c]
                               /\ want'[c] = want[c] /\ got'[c] = got[c]
                               /\ c \in behind => c \in behind'
                               /\ c \in behind' => c \in behind \/ (Lock[c] = Lock[b] /\ Live(b))
    /\ \A l \in Locks \ {Lock[b]} : lockfile'[l] = lockfile[l]
    /\ \/ lockfile'[Lock[b]] \in {lockfile[Lock[b]], Torn}
       \/ \A c \in Builds \ {b} : Lock[c] = Lock[b] /\ Live(c) /\ pc[c] # "load" => c \in behind'
    /\ \A r \in Rooms \ {Room[b]} : pack'[r] = pack[r]
    /\ \A d \in Digests : blob'[d] \in {blob[d], d}
    /\ met \subseteq met'

(* Who is undisturbed has been so all along.                               *)
LEMMA UndisturbedSoFar ==
    ASSUME NEW b \in Builds, met \subseteq met', Undisturbed(b)'
    PROVE  Undisturbed(b)
BY DEF Undisturbed

(* What a deletion leaves is a runtime, or part of one.                    *)
LEMMA RemnantsArePacks ==
    ASSUME TypeOK, NEW b \in Builds
    PROVE  /\ pack[Room[b]] \in Packs /\ Nothing \in Packs
           /\ Remnants(pack[Room[b]]) \subseteq Packs
BY DEF TypeOK, Packs, Pack, Rooms, Remnants, Nothing

(* Every step keeps the types.                                             *)
LEMMA TypesKept ==
    ASSUME TypeOK, NEW b \in Builds, Fetching(b), Step(b) \/ Kill(b)
    PROVE  TypeOK'
<1> USE DEF TypeOK, Files, Entries, Packs, Pack, Nothing, Unpinned, Goto, Locks, Rooms, Working, Settled, disk, mine, Refused, Published, Recorded, others
<1>1. CASE Begin(b)
  BY <1>1 DEF Begin
<1>2. CASE Load(b)
  <2>1. CASE lockfile[Lock[b]] = Torn
    BY <1>2, <2>1 DEF Load
  <2>2. CASE lockfile[Lock[b]] # Torn
    <3>1. lockfile[Lock[b]] \in Entries
      BY <2>2
    <3>2. entries' = [entries EXCEPT ![b] = lockfile[Lock[b]]]
      BY <1>2, <2>2 DEF Load
    <3>3. entries' \in [Builds -> Entries]
      BY <3>1, <3>2
    <3>4. pc' \in [Builds -> Working \cup Settled \cup {"unborn"}]
      BY <1>2 DEF Load
    <3>5. QED
      BY <1>2, <3>3, <3>4 DEF Load
  <2>3. QED
    BY <2>1, <2>2
<1>3. CASE Present(b)
  BY <1>3 DEF Present
<1>4. CASE Ask(b)
  <2>1. entries[b][stage[b]] \in Digests \cup {None}
    OBVIOUS
  <2>2. /\ want' \in [Builds -> Digests \cup {None}]
        /\ got' \in [Builds -> Digests \cup {None}]
    BY <1>4, <2>1 DEF Ask
  <2>3. pc' \in [Builds -> Working \cup Settled \cup {"unborn"}]
    BY <1>4 DEF Ask
  <2>4. QED
    BY <1>4, <2>2, <2>3 DEF Ask
<1>5. CASE Download(b)
  BY <1>5 DEF Download
<1>6. CASE Put(b)
  BY <1>6 DEF Put, Fetching
<1>7. CASE Record(b)
  BY <1>7 DEF Record, Fetching
<1>8. CASE Clear(b)
  <2>1. pack[Room[b]] \in Packs /\ Remnants(pack[Room[b]]) \subseteq Packs
    BY RemnantsArePacks
  <2>2. pack' = pack \/ \E left \in Packs : pack' = [pack EXCEPT ![Room[b]] = left]
    BY <1>8, <2>1 DEF Clear
  <2>3. pack' \in [Rooms -> Packs]
    BY <2>2
  <2>4. pc' \in [Builds -> Working \cup Settled \cup {"unborn"}]
    BY <1>8 DEF Clear
  <2>5. QED
    BY <1>8, <2>3, <2>4 DEF Clear
<1>9. CASE FinishClearing(b)
  <2>1. /\ pack[Room[b]] \in Packs /\ Remnants(pack[Room[b]]) \subseteq Packs
        /\ Nothing \in Packs
    BY RemnantsArePacks
  <2>2. pack' = pack \/ \E left \in Packs : pack' = [pack EXCEPT ![Room[b]] = left]
    BY <1>9, <2>1 DEF FinishClearing
  <2>3. pack' \in [Rooms -> Packs]
    BY <2>2
  <2>4. pc' \in [Builds -> Working \cup Settled \cup {"unborn"}]
    BY <1>9 DEF FinishClearing
  <2>5. QED
    BY <1>9, <2>3, <2>4 DEF FinishClearing
<1>10. CASE Extract(b)
  <2>1. blob[got[b]] \in Digests
    BY <1>10 DEF Extract, Fetching
  <2>2. Over(pack[Room[b]], blob[got[b]]) \in Digests \cup {Spoilt}
    BY <2>1 DEF Over
  <2>3. Pack(Over(pack[Room[b]], blob[got[b]]), "some", pack[Room[b]].manifest, b) \in Packs
    BY <2>2
  <2>4. pack' \in [Rooms -> Packs]
    BY <1>10, <2>3 DEF Extract
  <2>5. pc' \in [Builds -> Working \cup Settled \cup {"unborn"}]
    BY <1>10 DEF Extract
  <2>6. QED
    BY <1>10, <2>4, <2>5 DEF Extract
<1>11. CASE FinishExtracting(b)
  <2>1. blob[got[b]] \in Digests
    BY <1>11 DEF FinishExtracting, Fetching
  <2>2. Over(pack[Room[b]], blob[got[b]]) \in Digests \cup {Spoilt}
    BY <2>1 DEF Over
  <2>3. /\ Pack(pack[Room[b]].from, "all", pack[Room[b]].manifest, None) \in Packs
        /\ \A files \in {"some", "all"} :
              Pack(Over(pack[Room[b]], blob[got[b]]), files, pack[Room[b]].manifest, pack[Room[b]].by) \in Packs
    BY <2>2
  <2>4. \E made \in Packs : pack' = [pack EXCEPT ![Room[b]] = made]
    BY <1>11, <2>3 DEF FinishExtracting
  <2>5. pack' \in [Rooms -> Packs]
    BY <2>4
  <2>6. /\ pc' \in [Builds -> Working \cup Settled \cup {"unborn"}]
        /\ got' \in [Builds -> Digests \cup {None}]
    BY <1>11 DEF FinishExtracting
  <2>7. QED
    BY <1>11, <2>5, <2>6 DEF FinishExtracting
<1>12. CASE Manifest(b)
  <2>1. [pack[Room[b]] EXCEPT !.manifest = "torn"] \in Packs
    <3>1. pack[Room[b]] \in Packs
      OBVIOUS
    <3>2. QED
      BY <3>1
  <2>2. pack' = pack \/ \E made \in Packs : pack' = [pack EXCEPT ![Room[b]] = made]
    BY <1>12, <2>1 DEF Manifest
  <2>3. pack' \in [Rooms -> Packs]
    BY <2>2
  <2>4. pc' \in [Builds -> Working \cup Settled \cup {"unborn"}]
    BY <1>12 DEF Manifest
  <2>5. QED
    BY <1>12, <2>3, <2>4 DEF Manifest
<1>13. CASE FinishManifest(b)
  BY <1>13 DEF FinishManifest
<1>14. CASE Save(b)
  BY <1>14 DEF Save
<1>15. CASE FinishSaving(b)
  BY <1>15 DEF FinishSaving
<1>16. CASE Kill(b)
  BY <1>16 DEF Kill
<1>17. QED
  BY <1>1, <1>2, <1>3, <1>4, <1>5, <1>6, <1>7, <1>8, <1>9, <1>10, <1>11, <1>12, <1>13, <1>14, <1>15, <1>16 DEF Step

(* A step touches what is the build's own, and of the blobs makes one      *)
(* right.                                                                  *)
LEMMA StepTouches ==
    ASSUME TypeOK, NEW b \in Builds, Fetching(b), Step(b) \/ Kill(b)
    PROVE  Touches(b)
<1> USE DEF TypeOK, Goto, Locks, Rooms, disk, mine, others, Refused, Touches, Live, Working
<1>1. CASE Begin(b)
  <2>1. met \subseteq met'
    BY <1>1 DEF Begin
  <2>2. /\ pc' = [pc EXCEPT ![b] = "load"] /\ behind' = behind
        /\ blob' = blob /\ lockfile' = lockfile /\ pack' = pack
        /\ entries' = entries /\ stage' = stage /\ want' = want /\ got' = got
    BY <1>1 DEF Begin
  <2>3. QED
    BY <2>1, <2>2
<1>2. CASE Load(b)
  BY <1>2 DEF Load
<1>3. CASE Present(b)
  BY <1>3 DEF Present
<1>4. CASE Ask(b)
  BY <1>4 DEF Ask
<1>5. CASE Download(b)
  BY <1>5 DEF Download
<1>6. CASE Put(b)
  BY <1>6 DEF Put, Fetching
<1>7. CASE Record(b)
  BY <1>7 DEF Record
<1>8. CASE Clear(b)
  BY <1>8 DEF Clear
<1>9. CASE FinishClearing(b)
  BY <1>9 DEF FinishClearing
<1>10. CASE Extract(b)
  BY <1>10 DEF Extract
<1>11. CASE FinishExtracting(b)
  BY <1>11 DEF FinishExtracting
<1>12. CASE Manifest(b)
  BY <1>12 DEF Manifest
<1>13. CASE FinishManifest(b)
  BY <1>13 DEF FinishManifest
<1>14. CASE Save(b)
  BY <1>14 DEF Save
<1>15. CASE FinishSaving(b)
  BY <1>15 DEF FinishSaving
<1>16. CASE Kill(b)
  BY <1>16 DEF Kill
<1>17. QED
  BY <1>1, <1>2, <1>3, <1>4, <1>5, <1>6, <1>7, <1>8, <1>9, <1>10, <1>11, <1>12, <1>13, <1>14, <1>15, <1>16 DEF Step

(* A step of b that another build would notice is one while b is live, in  *)
(* a room they have met in.                                                *)
LEMMA WhoIsLive ==
    ASSUME TypeOK, NEW b \in Builds, Step(b) \/ Kill(b)
    PROVE  \/ Live(b) /\ met' = met
           \/ Begin(b)
<1> USE DEF Live, Working, others
<1>1. CASE Begin(b)
  BY <1>1 DEF Begin
<1>2. CASE Load(b)
  BY <1>2 DEF Load
<1>3. CASE Present(b)
  BY <1>3 DEF Present
<1>4. CASE Ask(b)
  BY <1>4 DEF Ask
<1>5. CASE Download(b)
  BY <1>5 DEF Download
<1>6. CASE Put(b)
  BY <1>6 DEF Put
<1>7. CASE Record(b)
  BY <1>7 DEF Record
<1>8. CASE Clear(b)
  BY <1>8 DEF Clear
<1>9. CASE FinishClearing(b)
  BY <1>9 DEF FinishClearing
<1>10. CASE Extract(b)
  BY <1>10 DEF Extract
<1>11. CASE FinishExtracting(b)
  BY <1>11 DEF FinishExtracting
<1>12. CASE Manifest(b)
  BY <1>12 DEF Manifest
<1>13. CASE FinishManifest(b)
  BY <1>13 DEF FinishManifest
<1>14. CASE Save(b)
  BY <1>14 DEF Save
<1>15. CASE FinishSaving(b)
  BY <1>15 DEF FinishSaving
<1>16. CASE Kill(b)
  BY <1>16 DEF Kill
<1>17. QED
  BY <1>1, <1>2, <1>3, <1>4, <1>5, <1>6, <1>7, <1>8, <1>9, <1>10, <1>11, <1>12, <1>13, <1>14, <1>15, <1>16 DEF Step

(* The other builds keep what they have.                                   *)
LEMMA OthersKept ==
    ASSUME TypeOK, NEW b \in Builds, NEW c \in Builds, c # b, Own(c), Touches(b),
           Live(c) /\ Undisturbed(c)' =>
              \/ Room[c] # Room[b] /\ (c \in Freezers => Lock[c] # Lock[b])
              \/ lockfile' = lockfile /\ pack' = pack /\ behind' = behind
    PROVE  Own(c)'
<1>1. /\ pc'[c] = pc[c] /\ entries'[c] = entries[c] /\ stage'[c] = stage[c]
      /\ want'[c] = want[c] /\ got'[c] = got[c]
  BY DEF Touches
<1>2. \A d \in Digests : blob'[d] \in {blob[d], d}
  BY DEF Touches
<1>3. Undisturbed(c)' => Undisturbed(c)
  BY UndisturbedSoFar DEF Touches
<1>4. PinsHeldBy(c)'
  <2>1. Lock[c] # Lock[b] => lockfile'[Lock[c]] = lockfile[Lock[c]]
    BY DEF Touches, Locks
  <2>2. CASE lockfile'[Lock[c]] \in {lockfile[Lock[c]], Torn}
    BY <1>1, <2>2 DEF Own, PinsHeldBy, Holds, Live, Touches
  <2>3. CASE Lock[c] = Lock[b] /\ (Live(c) /\ pc[c] # "load" => c \in behind')
    BY <1>1, <2>3 DEF PinsHeldBy, Holds, Live
  <2>4. QED
    BY <2>1, <2>2, <2>3 DEF Touches
<1>5. Fetching(c)'
  BY <1>1, <1>2 DEF Own, Fetching, Recorded
<1>6. CASE ~Live(c) \/ ~Undisturbed(c)'
  BY <1>1, <1>4, <1>5, <1>6 DEF Own, Abreast, Unpacking, Absent, Live, Working
<1>7. CASE Live(c) /\ Undisturbed(c)'
  <2>1. /\ pack'[Room[c]] = pack[Room[c]]
        /\ c \in Freezers => lockfile'[Lock[c]] = lockfile[Lock[c]] /\ (c \in behind' => c \in behind)
    BY <1>7 DEF Touches, Locks, Rooms
  <2>2. Abreast(c)'
    BY <1>1, <1>3, <1>7, <2>1 DEF Own, Abreast
  <2>3. Unpacking(c)'
    BY <1>1, <1>3, <1>7, <2>1 DEF Own, Unpacking, Fetching, Live
  <2>4. Absent(c)'
    BY <1>1, <1>3, <1>7, <2>1 DEF Own, Absent
  <2>5. QED
    BY <1>4, <1>5, <2>2, <2>3, <2>4 DEF Own
<1>8. QED
  BY <1>6, <1>7

(* A step of a build keeps what it has of its lock file.                   *)
LEMMA PinsHeldByKept ==
    ASSUME TypeOK, NEW b \in Builds, Own(b), KeptRoom(b), Step(b) \/ Kill(b),
           Undisturbed(b)' => Undisturbed(b)
    PROVE  PinsHeldBy(b)'
<1> USE DEF TypeOK, Goto, disk, mine, others, Own, Live, Working, Locks, Rooms, PinsHeldBy, Holds, Fetching
<1>1. CASE Begin(b)
  BY <1>1 DEF Begin
<1>2. CASE Load(b)
  BY <1>2 DEF Load
<1>3. CASE Present(b)
  BY <1>3 DEF Present
<1>4. CASE Ask(b)
  BY <1>4 DEF Ask, Refused, Published, Recorded
<1>5. CASE Download(b)
  BY <1>5 DEF Download, Refused, Recorded
<1>6. CASE Put(b)
  BY <1>6 DEF Put, Recorded
<1>7. CASE Record(b)
  BY <1>7 DEF Record, Recorded
<1>8. CASE Clear(b)
  BY <1>8 DEF Clear
<1>9. CASE FinishClearing(b)
  BY <1>9 DEF FinishClearing
<1>10. CASE Extract(b)
  BY <1>10 DEF Extract
<1>11. CASE FinishExtracting(b)
  BY <1>11 DEF FinishExtracting
<1>12. CASE Manifest(b)
  BY <1>12 DEF Manifest
<1>13. CASE FinishManifest(b)
  BY <1>13 DEF FinishManifest
<1>14. CASE Save(b)
  BY <1>14 DEF Save
<1>15. CASE FinishSaving(b)
  BY <1>15 DEF FinishSaving
<1>16. CASE Kill(b)
  BY <1>16 DEF Kill
<1>17. QED
  BY <1>1, <1>2, <1>3, <1>4, <1>5, <1>6, <1>7, <1>8, <1>9, <1>10, <1>11, <1>12, <1>13, <1>14, <1>15, <1>16 DEF Step

(* A step of a build keeps to the digest it must have.                     *)
LEMMA FetchingKept ==
    ASSUME TypeOK, NEW b \in Builds, Own(b), KeptRoom(b), Step(b) \/ Kill(b),
           Undisturbed(b)' => Undisturbed(b)
    PROVE  Fetching(b)'
<1> USE DEF TypeOK, Goto, disk, mine, others, Own, Live, Working, Locks, Rooms, Fetching
<1>1. CASE Begin(b)
  BY <1>1 DEF Begin
<1>2. CASE Load(b)
  BY <1>2 DEF Load
<1>3. CASE Present(b)
  <2>1. pc[b] = "present" /\ b \in Freezers
    BY <1>3 DEF Present
  <2>2. \/ pc'[b] = "ask" \/ pc'[b] = "failed" \/ pc'[b] = "load"
    BY <1>3 DEF Present
  <2>3. QED
    BY <2>1, <2>2
<1>4. CASE Ask(b)
  <2>1. PICK published \in Published(b) :
           IF None \notin {Recorded(b), published} /\ Recorded(b) # published
           THEN Refused(b) /\ UNCHANGED <<want, got>>
           ELSE LET expected == IF Recorded(b) # None THEN Recorded(b) ELSE published
                    hit == expected # None /\ blob[expected] = expected
                IN  /\ want' = [want EXCEPT ![b] = expected]
                    /\ got' = [got EXCEPT ![b] = IF hit THEN expected ELSE None]
                    /\ Goto(b, IF hit THEN "record" ELSE "download")
    BY <1>4 DEF Ask
  <2>2. entries' = entries /\ stage' = stage /\ blob' = blob
    BY <1>4 DEF Ask
  <2>3. Recorded(b) \in Digests \cup {None} /\ published \in Digests \cup {None}
    BY DEF Recorded, Published, Files, Entries
  <2>4. CASE None \notin {Recorded(b), published} /\ Recorded(b) # published
    BY <2>1, <2>2, <2>4 DEF Refused
  <2>5. CASE ~(None \notin {Recorded(b), published} /\ Recorded(b) # published)
    <3> DEFINE expected == IF Recorded(b) # None THEN Recorded(b) ELSE published
    <3>1. Recorded(b) \in {None, expected} /\ expected \in Digests \cup {None}
      BY <2>3
    <3>2. CASE expected # None /\ blob[expected] = expected
      <4>1. pc'[b] = "record" /\ got'[b] = expected
        BY <2>1, <2>5, <3>2
      <4>2. QED
        BY <2>2, <3>1, <3>2, <4>1 DEF Recorded
    <3>3. CASE ~(expected # None /\ blob[expected] = expected)
      <4>1. pc'[b] = "download" /\ want'[b] = expected
        BY <2>1, <2>5, <3>3
      <4>2. QED
        BY <2>2, <3>1, <4>1 DEF Recorded
    <3>4. QED
      BY <3>2, <3>3
  <2>6. QED
    BY <2>4, <2>5
<1>5. CASE Download(b)
  BY <1>5 DEF Download, Refused, Recorded
<1>6. CASE Put(b)
  BY <1>6 DEF Put, Recorded
<1>7. CASE Record(b)
  <2>1. CASE stage[b] = "wheel"
    BY <1>7, <2>1 DEF Record
  <2>2. CASE stage[b] = "runtime"
    <3>1. entries'[b]["runtime"] = got[b]
      BY <1>7, <2>2 DEF Record, Entries, Files
    <3>2. pc'[b] = "clear" /\ got'[b] = got[b] /\ stage'[b] = "runtime" /\ blob' = blob
      BY <1>7, <2>2 DEF Record
    <3>3. QED
      BY <1>7, <3>1, <3>2 DEF Record
  <2>3. QED
    BY <2>1, <2>2 DEF Files
<1>8. CASE Clear(b)
  BY <1>8 DEF Clear
<1>9. CASE FinishClearing(b)
  BY <1>9 DEF FinishClearing
<1>10. CASE Extract(b)
  BY <1>10 DEF Extract
<1>11. CASE FinishExtracting(b)
  BY <1>11 DEF FinishExtracting
<1>12. CASE Manifest(b)
  BY <1>12 DEF Manifest
<1>13. CASE FinishManifest(b)
  BY <1>13 DEF FinishManifest
<1>14. CASE Save(b)
  BY <1>14 DEF Save
<1>15. CASE FinishSaving(b)
  BY <1>15 DEF FinishSaving
<1>16. CASE Kill(b)
  BY <1>16 DEF Kill
<1>17. QED
  BY <1>1, <1>2, <1>3, <1>4, <1>5, <1>6, <1>7, <1>8, <1>9, <1>10, <1>11, <1>12, <1>13, <1>14, <1>15, <1>16 DEF Step

(* A step of a build keeps its runtime to the digest it recorded.          *)
LEMMA UnpackingKept ==
    ASSUME TypeOK, NEW b \in Builds, Own(b), KeptRoom(b), Step(b) \/ Kill(b),
           Undisturbed(b)' => Undisturbed(b)
    PROVE  Unpacking(b)'
<1> USE DEF TypeOK, Goto, disk, mine, others, Own, Live, Working, Locks, Rooms, Unpacking, Fetching
<1>1. CASE Begin(b)
  BY <1>1 DEF Begin
<1>2. CASE Load(b)
  BY <1>2 DEF Load
<1>3. CASE Present(b)
  <2>1. pc[b] = "present" /\ b \in Freezers /\ lockfile' = lockfile /\ pack' = pack
    BY <1>3 DEF Present
  <2>2. \/ pc'[b] = "ask" /\ stage' = stage
        \/ pc'[b] = "failed"
        \/ pc'[b] = "load" /\ pack[Room[b]].manifest = "good"
    BY <1>3 DEF Present
  <2>3. QED
    BY <2>1, <2>2 DEF KeptRoom
<1>4. CASE Ask(b)
  BY <1>4 DEF Ask, Refused, Published, Recorded
<1>5. CASE Download(b)
  BY <1>5 DEF Download, Refused, Recorded
<1>6. CASE Put(b)
  BY <1>6 DEF Put, Recorded
<1>7. CASE Record(b)
  BY <1>7 DEF Record, Recorded
<1>8. CASE Clear(b)
  BY <1>8 DEF Clear
<1>9. CASE FinishClearing(b)
  BY <1>9 DEF FinishClearing
<1>10. CASE Extract(b)
  BY <1>10 DEF Extract, Pack, Nothing, Over
<1>11. CASE FinishExtracting(b)
  BY <1>11 DEF FinishExtracting, Pack
<1>12. CASE Manifest(b)
  <2>1. pc[b] = "manifest" /\ stage[b] = "runtime" /\ entries' = entries /\ stage' = stage
    BY <1>12 DEF Manifest
  <2>2. CASE pc'[b] = "failed"
    BY <2>1, <2>2
  <2>3. CASE pc'[b] # "failed"
    <3>1. pc'[b] = "writing" /\ pack' = [pack EXCEPT ![Room[b]].manifest = "torn"]
      BY <1>12, <2>3 DEF Manifest
    <3>2. pack[Room[b]] \in Packs
      OBVIOUS
    <3>3. /\ pack'[Room[b]].manifest = "torn"
          /\ pack'[Room[b]].from = pack[Room[b]].from /\ pack'[Room[b]].files = pack[Room[b]].files
      BY <3>1, <3>2 DEF Packs
    <3>4. QED
      BY <2>1, <3>1, <3>3
  <2>4. QED
    BY <2>2, <2>3
<1>13. CASE FinishManifest(b)
  BY <1>13 DEF FinishManifest
<1>14. CASE Save(b)
  BY <1>14 DEF Save
<1>15. CASE FinishSaving(b)
  BY <1>15 DEF FinishSaving
<1>16. CASE Kill(b)
  BY <1>16 DEF Kill
<1>17. QED
  BY <1>1, <1>2, <1>3, <1>4, <1>5, <1>6, <1>7, <1>8, <1>9, <1>10, <1>11, <1>12, <1>13, <1>14, <1>15, <1>16 DEF Step

(* Nobody writes the lock file of a freezer that is undisturbed.           *)
LEMMA AbreastKept ==
    ASSUME TypeOK, NEW b \in Builds, Own(b), KeptRoom(b), Step(b) \/ Kill(b),
           Undisturbed(b)' => Undisturbed(b)
    PROVE  Abreast(b)'
<1> USE DEF TypeOK, Goto, disk, mine, others, Own, Live, Working, Abreast
<1>1. CASE Begin(b)
  BY <1>1 DEF Begin
<1>2. CASE Load(b)
  BY <1>2 DEF Load
<1>3. CASE Present(b)
  BY <1>3 DEF Present
<1>4. CASE Ask(b)
  BY <1>4 DEF Ask, Refused
<1>5. CASE Download(b)
  BY <1>5 DEF Download, Refused
<1>6. CASE Put(b)
  BY <1>6 DEF Put
<1>7. CASE Record(b)
  BY <1>7 DEF Record
<1>8. CASE Clear(b)
  BY <1>8 DEF Clear
<1>9. CASE FinishClearing(b)
  BY <1>9 DEF FinishClearing
<1>10. CASE Extract(b)
  BY <1>10 DEF Extract
<1>11. CASE FinishExtracting(b)
  BY <1>11 DEF FinishExtracting
<1>12. CASE Manifest(b)
  BY <1>12 DEF Manifest
<1>13. CASE FinishManifest(b)
  BY <1>13 DEF FinishManifest
<1>14. CASE Save(b)
  BY <1>14 DEF Save
<1>15. CASE FinishSaving(b)
  BY <1>15 DEF FinishSaving
<1>16. CASE Kill(b)
  BY <1>16 DEF Kill
<1>17. QED
  BY <1>1, <1>2, <1>3, <1>4, <1>5, <1>6, <1>7, <1>8, <1>9, <1>10, <1>11, <1>12, <1>13, <1>14, <1>15, <1>16 DEF Step

(* A freezer that fetches makes no manifest before its time.               *)
LEMMA AbsentKept ==
    ASSUME TypeOK, NEW b \in Builds, Own(b), KeptRoom(b), Step(b) \/ Kill(b),
           Undisturbed(b)' => Undisturbed(b)
    PROVE  Absent(b)'
<1> USE DEF TypeOK, Goto, disk, mine, others, Own, Live, Working, Locks, Rooms, Absent, Fetching
<1>1. CASE Begin(b)
  BY <1>1 DEF Begin
<1>2. CASE Load(b)
  BY <1>2 DEF Load
<1>3. CASE Present(b)
  BY <1>3 DEF Present
<1>4. CASE Ask(b)
  BY <1>4 DEF Ask, Refused, Published, Recorded
<1>5. CASE Download(b)
  BY <1>5 DEF Download, Refused, Recorded
<1>6. CASE Put(b)
  BY <1>6 DEF Put, Recorded
<1>7. CASE Record(b)
  BY <1>7 DEF Record, Recorded
<1>8. CASE Clear(b)
  <2>1. pc[b] = "clear" /\ stage' = stage
    BY <1>8 DEF Clear
  <2>2. Undisturbed(b)' /\ b \in Freezers /\ stage[b] = "runtime" => pack[Room[b]].manifest = "none"
    BY <2>1
  <2>3. \A left \in Remnants(pack[Room[b]]) :
           pack[Room[b]].manifest = "none" => left.manifest = "none"
    BY DEF Remnants, Pack
  <2>4. \/ pack' = pack
        \/ \E left \in Remnants(pack[Room[b]]) : pack' = [pack EXCEPT ![Room[b]] = left]
    BY <1>8 DEF Clear
  <2>5. QED
    BY <2>1, <2>2, <2>3, <2>4
<1>9. CASE FinishClearing(b)
  BY <1>9 DEF FinishClearing, Pack, Nothing, Remnants
<1>10. CASE Extract(b)
  BY <1>10 DEF Extract, Pack
<1>11. CASE FinishExtracting(b)
  BY <1>11 DEF FinishExtracting, Pack
<1>12. CASE Manifest(b)
  BY <1>12 DEF Manifest
<1>13. CASE FinishManifest(b)
  BY <1>13 DEF FinishManifest
<1>14. CASE Save(b)
  BY <1>14 DEF Save
<1>15. CASE FinishSaving(b)
  BY <1>15 DEF FinishSaving
<1>16. CASE Kill(b)
  BY <1>16 DEF Kill
<1>17. QED
  BY <1>1, <1>2, <1>3, <1>4, <1>5, <1>6, <1>7, <1>8, <1>9, <1>10, <1>11, <1>12, <1>13, <1>14, <1>15, <1>16 DEF Step

(* A step of a freezer keeps what can be found in its room.                *)
LEMMA OwnRoomKept ==
    ASSUME TypeOK, NEW b \in Builds, Own(b), KeptRoom(b), Step(b) \/ Kill(b),
           Undisturbed(b)' => Undisturbed(b)
    PROVE  KeptRoom(b)'
<1> USE DEF TypeOK, Goto, disk, mine, others, Own, Live, Working, Locks, Rooms, KeptRoom, Absent
<1>1. CASE Begin(b)
  BY <1>1 DEF Begin
<1>2. CASE Load(b)
  BY <1>2 DEF Load
<1>3. CASE Present(b)
  BY <1>3 DEF Present
<1>4. CASE Ask(b)
  BY <1>4 DEF Ask
<1>5. CASE Download(b)
  BY <1>5 DEF Download
<1>6. CASE Put(b)
  BY <1>6 DEF Put
<1>7. CASE Record(b)
  BY <1>7 DEF Record
<1>8. CASE Clear(b)
  <2>1. pc[b] = "clear" /\ lockfile' = lockfile
    BY <1>8 DEF Clear
  <2>2. Undisturbed(b)' /\ b \in Freezers => pack[Room[b]].manifest = "none"
    BY <2>1 DEF Fetching
  <2>3. \A left \in Remnants(pack[Room[b]]) :
           pack[Room[b]].manifest = "none" => left.manifest = "none"
    BY DEF Remnants, Pack
  <2>4. \/ pack' = pack
        \/ \E left \in Remnants(pack[Room[b]]) : pack' = [pack EXCEPT ![Room[b]] = left]
    BY <1>8 DEF Clear
  <2>5. Undisturbed(b)' /\ b \in Freezers => pack'[Room[b]].manifest = "none"
    BY <2>2, <2>3, <2>4
  <2>6. QED
    BY <2>5
<1>9. CASE FinishClearing(b)
  <2>1. pc[b] = "clearing" /\ pc'[b] # "unborn" /\ lockfile' = lockfile
    BY <1>9 DEF FinishClearing
  <2>2. Undisturbed(b)' /\ b \in Freezers => pack[Room[b]].manifest = "none"
    BY <2>1 DEF Fetching
  <2>3. \A left \in Remnants(pack[Room[b]]) \cup {Nothing} :
           pack[Room[b]].manifest = "none" => left.manifest = "none"
    BY DEF Remnants, Pack, Nothing
  <2>4. \/ pack' = pack
        \/ \E left \in Remnants(pack[Room[b]]) \cup {Nothing, pack[Room[b]]} :
              pack' = [pack EXCEPT ![Room[b]] = left]
    BY <1>9 DEF FinishClearing
  <2>5. Undisturbed(b)' /\ b \in Freezers => pack'[Room[b]].manifest = "none"
    BY <2>2, <2>3, <2>4
  <2>6. QED
    BY <2>5
<1>10. CASE Extract(b)
  BY <1>10 DEF Extract, Pack, Fetching
<1>11. CASE FinishExtracting(b)
  BY <1>11 DEF FinishExtracting, Pack, Fetching
<1>12. CASE Manifest(b)
  BY <1>12 DEF Manifest, Fetching, Unpacking, PinsHeldBy, Holds, Abreast, Files, Entries, Packs
<1>13. CASE FinishManifest(b)
  BY <1>13 DEF FinishManifest, Fetching, Unpacking, PinsHeldBy, Holds, Abreast, Files, Entries, Packs
<1>14. CASE Save(b)
  BY <1>14 DEF Save
<1>15. CASE FinishSaving(b)
  BY <1>15 DEF FinishSaving, Unpacking, Files, Entries
<1>16. CASE Kill(b)
  BY <1>16 DEF Kill
<1>17. QED
  BY <1>1, <1>2, <1>3, <1>4, <1>5, <1>6, <1>7, <1>8, <1>9, <1>10, <1>11, <1>12, <1>13, <1>14, <1>15, <1>16 DEF Step

(* The rooms of the others are as they were, or the build's own.           *)
LEMMA RoomsKept ==
    ASSUME TypeOK, NEW b \in Builds, NEW c \in Builds, Own(b), KeptRoom(b), KeptRoom(c),
           Step(b) \/ Kill(b), Touches(b)
    PROVE  KeptRoom(c)'
<1> SUFFICES ASSUME Undisturbed(c)', c \in Freezers PROVE KeptRoom(c)'
  BY DEF KeptRoom
<1>1. Undisturbed(c)
  BY UndisturbedSoFar DEF Touches
<1>2. KeptRoom(b)'
  BY UndisturbedSoFar, OwnRoomKept DEF Touches
<1>3. CASE Room[b] = Room[c] \/ Lock[b] = Lock[c]
  <2>1. b \in Freezers /\ Room[b] = Room[c] /\ Lock[b] = Lock[c] /\ b \notin met'
    BY <1>3 DEF Undisturbed
  <2>2. Undisturbed(b)'
    BY <2>1 DEF Undisturbed
  <2>3. QED
    BY <1>2, <2>1, <2>2 DEF KeptRoom
<1>4. CASE Room[b] # Room[c] /\ Lock[b] # Lock[c]
  <2>1. lockfile'[Lock[c]] = lockfile[Lock[c]] /\ pack'[Room[c]] = pack[Room[c]]
    BY <1>4 DEF Touches, Locks, Rooms
  <2>2. QED
    BY <1>1, <2>1 DEF KeptRoom
<1>5. QED
  BY <1>3, <1>4

(* Whoever begins in a room where another is at work has met it.           *)
LEMMA ExclusiveKept ==
    ASSUME TypeOK, Exclusive, NEW b \in Builds, Step(b) \/ Kill(b), Touches(b)
    PROVE  Exclusive'
<1>1. \A c \in Builds : c # b => (Live(c)' <=> Live(c))
  BY DEF Touches, Live
<1>2. met \subseteq met'
  BY DEF Touches
<1>3. CASE Live(b)
  BY <1>1, <1>2, <1>3 DEF Exclusive
<1>4. CASE Begin(b)
  <2>1. \A c \in Builds : Live(c) /\ Room[c] = Room[b] => c \in met' /\ b \in met'
    BY <1>4 DEF Begin
  <2>2. QED
    BY <1>1, <1>2, <2>1 DEF Exclusive
<1>5. QED
  BY <1>3, <1>4, WhoIsLive

LEMMA InvInit == Init => Inv
<1> SUFFICES ASSUME Init PROVE Inv
  OBVIOUS
<1> USE DEF Init
<1>1. TypeOK
  BY DEF TypeOK, Entries, Files, Packs, Pack, Nothing, Unpinned, Working, Settled
<1>2. \A b \in Builds : pc[b] = "unborn" /\ stage[b] = "runtime" /\ Room[b] \in Rooms
  BY DEF Rooms
<1>3. \A b \in Builds : pack[Room[b]].manifest = "none"
  BY <1>2 DEF Nothing, Pack
<1>4. Exclusive
  BY <1>2 DEF Exclusive, Live, Working
<1>5. \A b \in Builds : Own(b)
  BY <1>2 DEF Own, PinsHeldBy, Holds, Abreast, Fetching, Unpacking, Absent, Live, Working
<1>6. \A b \in Builds : KeptRoom(b)
  BY <1>3 DEF KeptRoom
<1>7. QED
  BY <1>1, <1>4, <1>5, <1>6 DEF Inv

LEMMA InvNext == ASSUME Inv, [Next]_vars PROVE Inv'
<1>1. CASE UNCHANGED vars
  BY <1>1 DEF vars, Inv, TypeOK, Exclusive, Own, PinsHeldBy, Holds, Abreast, Fetching, Unpacking,
              Absent, KeptRoom, Live, Recorded, Undisturbed
<1>2. ASSUME NEW b \in Builds, Step(b) \/ Kill(b) PROVE Inv'
  <2>1. TypeOK /\ Exclusive /\ (\A c \in Builds : Own(c) /\ KeptRoom(c)) /\ Fetching(b)
    BY DEF Inv, Own
  <2>2. Touches(b)
    BY <1>2, <2>1, StepTouches
  <2>3. TypeOK'
    BY <1>2, <2>1, TypesKept
  <2>4. Exclusive'
    BY <1>2, <2>1, <2>2, ExclusiveKept
  <2>5. Own(b)'
    <3>0. Undisturbed(b)' => Undisturbed(b)
      BY <2>2, UndisturbedSoFar DEF Touches
    <3>1. PinsHeldBy(b)'
      BY <1>2, <2>1, <3>0, PinsHeldByKept
    <3>2. Fetching(b)'
      BY <1>2, <2>1, <3>0, FetchingKept
    <3>3. Unpacking(b)'
      BY <1>2, <2>1, <3>0, UnpackingKept
    <3>4. Absent(b)'
      BY <1>2, <2>1, <3>0, AbsentKept
    <3>5. Abreast(b)'
      BY <1>2, <2>1, <3>0, AbreastKept
    <3>6. QED
      BY <3>1, <3>2, <3>3, <3>4, <3>5 DEF Own
  <2>6. ASSUME NEW c \in Builds, c # b PROVE Own(c)'
    <3>1. Live(c) /\ Undisturbed(c)' =>
             \/ Room[c] # Room[b] /\ (c \in Freezers => Lock[c] # Lock[b])
             \/ lockfile' = lockfile /\ pack' = pack /\ behind' = behind
      <4> SUFFICES ASSUME Live(c), Undisturbed(c)', ~Begin(b)
                   PROVE  Room[c] # Room[b] /\ (c \in Freezers => Lock[c] # Lock[b])
        BY DEF Begin, disk
      <4>1. Live(b)
        BY <1>2, <2>1, WhoIsLive
      <4>2. c \notin met
        BY <2>2 DEF Undisturbed, Touches
      <4>3. Room[c] # Room[b]
        BY <2>1, <2>6, <4>1, <4>2 DEF Exclusive
      <4>4. c \in Freezers => Lock[c] # Lock[b]
        BY <4>3 DEF Undisturbed
      <4>5. QED
        BY <4>3, <4>4
    <3>2. QED
      BY <2>1, <2>2, <2>6, <3>1, OthersKept
  <2>7. ASSUME NEW c \in Builds PROVE KeptRoom(c)'
    BY <1>2, <2>1, <2>2, RoomsKept
  <2>8. QED
    BY <2>3, <2>4, <2>5, <2>6, <2>7 DEF Inv
<1>3. QED
  BY <1>1, <1>2 DEF Next

(* The invariant                                                           *)
THEOREM Invariance == Spec => []Inv
BY InvInit, InvNext, PTL DEF Spec

(* A pin stays: a build writes back every digest its lock file names, if   *)
(* no other build has written the file since this one read it.             *)
THEOREM PinsAreKept == Spec => []PinsKept
<1>1. Inv => PinsKept
  BY DEF Inv, Own, PinsHeldBy, PinsKept
<1>2. QED
  BY <1>1, Invariance, PTL

(* What a build records and unpacks has the digest of its name, and is     *)
(* what was pinned, with as many builds at it as there are.                *)
THEOREM TakesWhatIsPinnedHolds == Spec => []TakesWhatIsPinned
<1>1. Inv => TakesWhatIsPinned
  BY DEF Inv, Own, Fetching, TakesWhatIsPinned, Recorded
<1>2. QED
  BY <1>1, Invariance, PTL

(* A build that is done, and that no other has met in its room, has a      *)
(* whole runtime, and the one its lock names.                              *)
THEOREM DoneIsPinned == Spec => DoneWithWhatIsPinned
<1>1. ASSUME Inv, [Next]_vars PROVE FinishesWithWhatIsPinned
  <2> SUFFICES ASSUME NEW b \in Builds, pc[b] # "done", pc'[b] = "done", Undisturbed(b)
               PROVE  WholeAsPinned(b)
    BY DEF FinishesWithWhatIsPinned
  <2>1. TypeOK /\ Own(b)
    BY <1>1 DEF Inv
  <2>2. FinishSaving(b)
    <3>1. PICK c \in Builds : Step(c) \/ Kill(c)
      BY <1>1 DEF vars, Next
    <3>2. c = b
      BY <1>1, <3>1, StepTouches DEF Inv, Own, Touches
    <3>3. ~Kill(b) /\ ~Begin(b) /\ ~Load(b) /\ ~Present(b) /\ ~Ask(b) /\ ~Download(b)
      BY <2>1 DEF TypeOK, Kill, Begin, Load, Present, Ask, Download, Goto, Refused
    <3>4. ~Put(b) /\ ~Record(b) /\ ~Clear(b) /\ ~FinishClearing(b) /\ ~Extract(b)
      BY <2>1 DEF TypeOK, Put, Record, Clear, FinishClearing, Extract, Goto
    <3>5. ~FinishExtracting(b) /\ ~Manifest(b) /\ ~FinishManifest(b) /\ ~Save(b)
      BY <2>1 DEF TypeOK, FinishExtracting, Manifest, FinishManifest, Save, Goto
    <3>6. QED
      BY <3>1, <3>2, <3>3, <3>4, <3>5 DEF Step
  <2>3. stage[b] = "wheel" /\ pc[b] = "saving"
    BY <2>1, <2>2 DEF FinishSaving, TypeOK, Goto
  <2>4. pack' = pack /\ lockfile'[Lock[b]] = entries[b]
    BY <2>1, <2>2 DEF FinishSaving, TypeOK, Locks
  <2>5. QED
    BY <2>1, <2>3, <2>4 DEF Own, Unpacking, Live, Working, WholeAsPinned
<1>2. QED
  BY <1>1, Invariance, PTL DEF Spec, DoneWithWhatIsPinned

-----------------------------------------------------------------------------
(* What a build may count on, at each place                                *)
SourceCounts(b) ==
    /\ spc[b] \in {"download", "put"} => archive # "wrong"
    /\ spc[b] \in {"find", "verify", "extract", "copy", "stamp", "replace"} => archive = "right"
    /\ spc[b] = "copy" => staged[b] = Source!Tree("some", FALSE)
    /\ spc[b] = "stamp" => staged[b] = Source!Tree("right", FALSE)
    /\ spc[b] = "replace" => staged[b] = Source!Source
    /\ spc[b] \in {"return", "returned"} => tree = Source!Source

SourceInv == Source!TypeOK /\ \A b \in Builds : SourceCounts(b)

(* What one step of build b does to the rest of the world                  *)
SourceTouches(b) ==
    /\ \A c \in Builds \ {b} : spc'[c] = spc[c] /\ staged'[c] = staged[c]
    /\ archive' # archive => archive = "none" /\ archive' = "right"
    /\ tree' # tree => tree = Source!Nothing /\ tree' = Source!Source

-----------------------------------------------------------------------------
(* Every step keeps the types.                                             *)
LEMMA SourceTypesKept ==
    ASSUME Source!TypeOK, NEW b \in Builds, Source!Step(b) \/ Source!Kill(b)
    PROVE  Source!TypeOK'
<1> USE DEF Source!TypeOK, Source!Goto, Source!Archives, Source!Trees, Source!Tree, Source!Nothing, Source!Source, Source!Working, Source!Settled, Source!Fails
<1>1. CASE Source!Begin(b)
  BY <1>1 DEF Source!Begin
<1>2. CASE Source!LookForArchive(b)
  BY <1>2 DEF Source!LookForArchive
<1>3. CASE Source!Download(b)
  BY <1>3 DEF Source!Download
<1>4. CASE Source!PutArchive(b)
  BY <1>4 DEF Source!PutArchive
<1>5. CASE Source!LookForTree(b)
  BY <1>5 DEF Source!LookForTree
<1>6. CASE Source!Verify(b)
  BY <1>6 DEF Source!Verify
<1>7. CASE Source!Extract(b)
  <2>1. Source!Tree("some", FALSE) \in Source!Trees /\ Source!Tree("wrong", FALSE) \in Source!Trees /\ Source!Nothing \in Source!Trees
    OBVIOUS
  <2>2. staged' \in [Builds -> Source!Trees]
    <3>1. \E t \in Source!Trees : staged' = [staged EXCEPT ![b] = t]
      BY <1>7, <2>1 DEF Source!Extract
    <3>2. QED
      BY <3>1
  <2>3. QED
    BY <1>7, <2>2 DEF Source!Extract
<1>8. CASE Source!CopyTree(b)
  <2>1. staged[b] \in Source!Trees /\ Source!Nothing \in Source!Trees
    OBVIOUS
  <2>2. Source!Tree(IF staged[b].bytes = "some" THEN "right" ELSE staged[b].bytes, FALSE) \in Source!Trees
    BY <2>1
  <2>3. staged' \in [Builds -> Source!Trees]
    <3>1. \E t \in Source!Trees : staged' = [staged EXCEPT ![b] = t]
      BY <1>8, <2>1, <2>2 DEF Source!CopyTree
    <3>2. QED
      BY <3>1
  <2>4. QED
    BY <1>8, <2>3 DEF Source!CopyTree
<1>9. CASE Source!Stamp(b)
  BY <1>9 DEF Source!Stamp
<1>10. CASE Source!Replace(b)
  BY <1>10 DEF Source!Replace
<1>11. CASE Source!Return(b)
  BY <1>11 DEF Source!Return
<1>12. CASE Source!Kill(b)
  BY <1>12 DEF Source!Kill
<1>13. QED
  BY <1>1, <1>2, <1>3, <1>4, <1>5, <1>6, <1>7, <1>8, <1>9, <1>10, <1>11, <1>12 DEF Source!Step

(* What a step puts in place is whole, and nothing was there.              *)
LEMMA SourceStepTouches ==
    ASSUME Source!TypeOK, NEW b \in Builds, SourceCounts(b), Source!Step(b) \/ Source!Kill(b)
    PROVE  SourceTouches(b)
<1> USE DEF Source!TypeOK, Source!Goto, SourceCounts, SourceTouches, Source!Fails, Source!Archives
<1>1. CASE Source!Begin(b)
  BY <1>1 DEF Source!Begin
<1>2. CASE Source!LookForArchive(b)
  BY <1>2 DEF Source!LookForArchive
<1>3. CASE Source!Download(b)
  BY <1>3 DEF Source!Download
<1>4. CASE Source!PutArchive(b)
  BY <1>4 DEF Source!PutArchive
<1>5. CASE Source!LookForTree(b)
  BY <1>5 DEF Source!LookForTree
<1>6. CASE Source!Verify(b)
  BY <1>6 DEF Source!Verify
<1>7. CASE Source!Extract(b)
  BY <1>7 DEF Source!Extract
<1>8. CASE Source!CopyTree(b)
  BY <1>8 DEF Source!CopyTree
<1>9. CASE Source!Stamp(b)
  BY <1>9 DEF Source!Stamp
<1>10. CASE Source!Replace(b)
  BY <1>10 DEF Source!Replace
<1>11. CASE Source!Return(b)
  BY <1>11 DEF Source!Return
<1>12. CASE Source!Kill(b)
  BY <1>12 DEF Source!Kill
<1>13. QED
  BY <1>1, <1>2, <1>3, <1>4, <1>5, <1>6, <1>7, <1>8, <1>9, <1>10, <1>11, <1>12 DEF Source!Step

(* A build counts on what is so after its own step,                        *)
LEMMA SourceOwnKept ==
    ASSUME Source!TypeOK, NEW b \in Builds, SourceCounts(b), Source!Step(b) \/ Source!Kill(b)
    PROVE  SourceCounts(b)'
<1> USE DEF Source!TypeOK, Source!Goto, SourceCounts, Source!Fails, Source!Archives, Source!Tree, Source!Nothing, Source!Source, Source!Trees
<1>1. CASE Source!Begin(b)
  BY <1>1 DEF Source!Begin
<1>2. CASE Source!LookForArchive(b)
  BY <1>2 DEF Source!LookForArchive
<1>3. CASE Source!Download(b)
  BY <1>3 DEF Source!Download
<1>4. CASE Source!PutArchive(b)
  BY <1>4 DEF Source!PutArchive
<1>5. CASE Source!LookForTree(b)
  BY <1>5 DEF Source!LookForTree
<1>6. CASE Source!Verify(b)
  BY <1>6 DEF Source!Verify
<1>7. CASE Source!Extract(b)
  BY <1>7 DEF Source!Extract
<1>8. CASE Source!CopyTree(b)
  <2>1. CASE spc'[b] = "failed"
    BY <1>8, <2>1 DEF Source!CopyTree
  <2>2. CASE spc'[b] = "stamp"
    <3>1. staged[b].bytes = "some"
      BY <1>8 DEF Source!CopyTree
    <3>2. staged'[b] = Source!Tree("right", FALSE)
      BY <1>8, <2>2, <3>1 DEF Source!CopyTree
    <3>3. QED
      BY <1>8, <2>2, <3>2 DEF Source!CopyTree
  <2>3. QED
    BY <1>8, <2>1, <2>2 DEF Source!CopyTree
<1>9. CASE Source!Stamp(b)
  <2>1. staged[b].bytes = "right"
    BY <1>9 DEF Source!Stamp
  <2>2. staged'[b] = Source!Source
    BY <1>9, <2>1 DEF Source!Stamp
  <2>3. QED
    BY <1>9, <2>2 DEF Source!Stamp
<1>10. CASE Source!Replace(b)
  BY <1>10 DEF Source!Replace
<1>11. CASE Source!Return(b)
  BY <1>11 DEF Source!Return
<1>12. CASE Source!Kill(b)
  BY <1>12 DEF Source!Kill
<1>13. QED
  BY <1>1, <1>2, <1>3, <1>4, <1>5, <1>6, <1>7, <1>8, <1>9, <1>10, <1>11, <1>12 DEF Source!Step

(* and after the step of another.                                          *)
LEMMA SourceOthersKept ==
    ASSUME Source!TypeOK, NEW b \in Builds, NEW c \in Builds, c # b, SourceCounts(c), SourceTouches(b)
    PROVE  SourceCounts(c)'
<1>1. Source!Source # Source!Nothing
  BY DEF Source!Source, Source!Nothing, Source!Tree
<1>2. spc'[c] = spc[c] /\ staged'[c] = staged[c]
  BY DEF SourceTouches
<1>3. QED
  BY <1>1, <1>2 DEF SourceCounts, SourceTouches

LEMMA SourceInvInit == Source!Init => SourceInv
<1> SUFFICES ASSUME Source!Init PROVE SourceInv
  OBVIOUS
<1>1. {Source!Nothing, Source!Tree("some", FALSE), Source!Tree("wrong", TRUE)} \subseteq Source!Trees
  BY DEF Source!Trees, Source!Tree, Source!Nothing
<1>2. Source!TypeOK
  BY <1>1 DEF Source!Init, Source!TypeOK
<1>3. QED
  BY <1>2 DEF Source!Init, SourceInv, SourceCounts

LEMMA SourceInvNext == SourceInv /\ [Source!Next]_(Source!vars) => SourceInv'
<1> SUFFICES ASSUME SourceInv, [Source!Next]_(Source!vars) PROVE SourceInv'
  OBVIOUS
<1>1. CASE UNCHANGED Source!vars
  BY <1>1 DEF Source!vars, SourceInv, Source!TypeOK, SourceCounts
<1>2. ASSUME NEW b \in Builds, Source!Step(b) \/ Source!Kill(b) PROVE SourceInv'
  <2>1. Source!TypeOK /\ \A c \in Builds : SourceCounts(c)
    BY DEF SourceInv
  <2>2. Source!TypeOK' /\ SourceTouches(b) /\ SourceCounts(b)'
    BY <1>2, <2>1, SourceTypesKept, SourceStepTouches, SourceOwnKept
  <2>3. \A c \in Builds : c # b => SourceCounts(c)'
    BY <2>1, <2>2, SourceOthersKept
  <2>4. QED
    BY <2>2, <2>3 DEF SourceInv
<1>3. QED
  BY <1>1, <1>2 DEF Source!Next

(* The invariant                                                           *)
THEOREM SourceInvariance == Source!Spec => []SourceInv
<1>1. QED
  BY SourceInvInit, SourceInvNext, PTL DEF Source!Spec

(* Nothing that is half done appears at a place others look at.            *)
THEOREM SourcesAppearWhole == Source!Spec => Source!OnlyWholeAppears
<1>1. ASSUME SourceInv, [Source!Next]_(Source!vars)
      PROVE  /\ archive' # archive => archive = "none" /\ archive' = "right"
             /\ tree' # tree => tree = Source!Nothing /\ tree' = Source!Source
  <2>1. CASE UNCHANGED Source!vars
    BY <2>1 DEF Source!vars
  <2>2. ASSUME NEW b \in Builds, Source!Step(b) \/ Source!Kill(b) PROVE SourceTouches(b)
    BY <1>1, <2>2, SourceStepTouches DEF SourceInv
  <2>3. QED
    BY <1>1, <2>1, <2>2 DEF Source!Next, SourceTouches
<1>2. QED
  BY <1>1, SourceInvariance, PTL DEF Source!Spec, Source!OnlyWholeAppears

-----------------------------------------------------------------------------
(* Every step of a build is one of the cache's, or none.                   *)
LEMMA SourceStepSimulates ==
    ASSUME SourceInv, NEW b \in Builds, Source!Step(b) \/ Source!Kill(b)
    PROVE  [Source!Cache!Next]_(Source!Cache!vars)
<1> DEFINE out == [c \in Builds |-> Source!Outcome(c)]
<1>1. Source!TypeOK /\ SourceCounts(b) /\ SourceTouches(b)
  BY SourceStepTouches DEF SourceInv
<1>2. \A c \in Builds : c # b => Source!Outcome(c)' = Source!Outcome(c)
  BY <1>1 DEF SourceTouches, Source!Outcome
<1>3. Source!Source # Source!Nothing
  BY DEF Source!Source, Source!Nothing, Source!Tree
<1>4. CASE Source!Return(b)
  <2>1. spc[b] = "return" /\ spc'[b] = "returned" /\ tree' = tree /\ tree = Source!Source
    BY <1>1, <1>4 DEF Source!Return, Source!Goto, Source!TypeOK, SourceCounts
  <2>2. Source!Outcome(b) = "none" /\ Source!Outcome(b)' = "running"
    BY <2>1 DEF Source!Outcome
  <2>3. out' = [out EXCEPT ![b] = "running"]
    BY <1>2, <2>2
  <2>4. Source!Cache!Run(b)
    BY <2>1, <2>2, <2>3 DEF Source!Cache!Run
  <2>5. QED
    BY <2>4 DEF Source!Cache!Next
<1>5. CASE spc[b] \notin Source!Settled /\ spc'[b] \in {"failed", "killed"} /\ tree' = tree
  <2>1. Source!Outcome(b) = "none" /\ Source!Outcome(b)' = "failed"
    BY <1>5 DEF Source!Outcome, Source!Settled
  <2>2. out' = [out EXCEPT ![b] = "failed"]
    BY <1>2, <2>1
  <2>3. Source!Cache!GiveUp(b)
    BY <1>5, <2>1, <2>2 DEF Source!Cache!GiveUp
  <2>4. QED
    BY <2>3 DEF Source!Cache!Next
<1>6. CASE spc[b] \notin Source!Settled /\ spc'[b] \notin Source!Settled
  <2>1. Source!Outcome(b)' = Source!Outcome(b)
    BY <1>6 DEF Source!Outcome, Source!Settled
  <2>2. out' = out
    BY <1>2, <2>1
  <2>3. CASE tree' = tree
    BY <2>2, <2>3 DEF Source!Cache!vars
  <2>4. CASE tree' # tree
    <3>1. tree # Source!Source /\ tree' = Source!Source
      BY <1>1, <1>3, <2>4 DEF SourceTouches
    <3>2. Source!Cache!Publish
      BY <2>2, <3>1 DEF Source!Cache!Publish
    <3>3. QED
      BY <3>2 DEF Source!Cache!Next
  <2>5. QED
    BY <2>3, <2>4
<1>7. \/ Source!Return(b)
      \/ spc[b] \notin Source!Settled /\ spc'[b] \in {"failed", "killed"} /\ tree' = tree
      \/ spc[b] \notin Source!Settled /\ spc'[b] \notin Source!Settled
  <2> USE <1>1 DEF Source!TypeOK, Source!Settled, Source!Goto
  <2>1. CASE Source!Begin(b)
    BY <2>1 DEF Source!Begin
  <2>2. CASE Source!LookForArchive(b)
    BY <2>2 DEF Source!LookForArchive
  <2>3. CASE Source!Download(b)
    BY <2>3 DEF Source!Download
  <2>4. CASE Source!PutArchive(b)
    BY <2>4 DEF Source!PutArchive
  <2>5. CASE Source!LookForTree(b)
    BY <2>5 DEF Source!LookForTree
  <2>6. CASE Source!Verify(b)
    BY <2>6 DEF Source!Verify
  <2>7. CASE Source!Extract(b)
    BY <2>7 DEF Source!Extract, Source!Fails
  <2>8. CASE Source!CopyTree(b)
    BY <2>8 DEF Source!CopyTree, Source!Fails
  <2>9. CASE Source!Stamp(b)
    BY <2>9 DEF Source!Stamp
  <2>10. CASE Source!Replace(b)
    BY <2>10 DEF Source!Replace
  <2>11. CASE Source!Return(b)
    BY <2>11 DEF Source!Return
  <2>12. CASE Source!Kill(b)
    BY <2>12 DEF Source!Kill, Source!Working
  <2>13. QED
    BY <2>1, <2>2, <2>3, <2>4, <2>5, <2>6, <2>7, <2>8, <2>9, <2>10, <2>11, <2>12 DEF Source!Step
<1>8. QED
  BY <1>4, <1>5, <1>6, <1>7

(* The cache of sources publishes a source once, keeps it as it is, and    *)
(* every build that returns has it.                                        *)
THEOREM SourcesAreCached == Source!Spec => SourcesAreACache
<1>1. Source!Init => Source!Cache!Init
  <2> SUFFICES ASSUME Source!Init PROVE Source!Cache!Init
    OBVIOUS
  <2>1. tree # Source!Source
    BY DEF Source!Init, Source!Source, Source!Nothing, Source!Tree
  <2>2. \A b \in Builds : Source!Outcome(b) = "none"
    BY DEF Source!Init, Source!Outcome
  <2>3. QED
    BY <2>1, <2>2 DEF Source!Cache!Init
<1>2. SourceInv /\ [Source!Next]_(Source!vars) => [Source!Cache!Next]_(Source!Cache!vars)
  <2> SUFFICES ASSUME SourceInv, [Source!Next]_(Source!vars) PROVE [Source!Cache!Next]_(Source!Cache!vars)
    OBVIOUS
  <2>1. CASE UNCHANGED Source!vars
    BY <2>1 DEF Source!vars, Source!Cache!vars, Source!Outcome
  <2>2. CASE Source!Next
    BY <2>2, SourceStepSimulates DEF Source!Next
  <2>3. QED
    BY <2>1, <2>2
<1>3. QED
  BY <1>1, <1>2, SourceInvariance, PTL DEF Source!Spec, SourcesAreACache, Source!IsAContentCache, Source!Cache!Spec
=============================================================================
