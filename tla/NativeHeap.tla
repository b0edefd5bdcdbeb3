----------------------------- MODULE NativeHeap -----------------------------
(***************************************************************************)
(* malloc, free and realloc of py2bin's own <stdlib.h>, called by the      *)
(* threads of a compiled program.                                          *)
(*                                                                         *)
(* The arena is reserved by the first caller and bumped with an atomic     *)
(* add.  A block given back goes on the list of its size class, reached    *)
(* under the ticket lock, and is handed out again before the arena is      *)
(* bumped.  One action is one access to memory the threads share.          *)
(***************************************************************************)
EXTENDS HeapSizes, FiniteSets

CONSTANTS Threads,
          LongSpan,     \* 2^width of a `long`: AddressSpace, except on Windows
          ArenaBytes,   \* __PY2BIN_ARENA_BYTES
          Arenas,       \* where the kernel may map the arena
          Refusals,     \* what it answers instead when it will not map one
          Sizes,        \* the sizes the program asks for
          TicketSpan,   \* where the lock's counters wrap
          MaxCalls      \* how many calls the program makes in all

ASSUME ThreadsAssumption == /\ IsFiniteSet(Threads) /\ TicketSpan \in Nat
                            /\ Cardinality(Threads) < TicketSpan
ASSUME CallsAssumption == Sizes \subseteq Nat /\ MaxCalls \in Nat
(* An arena is whole granules, at a page boundary other than the first, and *)
(* a granule short of the end of memory.                                   *)
ASSUME ArenaAssumption ==
  /\ AddressSpace \in Nat \ {0}
  /\ ArenaBytes \in 1 .. ClassSize(LastClass) /\ ArenaBytes % Granule = 0
  /\ \A a \in Arenas : /\ a \in Nat \ {0} /\ a % Granule = 0
                       /\ a + ArenaBytes + Granule <= AddressSpace

VARIABLES bump, end, claimed, base,     \* the arena, as the header's statics
          free,                         \* the list of every class
          tag, class, word,             \* memory: headers, and what a payload holds
          ticket, serving, mine, at,    \* the lock in front of the lists
          pc, job, req, p, blk,         \* each thread's call and its locals
          held,                         \* the blocks the program has
          calls                         \* how many calls it has made

arena == <<bump, end, claimed, base>>
memory == <<tag, class, word>>
lock == <<ticket, serving, mine, at>>
locals == <<job, req, p, blk>>
program == <<held, calls>>
vars == <<arena, free, memory, lock, pc, locals, program>>

Lock == INSTANCE TicketLock WITH LongSpan <- TicketSpan, WideAdd <- FALSE

(* The memory there is: the granules of whichever arena was mapped.        *)
Mapped == UNION {a .. a + ArenaBytes - 1 : a \in Arenas}
Addresses == {a \in Mapped : a % Granule = 0}
Classes == {ClassOf(Rounded(n)) : n \in {m \in Sizes : Rounded(m) <= ArenaBytes}}
Fresh == 0                        \* what the kernel fills an arena with
Token(b) == 0 - b                 \* what the program keeps in its block b
Payload(b, c) == {g \in Addresses : b <= g /\ g < b + ClassSize(c)}

(* (long)n, handed to the 64-bit atomic: cut to a long and sign-extended.  *)
ToLong(n) == LET low == n % LongSpan
             IN  IF 2 * low >= LongSpan THEN low - LongSpan ELSE low

Init == /\ bump = 0 /\ end = 0 /\ claimed = 0 /\ base = 0
        /\ free = [c \in Classes |-> 0]
        /\ tag = [g \in Addresses |-> "none"]
        /\ class = [g \in Addresses |-> 0]
        /\ word = [g \in Addresses |-> Fresh]
        /\ Lock!Init
        /\ pc = [t \in Threads |-> "idle"]
        /\ job = [t \in Threads |-> "none"]
        /\ req = [t \in Threads |-> 0]
        /\ p = [t \in Threads |-> 0]
        /\ blk = [t \in Threads |-> 0]
        /\ held = {}
        /\ calls = 0

Goto(t, there) == pc' = [pc EXCEPT ![t] = there]
ClassAsked(t) == ClassOf(Rounded(req[t]))
SizeAsked(t) == ClassSize(ClassAsked(t))
ClassOfBlock(b) == class[b - Granule]

(* A slip: the tag is not looked at, and any block of the arena will do.   *)
OwnsAnywhere(b) == b >= base + Granule /\ b < end /\ b % Granule = 0

(* __py2bin_heap_owns                                                      *)
HeapClasses == 64
Owns(b) == /\ b >= base + Granule /\ b < end
           /\ b % Granule = 0
           /\ tag[b - Granule] = "live"
           /\ class[b - Granule] < HeapClasses

-----------------------------------------------------------------------------
(* What the program does.  It gives back, or asks to resize, blocks it has *)
(* - and may hand free what no allocation of it starts at: a block already *)
(* given back, the middle of one, or nothing at all.  It does not give one *)
(* block back from two threads at once: C leaves open what that does, and  *)
(* here both would find it live and put it on its list.                    *)

Call(t, what) == /\ pc[t] = "idle"
                 /\ calls < MaxCalls
                 /\ calls' = calls + 1
                 /\ job' = [job EXCEPT ![t] = what]
                 /\ UNCHANGED <<arena, free, memory, lock, p>>

CallMalloc(t, n) == /\ Call(t, "malloc")
                    /\ req' = [req EXCEPT ![t] = n]
                    /\ Goto(t, "enter")
                    /\ UNCHANGED <<blk, held>>

(* free looks at the header before anything: a block that is not one of    *)
(* malloc's, or was given back, is left alone.                             *)
Elsewhere == {0, AddressSpace - Granule} \cup {b + Granule \div 2 : b \in Addresses}
Strays == Elsewhere \cup {b \in Addresses : b - Granule \in Addresses => tag[b - Granule] # "live"}
CallFree(t, b) ==
  /\ pc[t] = "idle"
  /\ calls < MaxCalls
  /\ calls' = calls + 1
  /\ held' = held \ {b}
  /\ IF Owns(b)
       THEN /\ job' = [job EXCEPT ![t] = "free"]
            /\ blk' = [blk EXCEPT ![t] = b]
            /\ Goto(t, "retire")
       ELSE UNCHANGED <<job, blk, pc>>
  /\ UNCHANGED <<arena, free, memory, lock, req, p>>

(* realloc: a block that is big enough already is returned as it is.       *)
ReallocInPlace(t, b, n) ==
  /\ b \in held
  /\ n <= ClassSize(ClassOfBlock(b))
  /\ Call(t, "none")
  /\ UNCHANGED <<req, blk, held, pc>>

ReallocElsewhere(t, b, n) ==
  /\ b \in held
  /\ n > ClassSize(ClassOfBlock(b))
  /\ Call(t, "realloc")
  /\ req' = [req EXCEPT ![t] = n]
  /\ blk' = [blk EXCEPT ![t] = b]
  /\ held' = held \ {b}
  /\ Goto(t, "enter")

-----------------------------------------------------------------------------
(* malloc: the reservation.                                                *)

ReadEnd(t) ==
  /\ pc[t] = "enter"
  /\ Goto(t, IF end = 0 THEN "claim" ELSE "fit")
  /\ UNCHANGED <<arena, free, memory, lock, locals, program>>

Claim(t) ==
  /\ pc[t] = "claim"
  /\ claimed' = claimed + 1
  /\ Goto(t, IF claimed = 0 THEN "map" ELSE "await")
  /\ UNCHANGED <<bump, end, base, free, memory, lock, locals, program>>

MapArena(t, a) ==
  /\ pc[t] = "map"
  /\ bump' = a
  /\ base' = a
  /\ Goto(t, "publish")
  /\ UNCHANGED <<end, claimed, free, memory, lock, locals, program>>

Publish(t) ==
  /\ pc[t] = "publish"
  /\ end' = (end + ToLong(bump + ArenaBytes)) % AddressSpace
  /\ Goto(t, "fit")
  /\ UNCHANGED <<bump, claimed, base, free, memory, lock, locals, program>>

AwaitEnd(t) ==
  /\ pc[t] = "await"
  /\ end # 0
  /\ Goto(t, "fit")
  /\ UNCHANGED <<arena, free, memory, lock, locals, program>>

-----------------------------------------------------------------------------
(* malloc: a block of the class's list.                                    *)

(* Rounding a request and, when the arena could hold it, drawing a ticket. *)
Refuse(t) ==
  /\ pc[t] = "fit"
  /\ Rounded(req[t]) > ArenaBytes
  /\ p' = [p EXCEPT ![t] = 0]
  /\ Goto(t, "return")
  /\ UNCHANGED <<arena, free, memory, lock, job, req, blk, program>>

AskForList(t) ==
  /\ pc[t] = "fit"
  /\ Rounded(req[t]) <= ArenaBytes
  /\ Lock!DrawTicket(t)
  /\ Goto(t, "head")
  /\ UNCHANGED <<arena, free, memory, locals, program>>

WaitForLock(t) ==
  /\ Lock!See(t) \/ Lock!Confirm(t)
  /\ UNCHANGED <<arena, free, memory, pc, locals, program>>

(* A slip: the head is read before the ticket is served.                   *)
ReadHeadUnlocked(t) ==
  /\ pc[t] = "head"
  /\ p' = [p EXCEPT ![t] = free[ClassAsked(t)]]
  /\ Goto(t, IF p'[t] # 0 THEN "unlink" ELSE "leave")
  /\ UNCHANGED <<arena, free, memory, lock, job, req, blk, program>>

ReadHead(t) ==
  /\ pc[t] = "head" /\ at[t] = "inside"
  /\ p' = [p EXCEPT ![t] = free[ClassAsked(t)]]
  /\ Goto(t, IF p'[t] # 0 THEN "unlink" ELSE "leave")
  /\ UNCHANGED <<arena, free, memory, lock, job, req, blk, program>>

Unlink(t) ==
  /\ pc[t] = "unlink"
  /\ free' = [free EXCEPT ![ClassAsked(t)] = word[p[t] + Granule]]
  /\ Goto(t, "leave")
  /\ UNCHANGED <<arena, memory, lock, locals, program>>

LeaveList(t) ==
  /\ pc[t] = "leave"
  /\ Lock!Give(t)
  /\ Goto(t, IF p[t] # 0 THEN "clear" ELSE "bump")
  /\ UNCHANGED <<arena, free, memory, locals, program>>

(* A slip: only the word the list used is cleared.                         *)
ClearTheLink(t) ==
  /\ pc[t] = "clear"
  /\ word' = [word EXCEPT ![p[t] + Granule] = Fresh]
  /\ Goto(t, "stamp")
  /\ UNCHANGED <<arena, free, tag, class, lock, locals, program>>

Clear(t) ==
  /\ pc[t] = "clear"
  /\ word' = [g \in Addresses |->
                IF g \in Payload(p[t] + Granule, ClassAsked(t)) THEN Fresh ELSE word[g]]
  /\ Goto(t, "stamp")
  /\ UNCHANGED <<arena, free, tag, class, lock, locals, program>>

-----------------------------------------------------------------------------
(* malloc: a block of the arena, taken first and checked after.            *)

Bump(t) ==
  /\ pc[t] = "bump"
  /\ p' = [p EXCEPT ![t] = bump]
  /\ bump' = (bump + ToLong(SizeAsked(t) + Granule)) % AddressSpace
  /\ Goto(t, "check")
  /\ UNCHANGED <<end, claimed, base, free, memory, lock, job, req, blk, program>>

(* The end of the block just taken, as size_t counts it.                   *)
Reaches(t) == (p[t] + SizeAsked(t) + Granule) % AddressSpace

(* A slip: a block that begins inside the arena is taken to end inside it. *)
CheckStart(t) ==
  /\ pc[t] = "check"
  /\ LET outside == p[t] > end
     IN  /\ p' = [p EXCEPT ![t] = IF outside THEN 0 ELSE p[t]]
         /\ Goto(t, IF outside THEN "return" ELSE "stamp")
  /\ UNCHANGED <<arena, free, memory, lock, job, req, blk, program>>

CheckEnd(t) ==
  /\ pc[t] = "check"
  /\ LET outside == Reaches(t) > end \/ Reaches(t) < p[t]
     IN  /\ p' = [p EXCEPT ![t] = IF outside THEN 0 ELSE p[t]]
         /\ Goto(t, IF outside THEN "return" ELSE "stamp")
  /\ UNCHANGED <<arena, free, memory, lock, job, req, blk, program>>

Stamp(t) ==
  /\ pc[t] = "stamp"
  /\ tag' = [tag EXCEPT ![p[t]] = "live"]
  /\ class' = [class EXCEPT ![p[t]] = ClassAsked(t)]
  /\ Goto(t, "return")
  /\ UNCHANGED <<arena, free, word, lock, locals, program>>

-----------------------------------------------------------------------------
(* The program has its answer.  It keeps its own token in a block it has.  *)

Keep(b, c) == word' = [g \in Addresses |-> IF g \in Payload(b, c) THEN Token(b) ELSE word[g]]

Finish(t) ==
  /\ Goto(t, "idle")
  /\ job' = [job EXCEPT ![t] = "none"]
  /\ req' = [req EXCEPT ![t] = 0]
  /\ p' = [p EXCEPT ![t] = 0]
  /\ blk' = [blk EXCEPT ![t] = 0]
  /\ UNCHANGED <<arena, free, tag, class, calls>>

ReturnBlock(t) ==
  /\ pc[t] = "return" /\ job[t] = "malloc" /\ p[t] # 0
  /\ Finish(t)
  /\ held' = held \cup {p[t] + Granule}
  /\ Keep(p[t] + Granule, ClassAsked(t))
  /\ UNCHANGED lock

(* NULL; a realloc that found no room leaves the program the block it had. *)
ReturnNull(t) ==
  /\ pc[t] = "return" /\ p[t] = 0
  /\ Finish(t)
  /\ held' = IF job[t] = "realloc" THEN held \cup {blk[t]} ELSE held
  /\ UNCHANGED <<word, lock>>

(* realloc copies all the old block held and gives it back.                *)
Copy(t) ==
  /\ pc[t] = "return" /\ job[t] = "realloc" /\ p[t] # 0
  /\ LET from == Payload(blk[t], ClassOfBlock(blk[t]))
         to == p[t] + Granule
     IN  word' = [g \in Addresses |->
                    IF g - to + blk[t] \in from THEN word[g - to + blk[t]] ELSE word[g]]
  /\ Goto(t, "free")
  /\ UNCHANGED <<arena, free, tag, class, lock, locals, program>>

-----------------------------------------------------------------------------
(* free                                                                    *)

(* The free inside realloc looks at the header once more; it is malloc's.  *)
CheckOld(t) ==
  /\ pc[t] = "free"
  /\ Owns(blk[t])
  /\ Goto(t, "retire")
  /\ UNCHANGED <<arena, free, memory, lock, locals, program>>

Retire(t) ==
  /\ pc[t] = "retire"
  /\ tag' = [tag EXCEPT ![blk[t] - Granule] = "free"]
  /\ Goto(t, "ask")
  /\ UNCHANGED <<arena, free, class, word, lock, locals, program>>

AskToLink(t) ==
  /\ pc[t] = "ask"
  /\ Lock!DrawTicket(t)
  /\ Goto(t, "link")
  /\ UNCHANGED <<arena, free, memory, locals, program>>

(* A slip: the block becomes the whole of its list.                        *)
LinkAlone(t) ==
  /\ pc[t] = "link" /\ at[t] = "inside"
  /\ word' = [word EXCEPT ![blk[t]] = 0]
  /\ Goto(t, "relink")
  /\ UNCHANGED <<arena, free, tag, class, lock, locals, program>>

LinkBlock(t) ==
  /\ pc[t] = "link" /\ at[t] = "inside"
  /\ word' = [word EXCEPT ![blk[t]] = free[ClassOfBlock(blk[t])]]
  /\ Goto(t, "relink")
  /\ UNCHANGED <<arena, free, tag, class, lock, locals, program>>

(* A slip: free returns with the lock in hand.                             *)
LinkAndReturn(t) ==
  /\ pc[t] = "relink"
  /\ free' = [free EXCEPT ![ClassOfBlock(blk[t])] = blk[t] - Granule]
  /\ Goto(t, "idle")
  /\ UNCHANGED <<arena, memory, lock, locals, program>>

LinkHead(t) ==
  /\ pc[t] = "relink"
  /\ free' = [free EXCEPT ![ClassOfBlock(blk[t])] = blk[t] - Granule]
  /\ Goto(t, "linked")
  /\ UNCHANGED <<arena, memory, lock, locals, program>>

(* The lock is given back; a realloc then returns the block it copied to.  *)
LeaveLinked(t) ==
  /\ pc[t] = "linked"
  /\ Lock!Give(t)
  /\ Finish(t)
  /\ IF job[t] = "realloc"
       THEN /\ held' = held \cup {p[t] + Granule}
            /\ Keep(p[t] + Granule, ClassAsked(t))
       ELSE UNCHANGED <<held, word>>

-----------------------------------------------------------------------------
Step(t) == \/ ReadEnd(t) \/ Claim(t) \/ (\E a \in Arenas \cup Refusals : MapArena(t, a))
           \/ Publish(t) \/ AwaitEnd(t) \/ Refuse(t) \/ AskForList(t) \/ WaitForLock(t)
           \/ ReadHead(t) \/ Unlink(t) \/ LeaveList(t) \/ Clear(t)
           \/ Bump(t) \/ CheckEnd(t) \/ Stamp(t)
           \/ ReturnBlock(t) \/ ReturnNull(t) \/ Copy(t)
           \/ CheckOld(t) \/ Retire(t) \/ AskToLink(t)
           \/ LinkBlock(t) \/ LinkHead(t) \/ LeaveLinked(t)

Calling(t) == \/ \E n \in Sizes : CallMalloc(t, n)
              \/ \E b \in held \cup Strays : CallFree(t, b)
              \/ \E b \in held, n \in Sizes : ReallocInPlace(t, b, n)
              \/ \E b \in held, n \in Sizes : ReallocElsewhere(t, b, n)

Next == \E t \in Threads : Calling(t) \/ Step(t)

Spec == Init /\ [][Next]_vars

(* The machine runs every thread that is in a call.                        *)
FairSpec == Spec /\ \A t \in Threads : WF_vars(Step(t))

-----------------------------------------------------------------------------
(* Where every block is.                                                   *)

(* The list of a class, followed as far as there are blocks to follow.     *)
Links(c) ==
  LET link[i \in 0 .. Cardinality(Addresses)] ==
        IF i = 0 THEN free[c] ELSE IF link[i - 1] = 0 THEN 0 ELSE word[link[i - 1] + Granule]
  IN  link
Listed(c) == {Links(c)[i] : i \in DOMAIN Links(c)} \ {0}

(* The block malloc is making for t, from the moment it is off the list or *)
(* the arena's bump has passed it, and the one t is giving back or copying *)
(* from, until it is on the list.                                          *)
Making(t) == IF \/ pc[t] \in {"leave", "clear", "stamp", "return", "free", "retire",
                              "ask", "link", "relink", "linked"} /\ p[t] # 0
                \/ pc[t] = "check" /\ Reaches(t) <= end
               THEN {p[t]} ELSE {}
Parting(t) == IF \/ job[t] = "realloc" /\ pc[t] # "linked"
                 \/ pc[t] \in {"retire", "ask", "link", "relink"}
                THEN {blk[t] - Granule} ELSE {}

Piece(a, n, whose) == [from |-> a, size |-> n + Granule, whose |-> whose]
Pieces ==
  {Piece(b - Granule, ClassSize(ClassOfBlock(b)), "program") : b \in held}
  \cup (UNION {{Piece(a, ClassSize(c), "list") : a \in Listed(c)} : c \in Classes})
  \cup (UNION {{Piece(a, SizeAsked(t), t) : a \in Making(t)} : t \in Threads})
  \cup (UNION {{Piece(a, ClassSize(class[a]), t) : a \in Parting(t)} : t \in Threads})
Extent(x) == x.from .. x.from + x.size - 1

-----------------------------------------------------------------------------
(* The statics, the headers and each thread's call have their types.       *)
TypeOK ==
  /\ {bump, end, base} \subseteq 0 .. AddressSpace - 1
  /\ claimed \in 0 .. Cardinality(Threads)
  /\ free \in [Classes -> Addresses \cup {0}]
  /\ tag \in [Addresses -> {"none", "live", "free"}]
  /\ class \in [Addresses -> Classes \cup {0}]
  /\ DOMAIN word = Addresses
  /\ job \in [Threads -> {"none", "malloc", "free", "realloc"}]
  /\ held \subseteq Addresses

(* No storage is in two places: a block is the program's, on one list, or  *)
(* in the hands of one thread, apart from every other block, in the arena. *)
(* A block handed to two callers, put on a list twice or taken off it by   *)
(* two threads breaks this.                                                *)
BlocksApart ==
  /\ \A x, y \in Pieces : x # y => Extent(x) \cap Extent(y) = {}
  /\ \A x \in Pieces : Extent(x) \subseteq base .. end - 1

(* Every byte the bump has passed belongs to some block, so what is given  *)
(* back can be handed out again: turnover past the arena is answered.      *)
NothingLeaked == bump <= end => UNION {Extent(x) : x \in Pieces} = base .. bump - 1

(* A list holds only blocks of its class that were given back, and ends.   *)
ListsSound ==
  \A c \in Classes :
    /\ Links(c)[Cardinality(Addresses)] = 0
    /\ \A a \in Listed(c) : tag[a] = "free" /\ class[a] = c

(* Nothing writes into a block the program has; storage handed out is      *)
(* cleared, and what realloc copied is what the old block held.            *)
ContentsKept ==
  /\ \A b \in held : \A g \in Payload(b, ClassOfBlock(b)) : word[g] = Token(b)
  /\ \A t \in Threads :
       /\ pc[t] = "return" /\ p[t] # 0 =>
            \A g \in Payload(p[t] + Granule, ClassAsked(t)) : word[g] = Fresh
       /\ job[t] = "realloc" /\ pc[t] \in {"free", "retire", "ask", "link"} =>
            \A g \in Payload(blk[t], ClassOfBlock(blk[t])) :
              word[g - blk[t] + p[t] + Granule] = Token(blk[t])

(* From the moment there is an arena, malloc serves no request short or    *)
(* with a class too large, and the block after it is aligned.              *)
LeastClassServes == end # 0 => AllGetLeastRoom

(* What a program is promised of the storage it is granted.                *)
Promise == INSTANCE Storage
             WITH Storage <- Mapped, Starts <- Addresses,
                  Sizes <- {ClassSize(c) : c \in Classes},
                  blocks <- [b \in held |-> ClassSize(ClassOfBlock(b))]
KeepsItsPromise == Promise!Spec

(* Every call returns: nobody waits for a reservation that is never        *)
(* published, or for a ticket that is never served.                        *)
EveryCallReturns == \A t \in Threads : pc[t] # "idle" ~> pc[t] = "idle"

-----------------------------------------------------------------------------
(* What the header's comments say, and the code does not do everywhere.    *)
(* "`size_t` is the width of a pointer on every target": the end published *)
(* is the end of the arena.                                                *)
EndIsTheArenas == end # 0 => end = base + ArenaBytes
=============================================================================
