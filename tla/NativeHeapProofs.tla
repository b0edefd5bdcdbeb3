---------------------------- MODULE NativeHeapProofs ----------------------------
(***************************************************************************)
(* That malloc, free and realloc never give out a byte twice, lose a block *)
(* or a byte of one, for any threads, sizes, arena and number of calls.    *)
(*                                                                         *)
(* The invariant says of each block whose it is: the program's, a list's   *)
(* or one thread's.  It rests on three others: that the lock lets one      *)
(* thread at a list at a time (TicketLockProofs), that headers cut the     *)
(* arena up to the bump into blocks that lie apart, and that every list is *)
(* a chain: its blocks have ranks, counted from the last, and a link leads *)
(* one rank down.  A step then moves one block at most, and the step of a  *)
(* thread writes no word of a block that is not that thread's.             *)
(***************************************************************************)
EXTENDS NativeHeap, WellFoundedInduction, FiniteSetTheorems, TLAPS

-----------------------------------------------------------------------------
(* The sizes of the classes                                                *)

(* Induction over the naturals, with a set for what is shown.              *)
LEMMA SetInduction ==
  ASSUME NEW S, 0 \in S, \A n \in Nat : n \in S => n + 1 \in S
  PROVE  Nat \subseteq S
<1> DEFINE Out == Nat \ S
           Less == OpToRel(<, Nat)
<1>1. SUFFICES ASSUME Out # {} PROVE FALSE
  OBVIOUS
<1>2. IsWellFoundedOn(Less, Nat)
  BY NatLessThanWellFounded
<1>3. PICK m \in Out : \A k \in Out : ~(<<k, m>> \in Less)
  <2> HIDE DEF Out, Less
  <2> QED BY <1>1, <1>2, WFMin DEF Out
<1>4. \A k \in Out : ~(k < m)
  BY <1>3 DEF OpToRel
<1>5. m \in Nat /\ m # 0 /\ m - 1 \in Nat
  OBVIOUS
<1>6. m - 1 \in S
  BY <1>4, <1>5
<1>7. m \in S
  <2>1. (m - 1) + 1 \in S
    BY <1>5, <1>6
  <2> QED BY <1>5, <2>1
<1>8. QED
  BY <1>7

(* The sizes of the classes.                                               *)
LEMMA ClassSizes ==
  /\ \A c \in 0 .. 7 : ClassSize(c) = 16 * (c + 1)
  /\ \A c \in 8 .. LastClass : ClassSize(c) \in Nat /\ ClassSize(c) % 16 = 0 /\ ClassSize(c) >= 256
  /\ \A c \in 8 .. LastClass - 1 : ClassSize(c + 1) = 2 * ClassSize(c)
<1> DEFINE Pow(k) == 2 ^ k
<1>1. /\ Pow(0) = 1 /\ Pow(1) = 2 /\ Pow(2) = 4 /\ Pow(3) = 8 /\ Pow(4) = 16 /\ Pow(5) = 32
      /\ Pow(6) = 64 /\ Pow(7) = 128 /\ Pow(8) = 256 /\ Pow(9) = 512 /\ Pow(10) = 1024
      /\ Pow(11) = 2048 /\ Pow(12) = 4096 /\ Pow(13) = 8192 /\ Pow(14) = 16384
      /\ Pow(15) = 32768 /\ Pow(16) = 65536 /\ Pow(17) = 131072 /\ Pow(18) = 262144
  OBVIOUS
<1>2. \A c \in 0 .. 7 : ClassSize(c) = 16 * (c + 1)
  BY DEF ClassSize, Granule
<1>3. \A c \in 8 .. LastClass : ClassSize(c) = 256 * Pow(c - 8)
  BY DEF ClassSize, LastClass
<1> HIDE DEF Pow
<1>4. \A k \in 0 .. 17 : Pow(k + 1) = 2 * Pow(k)
  BY <1>1
<1>5. \A k \in 0 .. 18 : Pow(k) \in Nat /\ Pow(k) >= 1
  BY <1>1
<1>6. \A c \in 8 .. LastClass : ClassSize(c) \in Nat /\ ClassSize(c) % 16 = 0 /\ ClassSize(c) >= 256
  <2> SUFFICES ASSUME NEW c \in 8 .. LastClass
               PROVE  ClassSize(c) \in Nat /\ ClassSize(c) % 16 = 0 /\ ClassSize(c) >= 256
    OBVIOUS
  <2>1. Pow(c - 8) \in Nat /\ Pow(c - 8) >= 1
    BY <1>5 DEF LastClass
  <2> QED BY <1>3, <2>1
<1>7. \A c \in 8 .. LastClass - 1 : ClassSize(c + 1) = 2 * ClassSize(c)
  BY <1>3, <1>4, <1>5 DEF LastClass
<1>8. QED
  BY <1>2, <1>6, <1>7

(* The search of ClassOf ends at the first doubling that holds n: the      *)
(* function it is written as exists, from the last class down, and each of *)
(* its values is the first class from its argument on that is enough.      *)
LEMMA SearchEnds ==
  ASSUME NEW n \in Nat, n > 128, n <= ClassSize(LastClass)
  PROVE  /\ ClassOf(n) \in 8 .. LastClass
         /\ n <= ClassSize(ClassOf(n))
         /\ \A c \in 8 .. ClassOf(n) - 1 : ClassSize(c) < n
<1> DEFINE Searches(f, from) ==
             f = [c \in from .. LastClass |-> IF ClassSize(c) < n THEN f[c + 1] ELSE c]
           Reached == {k \in Nat : k <= 18 => \E f : Searches(f, LastClass - k)}
           search == CHOOSE f : Searches(f, 8)
<1>1. 0 \in Reached
  <2> DEFINE f == [c \in LastClass .. LastClass |-> c]
  <2>1. \A c \in LastClass .. LastClass : ~(ClassSize(c) < n)
    BY ClassSizes DEF LastClass
  <2>2. Searches(f, LastClass)
    BY <2>1
  <2> QED BY <2>2 DEF LastClass
<1>2. ASSUME NEW k \in Nat, k \in Reached PROVE k + 1 \in Reached
  <2> SUFFICES ASSUME k + 1 <= 18 PROVE \E f : Searches(f, LastClass - (k + 1))
    OBVIOUS
  <2>1. PICK f : Searches(f, LastClass - k)
    BY <1>2
  <2> DEFINE from == LastClass - (k + 1)
             g == [c \in from .. LastClass |->
                     IF c = from THEN IF ClassSize(c) < n THEN f[c + 1] ELSE c ELSE f[c]]
  <2>2. from \in 8 .. LastClass - 1 /\ LastClass - k = from + 1
    BY DEF LastClass
  <2>3. f = [c \in from + 1 .. LastClass |-> IF ClassSize(c) < n THEN f[c + 1] ELSE c]
    BY <2>1, <2>2
  <2>3a. LastClass \in Nat /\ ClassSize(LastClass) >= n /\ from \in Nat /\ from < LastClass
    BY <2>2, ClassSizes DEF LastClass
  <2>4. \A c \in from .. LastClass : g[c] = IF ClassSize(c) < n THEN g[c + 1] ELSE c
    <3> HIDE DEF from
    <3> SUFFICES ASSUME NEW c \in from .. LastClass
                 PROVE  g[c] = IF ClassSize(c) < n THEN g[c + 1] ELSE c
      OBVIOUS
    <3>1. CASE c = LastClass
      <4>1. ~(ClassSize(c) < n)
        BY <3>1, ClassSizes DEF LastClass
      <4>2. c # from /\ c \in from + 1 .. LastClass
        BY <3>1, <2>3a
      <4> QED BY <4>1, <4>2, <2>3
    <3>2. CASE c # LastClass
      <4>1. c + 1 \in from + 1 .. LastClass /\ c + 1 # from
        BY <3>2, <2>3a
      <4>2. g[c + 1] = f[c + 1]
        BY <4>1, <2>3a
      <4>3. c = from \/ c \in from + 1 .. LastClass
        BY <2>3a
      <4> QED BY <4>2, <4>3, <2>3, <2>3a
    <3> QED BY <3>1, <3>2
  <2>5. Searches(g, from)
    <3> HIDE DEF from
    <3> QED BY <2>4
  <2> QED BY <2>5
<1>3. \E f : Searches(f, 8)
  <2>1. 18 \in Reached
    <3> HIDE DEF Reached
    <3> QED BY <1>1, <1>2, SetInduction
  <2> QED BY <2>1 DEF LastClass
<1>4. Searches(search, 8)
  <2> HIDE DEF Searches
  <2> QED BY <1>3, Zenon
<1>5. ClassOf(n) = search[8]
  BY DEF ClassOf
<1> HIDE DEF search
<1> DEFINE First(c) == /\ search[c] \in c .. LastClass /\ n <= ClassSize(search[c])
                       /\ \A e \in c .. search[c] - 1 : ClassSize(e) < n
           Found == {k \in Nat : k <= 18 => First(LastClass - k)}
<1>6. \A c \in 8 .. LastClass : search[c] = IF ClassSize(c) < n THEN search[c + 1] ELSE c
  BY <1>4
<1>7. 0 \in Found
  BY <1>6, ClassSizes DEF LastClass
<1>8. ASSUME NEW k \in Nat, k \in Found PROVE k + 1 \in Found
  <2> SUFFICES ASSUME k + 1 <= 18 PROVE First(LastClass - (k + 1))
    OBVIOUS
  <2> DEFINE c == LastClass - (k + 1)
  <2>1. c \in 8 .. LastClass - 1 /\ c + 1 = LastClass - k /\ LastClass \in Nat
    BY DEF LastClass
  <2>2. First(c + 1)
    BY <1>8, <2>1
  <2>3. ClassSize(c) \in Nat
    BY <2>1, ClassSizes
  <2>4. search[c] = IF ClassSize(c) < n THEN search[c + 1] ELSE c
    BY <1>6, <2>1
  <2> HIDE DEF c
  <2>5. First(c)
    BY <2>1, <2>2, <2>3, <2>4
  <2> QED BY <2>5 DEF c
<1>9. First(8)
  <2>1. 18 \in Found
    <3> HIDE DEF Found
    <3> QED BY <1>7, <1>8, SetInduction
  <2> QED BY <2>1 DEF LastClass
<1>10. QED
  BY <1>5, <1>9

(* A later class is not smaller.                                           *)
LEMMA ClassesGrow ==
  \A c \in 0 .. LastClass, d \in 0 .. LastClass : c <= d => ClassSize(c) <= ClassSize(d)
<1> DEFINE Below == {k \in Nat : \A c \in 8 .. LastClass : c + k <= LastClass => ClassSize(c) <= ClassSize(c + k)}
<1>1. 0 \in Below
  BY ClassSizes
<1>2. ASSUME NEW k \in Nat, k \in Below PROVE k + 1 \in Below
  <2> SUFFICES ASSUME NEW c \in 8 .. LastClass, c + (k + 1) <= LastClass
               PROVE  ClassSize(c) <= ClassSize(c + (k + 1))
    OBVIOUS
  <2>1. LastClass \in Nat /\ c + k \in 8 .. LastClass - 1 /\ c + (k + 1) = (c + k) + 1
    BY DEF LastClass
  <2>2. ClassSize((c + k) + 1) = 2 * ClassSize(c + k) /\ ClassSize(c + k) \in Nat
    BY <2>1, ClassSizes
  <2>3. ClassSize(c) <= ClassSize(c + k) /\ ClassSize(c) \in Nat
    BY <1>2, <2>1, ClassSizes
  <2> QED BY <2>1, <2>2, <2>3
<1> SUFFICES ASSUME NEW c \in 0 .. LastClass, NEW d \in 0 .. LastClass, c <= d
             PROVE  ClassSize(c) <= ClassSize(d)
  OBVIOUS
<1>3. CASE c >= 8
  <2>1. d - c \in Below
    <3> HIDE DEF Below
    <3>1. d - c \in Nat
      BY DEF LastClass
    <3> QED BY <1>1, <1>2, <3>1, SetInduction
  <2> QED BY <1>3, <2>1 DEF LastClass
<1>4. CASE c < 8
  BY <1>4, ClassSizes DEF LastClass
<1>5. QED
  BY <1>3, <1>4 DEF LastClass

(* What a request is rounded to, short of the last ones a size_t holds.    *)
LEMMA RoundedUp ==
  ASSUME NEW n \in Nat, AddressSpace \in Nat, n <= AddressSpace - Granule
  PROVE  /\ Rounded(n) \in Nat /\ Rounded(n) >= n /\ Rounded(n) >= Granule
         /\ Rounded(n) % Granule = 0 /\ (Rounded(n) < n + Granule \/ Rounded(n) = Granule)
<1>1. (n + Granule - 1) % AddressSpace = n + Granule - 1
  BY DEF Granule
<1>2. QED
  BY <1>1 DEF Rounded, Granule

(* The search finds the first class that is enough.                        *)
LEMMA ClassFound ==
  ASSUME NEW n \in Nat, n >= Granule, n % Granule = 0, n <= ClassSize(LastClass)
  PROVE  /\ ClassOf(n) \in 0 .. LastClass
         /\ n <= ClassSize(ClassOf(n))
         /\ ClassSize(ClassOf(n)) \in Nat /\ ClassSize(ClassOf(n)) % Granule = 0
         /\ \A c \in 0 .. LastClass : c < ClassOf(n) => ClassSize(c) < n
<1>1. CASE n <= 128
  <2>1. ClassOf(n) = n \div Granule - 1
    BY <1>1 DEF ClassOf
  <2>2. ClassOf(n) \in 0 .. 7 /\ n = 16 * (ClassOf(n) + 1)
    BY <1>1, <2>1 DEF Granule
  <2>3. ClassSize(ClassOf(n)) = n
    BY <2>2, ClassSizes
  <2>4. \A c \in 0 .. LastClass : c < ClassOf(n) => c \in 0 .. 7 /\ ClassSize(c) < n
    BY <2>2, ClassSizes
  <2> QED BY <2>2, <2>3, <2>4 DEF LastClass
<1>2. CASE n > 128
  <2>1. /\ ClassOf(n) \in 8 .. LastClass
        /\ n <= ClassSize(ClassOf(n))
        /\ \A c \in 8 .. ClassOf(n) - 1 : ClassSize(c) < n
    BY <1>2, SearchEnds
  <2>2. \A c \in 0 .. 7 : ClassSize(c) < n
    BY <1>2, ClassSizes
  <2>3. ClassSize(ClassOf(n)) \in Nat /\ ClassSize(ClassOf(n)) % Granule = 0
    BY <2>1, ClassSizes DEF Granule
  <2> QED BY <2>1, <2>2, <2>3 DEF LastClass
<1>3. QED
  BY <1>1, <1>2

(* No class that would do has less room than the one that is found.        *)
LEMMA LeastRoom ==
  ASSUME AddressSpace \in Nat
  PROVE  AllGetLeastRoom
<1> SUFFICES ASSUME NEW n \in 0 .. AddressSpace - Granule, Rounded(n) <= ClassSize(LastClass)
             PROVE  GetsLeastRoom(n)
  BY DEF AllGetLeastRoom
<1> DEFINE up == Rounded(n)
           best == ClassOf(Rounded(n))
<1>1. n \in Nat /\ n <= AddressSpace - Granule
  BY DEF Granule
<1>2. /\ up \in Nat /\ up >= n /\ up >= Granule
      /\ up % Granule = 0 /\ (up < n + Granule \/ up = Granule)
  BY <1>1, RoundedUp
<1>3. /\ best \in 0 .. LastClass /\ up <= ClassSize(best)
      /\ ClassSize(best) \in Nat /\ ClassSize(best) % Granule = 0
      /\ \A c \in 0 .. LastClass : c < best => ClassSize(c) < up
  BY <1>2, ClassFound
<1> HIDE DEF up, best
<1>4. ASSUME NEW c \in 0 .. LastClass, ClassSize(c) >= n PROVE ClassSize(best) <= ClassSize(c)
  <2>1. ClassSize(c) \in Nat /\ ClassSize(c) % Granule = 0 /\ ClassSize(c) >= Granule
    BY ClassSizes DEF LastClass, Granule
  <2>2. ~(ClassSize(c) < up)
    BY <1>1, <1>2, <1>4, <2>1 DEF Granule
  <2>3. best <= c
    BY <1>3, <2>2 DEF LastClass
  <2> QED BY <1>3, <2>3, ClassesGrow
<1>5. QED
  BY <1>1, <1>2, <1>3, <1>4 DEF GetsLeastRoom, up, best

-----------------------------------------------------------------------------
(* The invariant, part by part                                             *)

LP == INSTANCE TicketLockProofs WITH LongSpan <- TicketSpan, WideAdd <- FALSE

Sane == /\ LongSpan = AddressSpace
        /\ Refusals = {}
        /\ \A n \in Sizes : n <= AddressSpace - Granule

Room(c) == ClassSize(c) + Granule
End(g) == g + Room(class[g])
Stamped == {g \in Addresses : tag[g] # "none"}

Reserving == {"claim", "map", "publish", "await"}
BeforeFit == {"idle", "enter"} \cup Reserving
Searching == {"fit", "head", "unlink", "leave", "bump"}
AtList == {"head", "unlink", "leave", "link", "relink", "linked"}
Freeing == {"ask", "link", "relink", "linked"}
Picked == {"head", "unlink", "leave", "clear", "bump", "check", "stamp"}

Ample(m) == /\ \A c \in Classes : Room(c) <= m
            /\ \A a \in Arenas : a + m * MaxCalls < AddressSpace

Types ==
  /\ bump \in Nat /\ end \in Nat /\ claimed \in Nat /\ base \in Nat
  /\ free \in [Classes -> Addresses \cup {0}]
  /\ tag \in [Addresses -> {"none", "live", "free"}]
  /\ class \in [Addresses -> Classes \cup {0}]
  /\ word \in [Addresses -> Int]
  /\ pc \in [Threads -> {"idle", "enter", "claim", "map", "publish", "await", "fit", "head",
                         "unlink", "leave", "clear", "bump", "check", "stamp", "return",
                         "free", "retire", "ask", "link", "relink", "linked"}]
  /\ job \in [Threads -> {"none", "malloc", "free", "realloc"}]
  /\ req \in [Threads -> Nat]
  /\ p \in [Threads -> Nat]
  /\ blk \in [Threads -> Nat]
  /\ held \subseteq Addresses
  /\ calls \in 0 .. MaxCalls

(* One caller at most reserves the arena, and nobody has a block before.   *)
Reservation ==
  /\ end = 0 => /\ \A t \in Threads : pc[t] \in BeforeFit /\ job[t] \in {"none", "malloc"}
                /\ \A g \in Addresses : tag[g] = "none"
                /\ held = {}
                /\ \A c \in Classes : free[c] = 0
  /\ \A t, u \in Threads : pc[t] \in {"map", "publish"} /\ pc[u] \in {"map", "publish"} => t = u
  /\ \A t \in Threads : pc[t] \in {"map", "publish"} => end = 0
  /\ claimed = 0 => end = 0 /\ \A t \in Threads : pc[t] \notin Reserving \ {"claim"}
  /\ end # 0 => /\ base \in Arenas /\ end = base + ArenaBytes /\ base <= bump
  /\ \A t \in Threads : pc[t] = "publish" => base \in Arenas /\ bump = base
  /\ end = 0 /\ (\A t \in Threads : pc[t] # "publish") => base = 0 /\ bump = 0
  /\ bump % Granule = 0

(* What a thread's locals say of its call, place by place.                 *)
Locals(t) ==
  /\ pc[t] = "idle" <=> job[t] = "none"
  /\ job[t] = "free" => pc[t] \in Freeing \cup {"retire"} /\ p[t] = 0
  /\ pc[t] \in Freeing \cup {"free", "retire"} => job[t] # "malloc"
  /\ pc[t] = "free" => job[t] = "realloc"
  /\ pc[t] \in BeforeFit \cup {"fit", "head", "bump"} => p[t] = 0
  /\ pc[t] \in {"unlink", "clear", "check", "stamp", "free"} => p[t] # 0
  /\ pc[t] \in Freeing \cup {"retire"} /\ job[t] = "realloc" => p[t] # 0
  /\ job[t] \in {"malloc", "realloc"} => req[t] \in Sizes
  /\ pc[t] \in Picked \/ p[t] # 0 => Rounded(req[t]) <= ArenaBytes

Owed == {t \in Threads : pc[t] \in {"enter"} \cup Reserving \cup Searching}
Budget(m) == bump + m * Cardinality(Owed) <= base + m * calls

(* Where the lock is drawn and given.                                      *)
LockAt(t) ==
  /\ pc[t] \notin AtList => at[t] = "outside"
  /\ pc[t] \in {"head", "link"} => at[t] # "outside"
  /\ pc[t] \in {"unlink", "leave", "relink", "linked"} => at[t] = "inside"

Carving(t) == pc[t] = "check" \/ (pc[t] = "stamp" /\ tag[p[t]] = "none")
CarvedEnd(t) == p[t] + Room(ClassAsked(t))
New(t) == IF \/ pc[t] \in {"leave", "clear", "return", "free", "retire", "ask", "link", "relink", "linked"} /\ p[t] # 0
             \/ pc[t] = "stamp" /\ tag[p[t]] # "none"
          THEN {p[t]} ELSE {}
Old(t) == Parting(t)
Has(t) == New(t) \cup Old(t)

Geometry ==
  /\ \A g \in Stamped : class[g] \in Classes /\ base <= g /\ End(g) <= end /\ End(g) <= bump
  /\ \A g, h \in Stamped : g # h => End(g) <= h \/ End(h) <= g
  /\ \A t \in Threads : Carving(t) => base <= p[t] /\ CarvedEnd(t) <= bump /\ p[t] % Granule = 0
  /\ \A t \in Threads : pc[t] = "stamp" => p[t] \in Addresses
  /\ \A t \in Threads : pc[t] = "stamp" /\ tag[p[t]] = "none" => CarvedEnd(t) <= end
  /\ \A t \in Threads, g \in Stamped : Carving(t) => CarvedEnd(t) <= g \/ End(g) <= p[t]
  /\ \A t, u \in Threads : Carving(t) /\ Carving(u) /\ t # u =>
        CarvedEnd(t) <= p[u] \/ CarvedEnd(u) <= p[t]

Covered ==
  end # 0 /\ bump <= end =>
     \A x \in base .. bump - 1 :
        \/ \E g \in Stamped : g <= x /\ x < End(g)
        \/ \E t \in Threads : Carving(t) /\ p[t] <= x /\ x < CarvedEnd(t)

Owned ==
  /\ \A b \in held : b - Granule \in Stamped /\ tag[b - Granule] = "live"
  /\ \A t \in Threads : Has(t) \subseteq Stamped
  /\ \A t \in Threads : \A g \in New(t) :
       /\ g \notin Old(t)
       /\ class[g] = ClassAsked(t)
       /\ tag[g] = IF pc[t] \in {"leave", "clear", "stamp"} THEN "free" ELSE "live"
  /\ \A t \in Threads : \A g \in Old(t) :
       /\ g + Granule = blk[t]
       /\ tag[g] = IF pc[t] \in Freeing THEN "free" ELSE "live"
       /\ job[t] = "realloc" => ClassSize(class[g]) < req[t]
  /\ \A t, u \in Threads : t # u => Has(t) \cap Has(u) = {}
  /\ \A t \in Threads, b \in held : b - Granule \notin Has(t)
  /\ \A g \in Addresses : tag[g] = "live" => g + Granule \in held \/ \E t \in Threads : g \in Has(t)

OnList(g) == g \in Addresses /\ tag[g] = "free" /\ \A t \in Threads : g \notin Has(t)

(* The lists of the classes are chains: every listed block has a rank in   *)
(* its list, counted from the last, and its link leads to the rank below.  *)
Ordered(L, head, kind, link, rank) ==
  /\ \A c \in Classes : head[c] = 0 => \A g \in L : kind[g] # c
  /\ \A c \in Classes : head[c] # 0 =>
        /\ head[c] \in L /\ kind[head[c]] = c
        /\ \A g \in L : kind[g] = c => rank[g] <= rank[head[c]]
        /\ \A k \in 1 .. rank[head[c]] : \E g \in L : kind[g] = c /\ rank[g] = k
  /\ \A g \in L :
        /\ rank[g] # 0
        /\ rank[g] = 1 => link[g + Granule] = 0
        /\ rank[g] # 1 => LET next == link[g + Granule]
                          IN next \in L /\ kind[next] = kind[g] /\ rank[next] = rank[g] - 1
  /\ \A g, h \in L : kind[g] = kind[h] /\ rank[g] = rank[h] => g = h
OnLists == {g \in Addresses : OnList(g)}
Ranked(rank) == Ordered(OnLists, free, class, word, rank)
Chained == \E rank \in [Addresses -> Nat] : Ranked(rank)
Heads(t) == /\ pc[t] = "unlink" => p[t] = free[ClassAsked(t)]
            /\ pc[t] = "relink" => word[blk[t]] = free[ClassOfBlock(blk[t])]

Contents ==
  /\ \A g \in Addresses : bump <= g => word[g] = Fresh
  /\ \A t \in Threads : (Carving(t) \/ (pc[t] \in {"stamp", "return"} /\ p[t] # 0)) =>
        \A g \in Payload(p[t] + Granule, ClassAsked(t)) : word[g] = Fresh
  /\ \A b \in held : \A g \in Payload(b, ClassOfBlock(b)) : word[g] = Token(b)
  /\ \A t \in Threads : job[t] = "realloc" /\ pc[t] \notin {"relink", "linked"} =>
        \A g \in Payload(blk[t], ClassOfBlock(blk[t])) : word[g] = Token(blk[t])
  /\ \A t \in Threads : job[t] = "realloc" /\ pc[t] \in {"free", "retire", "ask", "link"} =>
        \A g \in Payload(blk[t], ClassOfBlock(blk[t])) :
              word[g - blk[t] + p[t] + Granule] = Token(blk[t])

Threaded == \A t \in Threads : Locals(t) /\ LockAt(t) /\ Heads(t)
IInv(m) == /\ LP!IInv /\ Types /\ Reservation /\ Threaded /\ Budget(m)
           /\ Geometry /\ Covered /\ Owned /\ Chained /\ Contents

(* A block's room, header and all, is a multiple of the granule.           *)
LEMMA Rooms ==
  ASSUME Sane
  PROVE  /\ \A c \in Classes : /\ Room(c) \in Nat /\ Room(c) >= 32 /\ Room(c) % 16 = 0
                               /\ ClassSize(c) = Room(c) - 16
         /\ \A n \in Sizes : Rounded(n) <= ArenaBytes =>
              ClassOf(Rounded(n)) \in Classes /\ n <= ClassSize(ClassOf(Rounded(n)))
<1>1. ASSUME NEW n \in Sizes, Rounded(n) <= ArenaBytes
      PROVE  /\ ClassOf(Rounded(n)) \in Classes /\ n <= ClassSize(ClassOf(Rounded(n)))
             /\ ClassSize(ClassOf(Rounded(n))) \in Nat
             /\ ClassSize(ClassOf(Rounded(n))) >= 16
             /\ ClassSize(ClassOf(Rounded(n))) % 16 = 0
  <2>1. n \in Nat /\ n <= AddressSpace - Granule /\ AddressSpace \in Nat
    BY CallsAssumption, ArenaAssumption DEF Sane
  <2>2. /\ Rounded(n) \in Nat /\ Rounded(n) >= n /\ Rounded(n) >= Granule
        /\ Rounded(n) % Granule = 0
    BY <2>1, RoundedUp
  <2>3. ArenaBytes <= ClassSize(LastClass) /\ ClassSize(LastClass) \in Nat /\ ArenaBytes \in Nat
    BY ArenaAssumption, ClassSizes DEF LastClass
  <2>4. /\ Rounded(n) <= ClassSize(ClassOf(Rounded(n)))
        /\ ClassSize(ClassOf(Rounded(n))) \in Nat /\ ClassSize(ClassOf(Rounded(n))) % Granule = 0
    <3>1. Rounded(n) <= ClassSize(LastClass)
      BY <1>1, <2>2, <2>3
    <3> QED BY <2>2, <3>1, ClassFound
  <2>5. ClassOf(Rounded(n)) \in Classes
    BY <1>1 DEF Classes
  <2> QED BY <2>1, <2>2, <2>4, <2>5 DEF Granule
<1>2. QED
  BY <1>1 DEF Classes, Room, Granule

(* There are far fewer classes than lists.                                 *)
LEMMA FewClasses ==
  ASSUME Sane, NEW c \in Classes
  PROVE  c < 64
<1>1. PICK n \in Sizes : Rounded(n) <= ArenaBytes /\ c = ClassOf(Rounded(n))
  BY DEF Classes
<1>2. n \in Nat /\ n <= AddressSpace - Granule /\ AddressSpace \in Nat
  BY CallsAssumption, ArenaAssumption DEF Sane
<1>3. Rounded(n) \in Nat /\ Rounded(n) >= Granule /\ Rounded(n) % Granule = 0
  BY <1>2, RoundedUp
<1>4. Rounded(n) <= ClassSize(LastClass)
  BY <1>1, <1>3, ArenaAssumption, ClassSizes DEF LastClass
<1>5. QED
  BY <1>1, <1>3, <1>4, ClassFound DEF LastClass

(* Where there is memory.                                                  *)
LEMMA Memory ==
  /\ AddressSpace \in Nat /\ AddressSpace > 0 /\ ArenaBytes \in Nat /\ ArenaBytes > 0 /\ ArenaBytes % 16 = 0
  /\ \A a \in Arenas : /\ a \in Nat /\ a > 0 /\ a % 16 = 0
                       /\ a + ArenaBytes + 16 <= AddressSpace
  /\ \A g \in Addresses : g \in Nat /\ g # 0 /\ g % 16 = 0
  /\ \A a \in Arenas : \A g \in Int : a <= g /\ g < a + ArenaBytes /\ g % 16 = 0 => g \in Addresses
<1>1. ClassSize(LastClass) \in Nat
  BY ClassSizes DEF LastClass
<1>2. /\ AddressSpace \in Nat /\ AddressSpace > 0 /\ ArenaBytes \in Nat /\ ArenaBytes > 0 /\ ArenaBytes % 16 = 0
      /\ \A a \in Arenas : /\ a \in Nat /\ a > 0 /\ a % 16 = 0
                           /\ a + ArenaBytes + 16 <= AddressSpace
  BY <1>1, ArenaAssumption DEF Granule
<1>3. QED
  BY <1>2 DEF Addresses, Mapped, Granule

-----------------------------------------------------------------------------
(* The ticket lock                                                         *)

(* Only the steps at a list touch the lock,                                *)
LEMMA Unlocked ==
  ASSUME NEW t \in Threads, Calling(t) \/ Step(t),
         ~AskForList(t), ~WaitForLock(t), ~LeaveList(t), ~AskToLink(t), ~LeaveLinked(t)
  PROVE  UNCHANGED lock
<1>1. CASE Calling(t)
  BY <1>1 DEF Calling, Call, CallMalloc, CallFree, ReallocInPlace, ReallocElsewhere, lock
<1>2. CASE Step(t)
  <2>1. CASE ReadEnd(t) \/ Claim(t) \/ (\E a \in Arenas \cup Refusals : MapArena(t, a))
             \/ Publish(t) \/ AwaitEnd(t) \/ Refuse(t)
    BY <2>1 DEF ReadEnd, Claim, MapArena, Publish, AwaitEnd, Refuse, lock
  <2>2. CASE ReadHead(t) \/ Unlink(t) \/ Clear(t) \/ Bump(t) \/ CheckEnd(t) \/ Stamp(t)
    BY <2>2 DEF ReadHead, Unlink, Clear, Bump, CheckEnd, Stamp, lock
  <2>3. CASE ReturnBlock(t) \/ ReturnNull(t) \/ Copy(t) \/ CheckOld(t) \/ Retire(t) \/ LinkBlock(t) \/ LinkHead(t)
    BY <2>3 DEF ReturnBlock, ReturnNull, Copy, CheckOld, Retire, LinkBlock, LinkHead, Finish, lock
  <2>4. QED
    BY <1>2, <2>1, <2>2, <2>3 DEF Step
<1>3. QED
  BY <1>1, <1>2

(* and those do what the lock's own modules say,                           *)
LEMMA LockMoves ==
  ASSUME [Next]_vars
  PROVE  [Lock!Next]_(Lock!vars)
<1>1. ASSUME NEW t \in Threads, Calling(t) \/ Step(t)
      PROVE  Lock!Next \/ UNCHANGED Lock!vars
  <2>1. CASE AskForList(t) \/ AskToLink(t)
    BY <2>1 DEF AskForList, AskToLink, Lock!Next
  <2>2. CASE WaitForLock(t)
    BY <2>2 DEF WaitForLock, Lock!Next
  <2>3. CASE LeaveList(t) \/ LeaveLinked(t)
    BY <2>3 DEF LeaveList, LeaveLinked, Lock!Next
  <2>4. CASE ~AskForList(t) /\ ~WaitForLock(t) /\ ~LeaveList(t) /\ ~AskToLink(t) /\ ~LeaveLinked(t)
    BY <1>1, <2>4, Unlocked DEF lock, Lock!vars
  <2>5. QED
    BY <2>1, <2>2, <2>3, <2>4
<1>2. CASE UNCHANGED vars
  BY <1>2 DEF vars, lock, Lock!vars
<1>3. QED
  BY <1>1, <1>2 DEF Next

(* so that what is proved of the ticket lock holds here.                   *)
LEMMA LockKept ==
  ASSUME LP!IInv, [Next]_vars
  PROVE  LP!IInv'
<1>1. [LP!Next]_(LP!vars)
  BY LockMoves DEF Lock!Next, LP!Next, Lock!vars, LP!vars, Lock!DrawTicket, LP!DrawTicket,
     Lock!See, LP!See, Lock!Confirm, LP!Confirm, Lock!Give, LP!Give, Lock!Succ, LP!Succ
<1>2. QED
  BY <1>1, LP!NextIInv, ThreadsAssumption
     DEF LP!IsFiniteSet, IsFiniteSet, LP!Cardinality, Cardinality

(* It begins as the lock does.                                             *)
LEMMA LockBegins == Init => LP!IInv
<1>1. ASSUME Init PROVE LP!Init
  BY <1>1 DEF Init, Lock!Init, LP!Init
<1>2. QED
  BY <1>1, LP!InitIInv, ThreadsAssumption
     DEF LP!IsFiniteSet, IsFiniteSet, LP!Cardinality, Cardinality

(* One thread is among the lists at a time.                                *)
LEMMA Alone ==
  ASSUME LP!IInv, NEW t \in Threads, NEW u \in Threads, at[t] = "inside", at[u] = "inside"
  PROVE  t = u
BY DEF LP!IInv, LP!Window, LP!Ticketed

(* Where a thread is with the lock.                                        *)
LEMMA PlacesOfLock ==
  ASSUME LP!IInv
  PROVE  at \in [Threads -> {"outside", "waiting", "confirming", "inside"}]
BY DEF LP!IInv, LP!TypeOK, LP!Places

-----------------------------------------------------------------------------
(* Where blocks are                                                        *)

(* The class a thread asks for, once its request is known to fit.          *)
LEMMA Asked ==
  ASSUME Sane, Types, NEW t \in Threads, Locals(t), pc[t] \in Picked \/ p[t] # 0
  PROVE  /\ ClassAsked(t) \in Classes
         /\ req[t] \in Sizes /\ req[t] <= ClassSize(ClassAsked(t))
         /\ Room(ClassAsked(t)) \in Nat /\ Room(ClassAsked(t)) >= 32
         /\ Room(ClassAsked(t)) % 16 = 0 /\ ClassSize(ClassAsked(t)) = Room(ClassAsked(t)) - 16
<1>1. req[t] \in Sizes /\ Rounded(req[t]) <= ArenaBytes
  BY DEF Locals, Types, Picked, BeforeFit, Freeing
<1>2. QED
  BY <1>1, Rooms DEF ClassAsked

(* The block a thread is about to hand out,                                *)
LEMMA NewBlock ==
  ASSUME Sane, Types, Geometry, Owned, NEW t \in Threads, Locals(t), NEW g \in New(t)
  PROVE  /\ g = p[t] /\ g \in Stamped /\ g \in Addresses
         /\ class[g] = ClassAsked(t) /\ class[g] \in Classes
         /\ base <= g /\ End(g) <= end /\ End(g) <= bump
<1>1. g = p[t] /\ class[g] = ClassAsked(t) /\ g \in Stamped
  BY DEF New, Owned, Has
<1>2. QED
  BY <1>1 DEF Geometry, Stamped

(* the one it is taking back                                               *)
LEMMA OldBlock ==
  ASSUME Sane, Types, Geometry, Owned, NEW t \in Threads,
         \/ job[t] = "realloc" /\ pc[t] # "linked"
         \/ pc[t] \in {"retire", "ask", "link", "relink"}
  PROVE  /\ blk[t] - 16 \in Old(t) /\ blk[t] - 16 \in Stamped /\ blk[t] - 16 \in Addresses
         /\ class[blk[t] - 16] \in Classes
         /\ base <= blk[t] - 16 /\ End(blk[t] - 16) <= end /\ End(blk[t] - 16) <= bump
<1>1. blk[t] - 16 \in Old(t) /\ blk[t] - 16 \in Stamped
  BY DEF Old, Parting, Owned, Has, Granule
<1>2. QED
  BY <1>1 DEF Geometry, Stamped

(* and one that the program has lie between the base and the bump.         *)
LEMMA HeldBlock ==
  ASSUME Sane, Types, Geometry, Owned, NEW b \in held
  PROVE  /\ b \in Addresses
         /\ b - 16 \in Stamped /\ b - 16 \in Addresses /\ class[b - 16] \in Classes
         /\ base <= b - 16 /\ End(b - 16) <= end /\ End(b - 16) <= bump
BY DEF Types, Geometry, Owned, Stamped, Granule

(* The granule after a header is in the arena.                             *)
LEMMA Payloads ==
  ASSUME Sane, Types, Reservation, Geometry, NEW g \in Stamped
  PROVE  g + 16 \in Addresses /\ end # 0 /\ base \in Arenas
<1>1. g \in Addresses /\ tag[g] # "none"
  BY DEF Stamped
<1>2. end # 0 /\ base \in Arenas /\ end = base + ArenaBytes
  BY <1>1 DEF Reservation
<1>3. base <= g /\ g + Room(class[g]) <= end /\ class[g] \in Classes
  BY DEF Geometry, End
<1>4. QED
  BY <1>1, <1>2, <1>3, Rooms, Memory

(* Only what free is handed that the program has is free's to take.        *)
LEMMA OwnsHeld ==
  ASSUME Sane, Types, Reservation, NEW b \in held \cup Strays, Owns(b)
  PROVE  b \in held
<1>1. SUFFICES ASSUME b \in Strays PROVE FALSE
  OBVIOUS
<1>2. end # 0
  BY Memory DEF Owns, Types, Granule, Strays, Elsewhere
<1>3. base \in Arenas /\ end = base + ArenaBytes
  BY <1>2 DEF Reservation
<1>4. CASE b \in Elsewhere
  BY <1>3, <1>4, Memory DEF Elsewhere, Owns, Granule
<1>5. CASE b \in Addresses /\ (b - Granule \in Addresses => tag[b - Granule] # "live")
  <2>1. b \in Nat /\ b % 16 = 0 /\ b >= base + 16 /\ b < end
    BY <1>5, Memory DEF Owns, Granule
  <2>2. b - 16 \in Addresses
    BY <1>3, <2>1, Memory
  <2>3. QED
    BY <1>5, <2>2 DEF Owns, Granule
<1>6. QED
  BY <1>1, <1>4, <1>5 DEF Strays

(* The head of a list, with the lock in hand.                              *)
LEMMA HeadBlock ==
  ASSUME Sane, Types, Chained, NEW c \in Classes, free[c] # 0
  PROVE  /\ free[c] \in Addresses /\ OnList(free[c]) /\ free[c] \in Stamped
         /\ class[free[c]] = c
         /\ word[free[c] + 16] \in Addresses \cup {0}
<1>1. PICK rank \in [Addresses -> Nat] : Ranked(rank)
  BY DEF Chained
<1>2. OnList(free[c]) /\ class[free[c]] = c
  BY <1>1 DEF Ranked, Ordered, OnLists
<1>3. free[c] \in Addresses /\ free[c] \in Stamped
  BY <1>2 DEF OnList, Stamped
<1>4. word[free[c] + 16] \in Addresses \cup {0}
  BY <1>1, <1>2, <1>3 DEF Ranked, Ordered, OnLists, Granule
<1>5. QED
  BY <1>2, <1>3, <1>4

-----------------------------------------------------------------------------
(* Types and locals                                                        *)

Inv == /\ LP!IInv /\ Types /\ Reservation /\ Threaded
       /\ Geometry /\ Covered /\ Owned /\ Chained /\ Contents

(* Every step keeps the types,                                             *)
LEMMA TypesKept ==
  ASSUME Sane, Inv, NEW t \in Threads, Calling(t) \/ Step(t)
  PROVE  Types'
<1> USE DEF Types, Inv, Threaded
<1>0. AddressSpace \in Nat /\ LongSpan = AddressSpace /\ AddressSpace > 0
  BY Memory DEF Sane
<1>1. CASE \E n \in Sizes : CallMalloc(t, n)
  BY <1>1, CallsAssumption DEF CallMalloc, Call, arena, memory, Goto
<1>2. ASSUME NEW b \in held \cup Strays, CallFree(t, b) PROVE Types'
  <2>1. Owns(b) => b \in held
    BY OwnsHeld
  <2>2. Owns(b) => b \in Nat /\ b - 16 \in Addresses
    BY <2>1, HeldBlock, Memory
  <2>3. QED
    BY <1>2, <2>2, CallsAssumption DEF CallFree, arena, memory, Goto, Granule
<1>3. CASE \E b \in held, n \in Sizes : ReallocInPlace(t, b, n)
  BY <1>3, CallsAssumption DEF ReallocInPlace, Call, arena, memory
<1>4. CASE \E b \in held, n \in Sizes : ReallocElsewhere(t, b, n)
  BY <1>4, CallsAssumption, Memory DEF ReallocElsewhere, Call, arena, memory, Goto
<1>5. CASE ReadEnd(t) \/ Claim(t) \/ AwaitEnd(t) \/ Refuse(t) \/ AskForList(t)
  BY <1>5 DEF ReadEnd, Claim, AwaitEnd, Refuse, AskForList, arena, memory, locals, program, Goto
<1>6. CASE \E a \in Arenas \cup Refusals : MapArena(t, a)
  BY <1>6, Memory DEF MapArena, Sane, memory, locals, program, Goto
<1>7. CASE Publish(t)
  <2>1. bump + ArenaBytes \in Nat
    BY Memory
  <2>2. ToLong(bump + ArenaBytes) \in Int
    BY <1>0, <2>1 DEF ToLong
  <2>3. QED
    BY <1>0, <1>7, <2>2 DEF Publish, memory, locals, program, Goto
<1>8. CASE WaitForLock(t) \/ LeaveList(t) \/ AskToLink(t)
  BY <1>8 DEF WaitForLock, LeaveList, AskToLink, arena, memory, locals, program, Goto
<1>9. CASE ReadHead(t)
  <2>1. ClassAsked(t) \in Classes
    BY <1>9, Asked DEF ReadHead, Picked
  <2>2. free[ClassAsked(t)] \in Nat
    BY <2>1, Memory
  <2>3. QED
    BY <1>9, <2>2 DEF ReadHead, arena, memory, program, Goto
<1>10. CASE Unlink(t)
  <2>1. ClassAsked(t) \in Classes /\ p[t] = free[ClassAsked(t)] /\ p[t] # 0
    BY <1>10, Asked DEF Unlink, Picked, Heads, Locals
  <2>2. word[p[t] + 16] \in Addresses \cup {0}
    BY <2>1, HeadBlock
  <2>3. QED
    BY <1>10, <2>1, <2>2 DEF Unlink, arena, memory, locals, program, Goto, Granule
<1>11. CASE Clear(t)
  BY <1>11 DEF Clear, arena, locals, program, Goto, Fresh
<1>12. CASE Bump(t)
  <2>1. ClassAsked(t) \in Classes /\ SizeAsked(t) + Granule \in Nat
    BY <1>12, Asked DEF Bump, Picked, SizeAsked, Granule
  <2>2. ToLong(SizeAsked(t) + Granule) \in Int
    BY <1>0, <2>1 DEF ToLong
  <2>3. QED
    BY <1>0, <1>12, <2>2 DEF Bump, memory, program, Goto
<1>13. CASE CheckEnd(t)
  BY <1>13 DEF CheckEnd, arena, memory, program, Goto
<1>14. CASE Stamp(t)
  <2>1. ClassAsked(t) \in Classes
    BY <1>14, Asked DEF Stamp, Picked
  <2>2. QED
    BY <1>14, <2>1 DEF Stamp, arena, locals, program, Goto
<1>15. CASE ReturnBlock(t)
  <2>1. p[t] + 16 \in Addresses /\ p[t] \in New(t)
    <3>1. p[t] \in New(t)
      BY <1>15 DEF ReturnBlock, New
    <3>2. QED
      BY <3>1, NewBlock, Payloads
  <2>2. Token(p[t] + Granule) \in Int
    BY Memory DEF Token, Granule
  <2>3. QED
    BY <1>15, <2>1, <2>2 DEF ReturnBlock, Finish, Keep, arena, Goto, Granule
<1>16. CASE ReturnNull(t)
  <2>1. job[t] = "realloc" => blk[t] \in Addresses
    <3> SUFFICES ASSUME job[t] = "realloc" PROVE blk[t] \in Addresses
      OBVIOUS
    <3>1. blk[t] - 16 \in Stamped
      BY <1>16, OldBlock DEF ReturnNull
    <3>2. (blk[t] - 16) + 16 \in Addresses
      BY <3>1, Payloads
    <3>3. QED
      BY <3>2
  <2>2. QED
    BY <1>16, <2>1 DEF ReturnNull, Finish, arena, Goto
<1>17. CASE Copy(t)
  <2>1. \A g \in Payload(blk[t], ClassOfBlock(blk[t])) : g \in Addresses
    BY DEF Payload
  <2>2. QED
    BY <1>17, <2>1 DEF Copy, arena, locals, program, Goto
<1>18. CASE CheckOld(t) \/ Retire(t)
  BY <1>18 DEF CheckOld, Retire, arena, memory, locals, program, Goto
<1>19. CASE LinkBlock(t)
  <2>1. class[blk[t] - 16] \in Classes
    BY <1>19, OldBlock DEF LinkBlock
  <2>2. free[ClassOfBlock(blk[t])] \in Int
    BY <2>1, Memory DEF ClassOfBlock, Granule
  <2>3. QED
    BY <1>19, <2>2 DEF LinkBlock, arena, locals, program, Goto
<1>20. CASE LinkHead(t)
  <2>1. class[blk[t] - 16] \in Classes /\ blk[t] - 16 \in Addresses
    BY <1>20, OldBlock DEF LinkHead
  <2>2. QED
    BY <1>20, <2>1 DEF LinkHead, arena, memory, locals, program, Goto, ClassOfBlock, Granule
<1>21. CASE LeaveLinked(t)
  <2>1. job[t] = "realloc" => p[t] + 16 \in Addresses
    <3> SUFFICES ASSUME job[t] = "realloc" PROVE p[t] + 16 \in Addresses
      OBVIOUS
    <3>1. p[t] \in New(t)
      BY <1>21 DEF LeaveLinked, Locals, Freeing, New
    <3>2. QED
      BY <3>1, NewBlock, Payloads
  <2>2. Token(p[t] + Granule) \in Int
    BY Memory DEF Token, Granule
  <2>3. QED
    BY <1>21, <2>1, <2>2 DEF LeaveLinked, Finish, Keep, arena, Goto, Granule
<1>22. QED
  BY <1>1, <1>2, <1>3, <1>4, <1>5, <1>6, <1>7, <1>8, <1>9, <1>10, <1>11, <1>12, <1>13, <1>14,
     <1>15, <1>16, <1>17, <1>18, <1>19, <1>20, <1>21 DEF Calling, Step

(* Where bump and end go.                                                  *)
LEMMA Cuts ==
  ASSUME Sane, NEW n \in Nat, NEW k \in Nat, n + k < AddressSpace
  PROVE  (n + ToLong(k)) % AddressSpace = n + k
<1>1. AddressSpace \in Nat /\ AddressSpace > 0 /\ LongSpan = AddressSpace
  BY Memory DEF Sane
<1>2. k % AddressSpace = k
  BY <1>1
<1>3. ToLong(k) = k \/ ToLong(k) = k - AddressSpace
  BY <1>1, <1>2 DEF ToLong
<1>4. (n + k) % AddressSpace = n + k
  BY <1>1
<1>5. (n + (k - AddressSpace)) % AddressSpace = n + k
  BY <1>1
<1>6. QED
  BY <1>3, <1>4, <1>5

(* what each thread's locals say                                           *)
LEMMA LocalsKept ==
  ASSUME Sane, Inv, NEW t \in Threads, Calling(t) \/ Step(t), NEW u \in Threads
  PROVE  Locals(u)'
<1> USE DEF Types, Inv, Threaded, Locals, BeforeFit, Reserving, Freeing, Picked, Goto
<1>0. Locals(u) /\ Locals(t)
  OBVIOUS
<1>1. CASE \E n \in Sizes : CallMalloc(t, n)
  BY <1>1 DEF CallMalloc, Call
<1>2. CASE \E b \in held \cup Strays : CallFree(t, b)
  BY <1>2 DEF CallFree
<1>3. CASE \E b \in held, n \in Sizes : ReallocInPlace(t, b, n)
  BY <1>3 DEF ReallocInPlace, Call
<1>4. CASE \E b \in held, n \in Sizes : ReallocElsewhere(t, b, n)
  BY <1>4 DEF ReallocElsewhere, Call
<1>5. CASE ReadEnd(t) \/ Claim(t) \/ AwaitEnd(t) \/ Publish(t)
  BY <1>5 DEF ReadEnd, Claim, AwaitEnd, Publish, locals
<1>6. CASE Refuse(t) \/ AskForList(t)
  BY <1>6 DEF Refuse, AskForList, locals
<1>7. CASE \E a \in Arenas \cup Refusals : MapArena(t, a)
  BY <1>7 DEF MapArena, locals
<1>8. CASE WaitForLock(t)
  BY <1>8 DEF WaitForLock, locals
<1>9. CASE LeaveList(t) \/ AskToLink(t)
  BY <1>9 DEF LeaveList, AskToLink, locals
<1>10. CASE ReadHead(t)
  BY <1>10 DEF ReadHead
<1>11. CASE Unlink(t) \/ Clear(t) \/ Stamp(t)
  BY <1>11 DEF Unlink, Clear, Stamp, locals
<1>12. CASE Bump(t)
  <2>1. bump # 0
    BY <1>12, Memory DEF Bump, Reservation
  <2>2. QED
    BY <1>12, <2>1 DEF Bump
<1>13. CASE CheckEnd(t)
  BY <1>13 DEF CheckEnd
<1>14. CASE ReturnBlock(t) \/ ReturnNull(t)
  BY <1>14 DEF ReturnBlock, ReturnNull, Finish
<1>15. CASE Copy(t) \/ CheckOld(t) \/ Retire(t)
  BY <1>15 DEF Copy, CheckOld, Retire, locals
<1>16. CASE LinkBlock(t) \/ LinkHead(t)
  BY <1>16 DEF LinkBlock, LinkHead, locals
<1>17. CASE LeaveLinked(t)
  BY <1>17 DEF LeaveLinked, Finish
<1>18. QED
  BY <1>1, <1>2, <1>3, <1>4, <1>5, <1>6, <1>7, <1>8, <1>9, <1>10, <1>11, <1>12, <1>13, <1>14,
     <1>15, <1>16, <1>17 DEF Calling, Step

(* and where each thread is with the lock.                                 *)
LEMMA LockAtKept ==
  ASSUME Sane, Inv, NEW t \in Threads, Calling(t) \/ Step(t), NEW u \in Threads
  PROVE  LockAt(u)'
<1> USE DEF Types, Inv, Threaded, LockAt, AtList, Goto
<1>0. at \in [Threads -> {"outside", "waiting", "confirming", "inside"}] /\ LockAt(u) /\ LockAt(t)
  BY PlacesOfLock
<1>1. CASE AskForList(t) \/ AskToLink(t)
  BY <1>0, <1>1 DEF AskForList, AskToLink, Lock!DrawTicket
<1>2. CASE WaitForLock(t)
  <2>1. at[t] \in {"waiting", "confirming"} /\ pc' = pc
    BY <1>2 DEF WaitForLock, Lock!See, Lock!Confirm
  <2>2. \E w \in {"waiting", "confirming", "inside"} : at' = [at EXCEPT ![t] = w]
    BY <1>2 DEF WaitForLock, Lock!See, Lock!Confirm
  <2>3. QED
    BY <1>0, <2>1, <2>2
<1>3. CASE LeaveList(t)
  BY <1>0, <1>3 DEF LeaveList, Lock!Give
<1>4. CASE LeaveLinked(t)
  BY <1>0, <1>4 DEF LeaveLinked, Lock!Give, Finish
<1>5. CASE ~AskForList(t) /\ ~WaitForLock(t) /\ ~LeaveList(t) /\ ~AskToLink(t) /\ ~LeaveLinked(t)
  <2>0. at' = at
    BY <1>5, Unlocked DEF lock
  <2>1. CASE Calling(t)
    BY <1>0, <2>0, <2>1 DEF Calling, CallMalloc, CallFree, ReallocInPlace, ReallocElsewhere, Call
  <2>2. CASE ReadEnd(t) \/ Claim(t) \/ (\E a \in Arenas \cup Refusals : MapArena(t, a))
             \/ Publish(t) \/ AwaitEnd(t) \/ Refuse(t) 
    BY <1>0, <2>0, <2>2 DEF ReadEnd, Claim, MapArena, Publish, AwaitEnd, Refuse
  <2>3. CASE ReadHead(t) \/ Unlink(t) \/ Clear(t) \/ Bump(t) \/ CheckEnd(t) \/ Stamp(t)
    BY <1>0, <2>0, <2>3 DEF ReadHead, Unlink, Clear, Bump, CheckEnd, Stamp
  <2>4. CASE ReturnBlock(t) \/ ReturnNull(t) \/ Copy(t) \/ CheckOld(t) \/ Retire(t) \/ LinkBlock(t) \/ LinkHead(t)
    BY <1>0, <2>0, <2>4 DEF ReturnBlock, ReturnNull, Copy, CheckOld, Retire, LinkBlock, LinkHead, Finish
  <2>5. QED
    BY <1>5, <2>1, <2>2, <2>3, <2>4 DEF Step
<1>6. QED
  BY <1>1, <1>2, <1>3, <1>4, <1>5

-----------------------------------------------------------------------------
(* The bump and the arena                                                  *)

(* Products of naturals, for the budget.                                   *)
LEMMA Times ==
  ASSUME NEW m \in Nat
  PROVE  /\ \A k \in Nat : m * k \in Nat /\ m * (k + 1) = m * k + m
         /\ \A j \in Nat, k \in Nat : j <= k => m * j <= m * k
<1>1. \A k \in Nat : m * k \in Nat /\ m * (k + 1) = m * k + m
  OBVIOUS
<1>2. ASSUME NEW j \in Nat, NEW k \in Nat, j <= k PROVE m * j <= m * k
  <2>1. m * (k - j) >= 0 /\ m * k = m * j + m * (k - j)
    BY <1>2
  <2>2. QED
    BY <1>1, <2>1
<1>3. QED
  BY <1>1, <1>2

(* The threads that may still bump, counted.                               *)
LEMMA OwedCount ==
  /\ IsFiniteSet(Owed) /\ Cardinality(Owed) \in Nat
  /\ \A t \in Owed : Cardinality(Owed) >= 1 /\ Cardinality(Owed \ {t}) = Cardinality(Owed) - 1
  /\ \A t \in Threads \ Owed : Cardinality(Owed \cup {t}) = Cardinality(Owed) + 1
<1>1. IsFiniteSet(Owed)
  BY ThreadsAssumption, FS_Subset DEF Owed
<1>2. Cardinality(Owed) \in Nat
  BY <1>1, FS_CardinalityType
<1>3. ASSUME NEW t \in Owed
      PROVE  Cardinality(Owed) >= 1 /\ Cardinality(Owed \ {t}) = Cardinality(Owed) - 1
  <2>1. Cardinality(Owed \ {t}) = Cardinality(Owed) - 1
    BY <1>1, <1>3, FS_RemoveElement
  <2>2. Cardinality(Owed \ {t}) \in Nat
    BY <1>1, FS_RemoveElement, FS_CardinalityType
  <2>3. QED
    BY <1>2, <2>1, <2>2
<1>4. \A t \in Threads \ Owed : Cardinality(Owed \cup {t}) = Cardinality(Owed) + 1
  BY <1>1, FS_AddElement DEF Owed
<1>5. QED
  BY <1>1, <1>2, <1>3, <1>4

(* A thread that bumps finds room for its block below the end of memory.   *)
LEMMA BumpGoesUp ==
  ASSUME Sane, Inv, NEW m \in Nat, Ample(m), Budget(m), NEW t \in Threads, Bump(t)
  PROVE  /\ bump' = bump + Room(ClassAsked(t))
         /\ end # 0 /\ base \in Arenas /\ base <= bump /\ bump % 16 = 0
         /\ bump' % 16 = 0 /\ bump' < AddressSpace
<1> USE DEF Inv, Types, Threaded
<1>1. /\ ClassAsked(t) \in Classes /\ Room(ClassAsked(t)) \in Nat /\ Room(ClassAsked(t)) % 16 = 0
      /\ SizeAsked(t) + Granule = Room(ClassAsked(t))
  BY Asked DEF Bump, Picked, SizeAsked, Granule
<1>2. Room(ClassAsked(t)) <= m
  BY <1>1 DEF Ample
<1>3. end # 0 /\ base \in Arenas /\ base <= bump /\ bump % 16 = 0
  BY DEF Bump, Reservation, BeforeFit, Reserving, Granule
<1>4. Cardinality(Owed) \in Nat /\ Cardinality(Owed) >= 1
  BY OwedCount DEF Bump, Owed, Searching
<1>5. m <= m * Cardinality(Owed) /\ m * calls <= m * MaxCalls
  BY <1>4, Times, CallsAssumption
<1>6. /\ m * Cardinality(Owed) \in Nat /\ m * calls \in Nat /\ m * MaxCalls \in Nat
  BY <1>4, Times, CallsAssumption
<1>7. base + m * MaxCalls < AddressSpace /\ base \in Nat
  BY <1>3, Memory DEF Ample
<1>8. bump + Room(ClassAsked(t)) < AddressSpace
  BY <1>1, <1>2, <1>5, <1>6, <1>7, Memory DEF Budget
<1>9. bump' = bump + Room(ClassAsked(t))
  BY <1>1, <1>8, Cuts DEF Bump
<1>10. QED
  BY <1>1, <1>3, <1>8, <1>9

(* Each call bumps once at most, and by no more than m.                    *)
LEMMA BudgetKept ==
  ASSUME Sane, Inv, NEW m \in Nat, Ample(m), Budget(m), NEW t \in Threads, Calling(t) \/ Step(t)
  PROVE  Budget(m)'
<1> USE DEF Inv, Types, Threaded, Goto
<1>0. /\ Cardinality(Owed) \in Nat /\ m * calls \in Nat /\ m * Cardinality(Owed) \in Nat
      /\ m * (calls + 1) = m * calls + m
      /\ m * (Cardinality(Owed) + 1) = m * Cardinality(Owed) + m
      /\ \A t_ \in Owed : m * Cardinality(Owed) = m * (Cardinality(Owed) - 1) + m /\ m * (Cardinality(Owed) - 1) \in Nat
  <2>1. Cardinality(Owed) \in Nat /\ \A t_ \in Owed : Cardinality(Owed) >= 1
    BY OwedCount
  <2>2. \A t_ \in Owed : Cardinality(Owed) - 1 \in Nat /\ Cardinality(Owed) = (Cardinality(Owed) - 1) + 1
    BY <2>1
  <2>3. QED
    BY <2>1, <2>2, Times
<1>1. ASSUME Owed' = Owed, bump' = bump, base' = base, calls' = calls PROVE Budget(m)'
  BY <1>1 DEF Budget
<1>1a. ASSUME Owed' = Owed, bump' = bump, base' = base, calls' = calls + 1 PROVE Budget(m)'
  BY <1>0, <1>1a DEF Budget
<1>1b. ASSUME Owed' = Owed \ {t}, t \in Owed, bump' = bump, base' = base, calls' = calls PROVE Budget(m)'
  <2>1. Cardinality(Owed') = Cardinality(Owed) - 1
    BY <1>1b, OwedCount
  <2>2. QED
    BY <1>0, <1>1b, <2>1 DEF Budget
<1>2. CASE (\E n \in Sizes : CallMalloc(t, n)) \/ (\E b \in held, n \in Sizes : ReallocElsewhere(t, b, n))
  <2>1. calls' = calls + 1 /\ bump' = bump /\ base' = base /\ pc' = [pc EXCEPT ![t] = "enter"] /\ pc[t] = "idle"
    BY <1>2 DEF CallMalloc, ReallocElsewhere, Call, arena
  <2>2. Owed' = Owed \cup {t} /\ t \notin Owed
    BY <2>1 DEF Owed, Reserving, Searching
  <2>3. Cardinality(Owed') = Cardinality(Owed) + 1
    BY <2>2, OwedCount
  <2>4. QED
    BY <1>0, <2>1, <2>3 DEF Budget
<1>3. CASE \E b \in held \cup Strays : CallFree(t, b)
  <2>1. calls' = calls + 1 /\ bump' = bump /\ base' = base /\ Owed' = Owed
    BY <1>3 DEF CallFree, arena, Owed, Reserving, Searching
  <2>2. QED
    BY <2>1, <1>1a
<1>4. CASE \E b \in held, n \in Sizes : ReallocInPlace(t, b, n)
  BY <1>4, <1>1a DEF ReallocInPlace, Call, arena, Owed
<1>5. CASE ReadEnd(t) \/ Claim(t) \/ Publish(t) \/ AwaitEnd(t) \/ AskForList(t) \/ ReadHead(t) \/ Unlink(t)
  <2>1. Owed' = Owed /\ bump' = bump /\ base' = base /\ calls' = calls
    BY <1>5 DEF ReadEnd, Claim, Publish, AwaitEnd, AskForList, ReadHead, Unlink,
            arena, program, Owed, Reserving, Searching
  <2>2. QED
    BY <2>1, <1>1
<1>6. CASE \E a \in Arenas \cup Refusals : MapArena(t, a)
  <2>1. bump' = base' /\ Owed' = Owed /\ calls' = calls /\ bump = 0 /\ base = 0 /\ bump' \in Nat
    BY <1>6, Memory DEF MapArena, program, Owed, Reserving, Searching, Reservation, Sane
  <2>2. QED
    BY <1>0, <2>1 DEF Budget
<1>7. CASE WaitForLock(t)
  BY <1>7, <1>1 DEF WaitForLock, arena, program, Owed
<1>8. CASE Refuse(t)
  <2>1. Owed' = Owed \ {t} /\ t \in Owed /\ bump' = bump /\ base' = base /\ calls' = calls
    BY <1>8 DEF Refuse, arena, program, Owed, Reserving, Searching
  <2>2. QED
    BY <2>1, <1>1b
<1>9. CASE LeaveList(t)
  <2>1. bump' = bump /\ base' = base /\ calls' = calls /\ t \in Owed
    BY <1>9 DEF LeaveList, arena, program, Owed, Searching
  <2>2. CASE p[t] # 0
    <3>1. Owed' = Owed \ {t}
      BY <1>9, <2>2 DEF LeaveList, Owed, Reserving, Searching
    <3>2. QED
      BY <2>1, <3>1, <1>1b
  <2>3. CASE p[t] = 0
    <3>1. Owed' = Owed
      BY <1>9, <2>3 DEF LeaveList, Owed, Reserving, Searching
    <3>2. QED
      BY <2>1, <3>1, <1>1
  <2>4. QED
    BY <2>2, <2>3
<1>10. CASE Bump(t)
  <2>1. Owed' = Owed \ {t} /\ t \in Owed /\ base' = base /\ calls' = calls
    BY <1>10 DEF Bump, program, Owed, Reserving, Searching
  <2>2. bump' = bump + Room(ClassAsked(t))
    BY <1>10, BumpGoesUp
  <2>3. Room(ClassAsked(t)) <= m /\ Room(ClassAsked(t)) \in Nat
    BY <1>10, Asked DEF Ample, Bump, Picked
  <2>4. Cardinality(Owed') = Cardinality(Owed) - 1
    BY <2>1, OwedCount
  <2>5. QED
    BY <1>0, <2>1, <2>2, <2>3, <2>4 DEF Budget
<1>11. CASE Clear(t) \/ CheckEnd(t) \/ Stamp(t) \/ Copy(t) \/ CheckOld(t) \/ Retire(t) \/ AskToLink(t)
            \/ LinkBlock(t) \/ LinkHead(t)
  <2>1. Owed' = Owed /\ bump' = bump /\ base' = base /\ calls' = calls
    BY <1>11 DEF Clear, CheckEnd, Stamp, Copy, CheckOld, Retire, AskToLink, LinkBlock, LinkHead,
             arena, program, Owed, Reserving, Searching
  <2>2. QED
    BY <2>1, <1>1
<1>12. CASE ReturnBlock(t) \/ ReturnNull(t) \/ LeaveLinked(t)
  <2>1. Owed' = Owed /\ bump' = bump /\ base' = base /\ calls' = calls
    BY <1>12 DEF ReturnBlock, ReturnNull, LeaveLinked, Finish, arena, program, Owed, Reserving, Searching
  <2>2. QED
    BY <2>1, <1>1
<1>13. QED
  BY <1>2, <1>3, <1>4, <1>5, <1>6, <1>7, <1>8, <1>9, <1>10, <1>11, <1>12 DEF Calling, Step

(* One caller at most maps the arena, and everybody else waits for it.     *)
LEMMA ReservationKept ==
  ASSUME Sane, Inv, NEW m \in Nat, Ample(m), Budget(m), NEW t \in Threads, Calling(t) \/ Step(t)
  PROVE  Reservation'
<1> USE DEF Inv, Types, Threaded, Goto, Reservation, BeforeFit, Reserving
<1>1. CASE \E n \in Sizes : CallMalloc(t, n)
  BY <1>1 DEF CallMalloc, Call, arena, memory
<1>2. ASSUME NEW b \in held \cup Strays, CallFree(t, b) PROVE Reservation'
  <2>1. Owns(b) => b \in held
    BY OwnsHeld
  <2>2. QED
    BY <1>2, <2>1 DEF CallFree, arena, memory
<1>3. CASE \E b \in held, n \in Sizes : ReallocInPlace(t, b, n)
  BY <1>3 DEF ReallocInPlace, Call, arena, memory
<1>4. CASE \E b \in held, n \in Sizes : ReallocElsewhere(t, b, n)
  BY <1>4 DEF ReallocElsewhere, Call, arena, memory
<1>5. CASE ReadEnd(t) \/ AwaitEnd(t) \/ Refuse(t) \/ AskForList(t)
  BY <1>5 DEF ReadEnd, AwaitEnd, Refuse, AskForList, arena, memory, locals, program
<1>6. CASE Claim(t)
  BY <1>6 DEF Claim, memory, locals, program
<1>7. CASE \E a \in Arenas \cup Refusals : MapArena(t, a)
  BY <1>7, Memory DEF MapArena, Sane, memory, locals, program, Granule
<1>8. CASE Publish(t)
  <2>1. base \in Arenas /\ bump = base /\ end = 0 /\ base \in Nat
    BY <1>8, Memory DEF Publish
  <2>2. base + ArenaBytes < AddressSpace /\ ArenaBytes \in Nat /\ AddressSpace \in Nat /\ ArenaBytes > 0
    BY <2>1, Memory
  <2>3. (0 + ToLong(base + ArenaBytes)) % AddressSpace = 0 + (base + ArenaBytes)
    BY <2>1, <2>2, Cuts
  <2>4. end' = base + ArenaBytes /\ end' # 0
    BY <1>8, <2>1, <2>2, <2>3 DEF Publish
  <2>5. QED
    BY <1>8, <2>1, <2>4 DEF Publish, memory, locals, program
<1>9. CASE WaitForLock(t) \/ LeaveList(t) \/ AskToLink(t)
  BY <1>9 DEF WaitForLock, LeaveList, AskToLink, arena, memory, locals, program
<1>10. CASE ReadHead(t) \/ Unlink(t) \/ Clear(t)
  BY <1>10 DEF ReadHead, Unlink, Clear, arena, memory, locals, program
<1>11. CASE Bump(t)
  <2>0. Room(ClassAsked(t)) \in Nat
    BY <1>11, Asked DEF Bump, Picked
  <2>1. bump' >= bump /\ bump' % Granule = 0
    BY <1>11, <2>0, BumpGoesUp DEF Granule
  <2>2. QED
    BY <1>11, <2>1, Memory DEF Bump, memory, program
<1>12. CASE CheckEnd(t) \/ Stamp(t) \/ Copy(t) \/ CheckOld(t) \/ Retire(t)
  BY <1>12 DEF CheckEnd, Stamp, Copy, CheckOld, Retire, arena, memory, locals, program
<1>13. CASE ReturnBlock(t) \/ ReturnNull(t)
  BY <1>13 DEF ReturnBlock, ReturnNull, Finish, arena
<1>14. CASE LinkBlock(t) \/ LinkHead(t)
  BY <1>14 DEF LinkBlock, LinkHead, arena, memory, locals, program
<1>15. CASE LeaveLinked(t)
  BY <1>15 DEF LeaveLinked, Finish, arena
<1>16. QED
  BY <1>1, <1>2, <1>3, <1>4, <1>5, <1>6, <1>7, <1>8, <1>9, <1>10, <1>11, <1>12, <1>13, <1>14,
     <1>15 DEF Calling, Step

-----------------------------------------------------------------------------
(* Blocks lie apart                                                        *)

(* A step that stamps nothing and carves nothing leaves where blocks are.  *)
Still == /\ Stamped' = Stamped
         /\ \A g \in Stamped : class'[g] = class[g]
         /\ base' = base /\ end' = end /\ bump' = bump
         /\ \A u \in Threads : /\ Carving(u)' => Carving(u)
                               /\ Carving(u) => /\ Carving(u)' /\ p'[u] = p[u]
                                                /\ req'[u] = req[u] /\ pc'[u] = pc[u]
                               /\ pc'[u] = "stamp" => p'[u] \in Addresses

(* Blocks stay where they are when nothing is carved or stamped,           *)
LEMMA StillGeometry ==
  ASSUME Still, Geometry, Covered
  PROVE  Geometry' /\ Covered'
<1>1. \A u \in Threads : Carving(u) => CarvedEnd(u)' = CarvedEnd(u)
  BY DEF Still, CarvedEnd, ClassAsked
<1>2. \A u \in Threads : pc'[u] = "stamp" /\ tag'[p'[u]] = "none" => Carving(u)'
  BY DEF Carving
<1>3. \A g \in Stamped : End(g)' = End(g)
  BY DEF Still, End
<1>4. Geometry'
  <2>1. \A g \in Stamped' : class'[g] \in Classes /\ base' <= g /\ End(g)' <= end' /\ End(g)' <= bump'
    BY <1>3 DEF Still, Geometry
  <2>2. \A g, h \in Stamped' : g # h => End(g)' <= h \/ End(h)' <= g
    BY <1>3 DEF Still, Geometry
  <2>3. \A u \in Threads : Carving(u)' => base' <= p'[u] /\ CarvedEnd(u)' <= bump' /\ p'[u] % Granule = 0
    BY <1>1 DEF Still, Geometry
  <2>4. \A u \in Threads : pc'[u] = "stamp" /\ tag'[p'[u]] = "none" => CarvedEnd(u)' <= end'
    BY <1>1, <1>2 DEF Still, Geometry, Carving
  <2>5. \A u \in Threads, g \in Stamped' : Carving(u)' => CarvedEnd(u)' <= g \/ End(g)' <= p'[u]
    BY <1>1, <1>3 DEF Still, Geometry
  <2>6. \A u, v \in Threads : Carving(u)' /\ Carving(v)' /\ u # v =>
           CarvedEnd(u)' <= p'[v] \/ CarvedEnd(v)' <= p'[u]
    BY <1>1 DEF Still, Geometry
  <2>7. QED
    BY <2>1, <2>2, <2>3, <2>4, <2>5, <2>6 DEF Still, Geometry
<1>5. Covered'
  BY <1>1, <1>3 DEF Still, Covered
<1>6. QED
  BY <1>4, <1>5

(* which is so in all but five steps.                                      *)
LEMMA GeometryStill ==
  ASSUME Sane, Inv, NEW t \in Threads, Calling(t) \/ Step(t),
         ~Bump(t), ~CheckEnd(t), ~Stamp(t), ~Publish(t), \A a \in Arenas \cup Refusals : ~MapArena(t, a)
  PROVE  Still
<1> USE DEF Inv, Types, Threaded, Goto, Still, Stamped, Carving
<1>0. \A u \in Threads : pc[u] = "stamp" => p[u] \in Addresses
  BY DEF Geometry
<1>1. CASE \E n \in Sizes : CallMalloc(t, n)
  BY <1>0, <1>1 DEF CallMalloc, Call, arena, memory
<1>2. CASE \E b \in held \cup Strays : CallFree(t, b)
  BY <1>0, <1>2 DEF CallFree, arena, memory
<1>3. CASE \E b \in held, n \in Sizes : ReallocInPlace(t, b, n)
  BY <1>0, <1>3 DEF ReallocInPlace, Call, arena, memory
<1>4. CASE \E b \in held, n \in Sizes : ReallocElsewhere(t, b, n)
  BY <1>0, <1>4 DEF ReallocElsewhere, Call, arena, memory
<1>5. CASE ReadEnd(t) \/ AwaitEnd(t) \/ Refuse(t) \/ AskForList(t) \/ Claim(t)
  BY <1>0, <1>5 DEF ReadEnd, AwaitEnd, Refuse, AskForList, Claim, arena, memory, locals, program
<1>6. CASE WaitForLock(t) \/ LeaveList(t) \/ AskToLink(t)
  BY <1>0, <1>6 DEF WaitForLock, LeaveList, AskToLink, arena, memory, locals, program
<1>7. CASE ReadHead(t) \/ Unlink(t)
  BY <1>0, <1>7 DEF ReadHead, Unlink, arena, memory, locals, program
<1>8. CASE Clear(t)
  <2>1. p[t] \in Addresses /\ tag[p[t]] = "free"
    <3>1. p[t] \in New(t)
      BY <1>8 DEF Clear, New, Locals
    <3>2. QED
      BY <1>8, <3>1, NewBlock DEF Clear, Owned
  <2>2. QED
    BY <1>0, <1>8, <2>1 DEF Clear, arena, locals, program
<1>9. CASE Copy(t)
  BY <1>0, <1>9 DEF Copy, arena, memory, locals, program
<1>10. CASE Retire(t)
  <2>1. blk[t] - Granule \in Old(t)
    BY <1>10, OldBlock DEF Retire, Granule
  <2>2. tag[blk[t] - Granule] = "live"
    BY <1>10, <2>1 DEF Retire, Owned, Freeing
  <2>3. QED
    BY <1>0, <1>10, <2>2 DEF Retire, arena, locals, program
<1>11. CASE ReturnBlock(t) \/ ReturnNull(t)
  BY <1>0, <1>11 DEF ReturnBlock, ReturnNull, Finish, arena
<1>12. CASE CheckOld(t) \/ LinkBlock(t) \/ LinkHead(t)
  BY <1>0, <1>12 DEF CheckOld, LinkBlock, LinkHead, arena, memory, locals, program
<1>13. CASE LeaveLinked(t)
  BY <1>0, <1>13 DEF LeaveLinked, Finish, arena
<1>14. QED
  BY <1>1, <1>2, <1>3, <1>4, <1>5, <1>6, <1>7, <1>8, <1>9, <1>10, <1>11, <1>12, <1>13 DEF Calling, Step

(* The bump stays below the end of the address space,                      *)
LEMMA BumpBelow ==
  ASSUME Types, Reservation, NEW m \in Nat, Ample(m), Budget(m), end # 0
  PROVE  bump < AddressSpace
<1> USE DEF Types
<1>1. Cardinality(Owed) \in Nat
  BY OwedCount
<1>2. /\ m * Cardinality(Owed) \in Nat /\ m * calls \in Nat /\ m * MaxCalls \in Nat
      /\ m * calls <= m * MaxCalls
  BY <1>1, Times, CallsAssumption
<1>3. base + m * MaxCalls < AddressSpace
  BY DEF Reservation, Ample
<1>4. QED
  BY <1>2, <1>3, Memory DEF Budget

(* where arithmetic does not wrap.                                         *)
LEMMA WithinMemory ==
  ASSUME NEW n \in Nat, n < AddressSpace
  PROVE  n % AddressSpace = n
BY Memory

(* Blocks lie apart and cover what has been bumped, after each step.       *)
LEMMA GeometryKept ==
  ASSUME Sane, Inv, NEW m \in Nat, Ample(m), Budget(m), NEW t \in Threads, Calling(t) \/ Step(t)
  PROVE  Geometry' /\ Covered'
<1> USE DEF Inv, Types, Threaded, Goto
<1>1. CASE (\E a \in Arenas \cup Refusals : MapArena(t, a)) \/ Publish(t)
  <2>1. /\ Stamped = {} /\ \A u \in Threads : pc[u] \notin {"check", "stamp"}
    BY <1>1 DEF MapArena, Publish, Reservation, Stamped, BeforeFit, Reserving
  <2>2. /\ Stamped' = {} /\ \A u \in Threads : pc'[u] \notin {"check", "stamp"}
    BY <1>1, <2>1 DEF MapArena, Publish, memory, Stamped
  <2>3. Geometry'
    BY <2>2 DEF Geometry, Carving
  <2>4. Covered'
    <3>1. CASE Publish(t)
      BY <3>1, Memory DEF Publish, Reservation, Covered
    <3>2. CASE \E a \in Arenas \cup Refusals : MapArena(t, a)
      BY <3>2 DEF MapArena, Reservation, Covered
    <3>3. QED
      BY <1>1, <3>1, <3>2
  <2>5. QED
    BY <2>3, <2>4
<1>2. CASE Bump(t)
  <2>1. /\ bump' = bump + Room(ClassAsked(t)) /\ base <= bump /\ bump % 16 = 0
        /\ Room(ClassAsked(t)) \in Nat /\ Room(ClassAsked(t)) >= 32
    BY <1>2, BumpGoesUp, Asked DEF Bump, Picked
  <2>2. /\ base' = base /\ end' = end /\ Stamped' = Stamped /\ class' = class /\ tag' = tag
        /\ pc[t] = "bump"
        /\ pc' = [pc EXCEPT ![t] = "check"] /\ p' = [p EXCEPT ![t] = bump] /\ req' = req
    BY <1>2 DEF Bump, memory, Stamped
  <2>3. \A g \in Stamped : End(g)' = End(g)
    BY <2>2 DEF End
  <2>4. /\ Carving(t)' /\ ~Carving(t) /\ p'[t] = bump /\ CarvedEnd(t)' = bump'
    BY <2>1, <2>2 DEF Carving, CarvedEnd, ClassAsked
  <2>5. \A u \in Threads \ {t} : /\ Carving(u)' <=> Carving(u)
                                 /\ p'[u] = p[u] /\ CarvedEnd(u)' = CarvedEnd(u)
    BY <2>2 DEF Carving, CarvedEnd, ClassAsked
  <2>6. Geometry'
    <3>1. \A g \in Stamped' : class'[g] \in Classes /\ base' <= g /\ End(g)' <= end' /\ End(g)' <= bump'
      <4> SUFFICES ASSUME NEW g \in Stamped
                   PROVE  class[g] \in Classes /\ base <= g /\ End(g) <= end /\ End(g) <= bump'
        BY <2>2, <2>3
      <4>1. class[g] \in Classes /\ base <= g /\ End(g) <= end /\ End(g) <= bump
        BY DEF Geometry
      <4>2. End(g) \in Int
        BY <4>1, Rooms, Memory DEF End, Stamped
      <4>3. QED
        BY <2>1, <4>1, <4>2
    <3>2. \A g, h \in Stamped' : g # h => End(g)' <= h \/ End(h)' <= g
      BY <2>2, <2>3 DEF Geometry
    <3>3. \A u \in Threads : Carving(u)' => base' <= p'[u] /\ CarvedEnd(u)' <= bump' /\ p'[u] % Granule = 0
      <4>1. ASSUME NEW u \in Threads \ {t}, Carving(u)
            PROVE  base <= p[u] /\ CarvedEnd(u) <= bump' /\ p[u] % Granule = 0
        <5>1. ClassAsked(u) \in Classes
          BY <4>1, Asked DEF Carving, Picked
        <5>2. CarvedEnd(u) \in Int
          BY <5>1, Rooms DEF CarvedEnd
        <5>3. QED
          BY <2>1, <4>1, <5>2 DEF Geometry
      <4>2. QED
        BY <2>1, <2>2, <2>4, <2>5, <4>1 DEF Granule
    <3>4. \A u \in Threads : pc'[u] = "stamp" => p'[u] \in Addresses
      BY <2>2 DEF Geometry
    <3>5. \A u \in Threads : pc'[u] = "stamp" /\ tag'[p'[u]] = "none" => CarvedEnd(u)' <= end'
      BY <2>2, <2>5 DEF Geometry
    <3>6. \A u \in Threads, g \in Stamped' : Carving(u)' => CarvedEnd(u)' <= g \/ End(g)' <= p'[u]
      BY <2>2, <2>3, <2>4, <2>5 DEF Geometry
    <3>7. \A u, v \in Threads : Carving(u)' /\ Carving(v)' /\ u # v =>
             CarvedEnd(u)' <= p'[v] \/ CarvedEnd(v)' <= p'[u]
      BY <2>2, <2>4, <2>5 DEF Geometry
    <3>8. QED
      BY <3>1, <3>2, <3>3, <3>4, <3>5, <3>6, <3>7 DEF Geometry
  <2>7. Covered'
    <3> SUFFICES ASSUME end # 0, bump' <= end, NEW x \in base .. bump' - 1
                 PROVE  \/ \E g \in Stamped : g <= x /\ x < End(g)
                        \/ \E u \in Threads : Carving(u)' /\ p'[u] <= x /\ x < CarvedEnd(u)'
      BY <2>2, <2>3 DEF Covered
    <3>1. CASE x < bump
      <4>1. \/ \E g \in Stamped : g <= x /\ x < End(g)
            \/ \E u \in Threads : Carving(u) /\ p[u] <= x /\ x < CarvedEnd(u)
        BY <2>1, <3>1 DEF Covered
      <4>2. QED
        BY <2>4, <2>5, <4>1
    <3>2. CASE x >= bump
      BY <2>1, <2>4, <3>2
    <3>3. QED
      BY <3>1, <3>2
  <2>8. QED
    BY <2>6, <2>7
<1>3. CASE CheckEnd(t)
  <2>1. /\ ClassAsked(t) \in Classes /\ Room(ClassAsked(t)) \in Nat /\ Room(ClassAsked(t)) >= 32
        /\ SizeAsked(t) + Granule = Room(ClassAsked(t))
    BY <1>3, Asked DEF CheckEnd, Picked, SizeAsked, Granule
  <2>2. /\ Carving(t) /\ pc[t] = "check" /\ base <= p[t] /\ CarvedEnd(t) <= bump /\ p[t] % Granule = 0
        /\ CarvedEnd(t) = p[t] + Room(ClassAsked(t))
    BY <1>3 DEF CheckEnd, Carving, Geometry, CarvedEnd
  <2>3. bump < AddressSpace /\ end # 0 /\ base \in Arenas /\ end = base + ArenaBytes
    BY <1>3, BumpBelow DEF CheckEnd, Reservation, BeforeFit, Reserving
  <2>4. Reaches(t) = CarvedEnd(t) /\ CarvedEnd(t) \in Nat /\ ~(CarvedEnd(t) < p[t])
    <3>1. CarvedEnd(t) \in Nat /\ CarvedEnd(t) < AddressSpace /\ ~(CarvedEnd(t) < p[t])
      BY <2>1, <2>2, <2>3, Memory
    <3>2. p[t] + SizeAsked(t) + Granule = CarvedEnd(t)
      BY <2>1, <2>2, Asked, <1>3 DEF CheckEnd, Picked, SizeAsked, Granule
    <3>3. CarvedEnd(t) % AddressSpace = CarvedEnd(t)
      BY <3>1, WithinMemory
    <3>4. QED
      BY <3>1, <3>2, <3>3 DEF Reaches
  <2>5. /\ UNCHANGED <<bump, end, base, tag, class, req>> /\ Stamped' = Stamped
        /\ \A u \in Threads \ {t} : pc'[u] = pc[u] /\ p'[u] = p[u]
    BY <1>3 DEF CheckEnd, arena, memory, Stamped
  <2>6. CASE CarvedEnd(t) <= end
    <3>1. pc'[t] = "stamp" /\ p'[t] = p[t]
      BY <1>3, <2>2, <2>4, <2>6 DEF CheckEnd
    <3>2. p[t] \in Addresses
      BY <2>1, <2>2, <2>3, <2>6, Memory DEF Granule
    <3>3. p[t] \notin Stamped
      <4> SUFFICES ASSUME p[t] \in Stamped PROVE FALSE
        OBVIOUS
      <4>1. class[p[t]] \in Classes
        BY DEF Geometry
      <4>2. Room(class[p[t]]) \in Nat /\ Room(class[p[t]]) >= 32
        BY <4>1, Rooms
      <4>3. CarvedEnd(t) <= p[t] \/ End(p[t]) <= p[t]
        BY <2>2 DEF Geometry
      <4>4. QED
        BY <2>1, <2>2, <4>2, <4>3 DEF End
    <3>4. tag[p[t]] = "none"
      BY <3>2, <3>3 DEF Stamped
    <3>5. \A u \in Threads : /\ Carving(u)' <=> Carving(u)
                             /\ CarvedEnd(u)' = CarvedEnd(u) /\ p'[u] = p[u]
      BY <2>2, <2>5, <3>1, <3>4 DEF Carving, CarvedEnd, ClassAsked
    <3>6. \A g \in Stamped : End(g)' = End(g)
      BY <2>5 DEF End
    <3>7. Geometry'
      BY <2>5, <2>6, <3>1, <3>2, <3>5, <3>6 DEF Geometry
    <3>8. Covered'
      BY <2>5, <3>5, <3>6 DEF Covered
    <3>9. QED
      BY <3>7, <3>8
  <2>7. CASE ~(CarvedEnd(t) <= end)
    <3>1. pc'[t] = "return"
      BY <1>3, <2>1, <2>2, <2>4, <2>7 DEF CheckEnd
    <3>2. ~Carving(t)' /\ \A u \in Threads \ {t} : /\ Carving(u)' <=> Carving(u)
                                     /\ CarvedEnd(u)' = CarvedEnd(u) /\ p'[u] = p[u]
      BY <2>5, <3>1 DEF Carving, CarvedEnd, ClassAsked
    <3>3. \A g \in Stamped : End(g)' = End(g)
      BY <2>5 DEF End
    <3>4. Geometry'
      BY <2>5, <3>1, <3>2, <3>3 DEF Geometry
    <3>5. ~(bump <= end)
      BY <2>1, <2>2, <2>7
    <3>6. Covered'
      BY <2>5, <3>5 DEF Covered
    <3>7. QED
      BY <3>4, <3>6
  <2>8. QED
    BY <2>6, <2>7
<1>4. CASE Stamp(t)
  <2>0. ClassAsked(t) \in Classes /\ p[t] \in Addresses
    BY <1>4, Asked DEF Stamp, Picked, Geometry
  <2>1. /\ UNCHANGED <<bump, end, base, req, p>> /\ pc[t] = "stamp"
        /\ tag' = [tag EXCEPT ![p[t]] = "live"] /\ class' = [class EXCEPT ![p[t]] = ClassAsked(t)]
        /\ pc' = [pc EXCEPT ![t] = "return"]
    BY <1>4 DEF Stamp, arena, locals
  <2>2. Stamped' = Stamped \cup {p[t]} /\ class'[p[t]] = ClassAsked(t)
    BY <2>0, <2>1 DEF Stamped
  <2>3. \A g \in Stamped \ {p[t]} : End(g)' = End(g) /\ class'[g] = class[g]
    BY <2>1 DEF End, Stamped
  <2>4. End(p[t])' = CarvedEnd(t)
    BY <2>0, <2>1 DEF End, CarvedEnd, ClassAsked
  <2>4a. \A u \in Threads \ {t} : pc'[u] = pc[u] /\ CarvedEnd(u)' = CarvedEnd(u)
    BY <2>1 DEF CarvedEnd, ClassAsked
  <2>5. CASE tag[p[t]] = "none"
    <3>1. /\ Carving(t) /\ p[t] \notin Stamped
      BY <2>1, <2>5 DEF Carving, Stamped
    <3>2. ~Carving(t)' /\ \A u \in Threads \ {t} : Carving(u)' <=> Carving(u)
      <4>1. \A u \in Threads \ {t} : pc[u] = "stamp" /\ tag[p[u]] = "none" => p[u] # p[t]
        <5> SUFFICES ASSUME NEW u \in Threads \ {t}, pc[u] = "stamp", tag[p[u]] = "none", p[u] = p[t]
                     PROVE  FALSE
          OBVIOUS
        <5>1. CarvedEnd(t) <= p[u] \/ CarvedEnd(u) <= p[t]
          BY <3>1 DEF Geometry, Carving
        <5>2. ClassAsked(u) \in Classes
          BY Asked DEF Picked
        <5>3. Room(ClassAsked(u)) >= 32 /\ Room(ClassAsked(t)) >= 32 /\ Room(ClassAsked(u)) \in Nat /\ Room(ClassAsked(t)) \in Nat
          BY <2>0, <5>2, Rooms
        <5>4. QED
          BY <5>1, <5>3 DEF CarvedEnd
      <4>2. QED
        BY <2>0, <2>1, <4>1 DEF Carving
    <3>3. Geometry'
      <4>1. \A g \in Stamped' : class'[g] \in Classes /\ base' <= g /\ End(g)' <= end' /\ End(g)' <= bump'
        BY <2>0, <2>1, <2>2, <2>3, <2>4, <2>5, <3>1 DEF Geometry
      <4>2. \A g, h \in Stamped' : g # h => End(g)' <= h \/ End(h)' <= g
        <5>1. \A g \in Stamped : g # p[t]
          BY <3>1
        <5>2. \A g \in Stamped : CarvedEnd(t) <= g \/ End(g) <= p[t]
          BY <3>1 DEF Geometry
        <5>3. \A g, h \in Stamped : g # h => End(g)' <= h \/ End(h)' <= g
          BY <2>3, <5>1 DEF Geometry
        <5>4. \A g \in Stamped : End(p[t])' <= g \/ End(g)' <= p[t]
          BY <2>3, <2>4, <5>1, <5>2
        <5>5. QED
          BY <2>1, <2>2, <5>3, <5>4
      <4>3. \A u \in Threads : Carving(u)' => base' <= p'[u] /\ CarvedEnd(u)' <= bump' /\ p'[u] % Granule = 0
        BY <2>1, <2>4a, <3>2 DEF Geometry
      <4>4. \A u \in Threads : pc'[u] = "stamp" => p'[u] \in Addresses
        BY <2>1 DEF Geometry
      <4>5. \A u \in Threads : pc'[u] = "stamp" /\ tag'[p'[u]] = "none" => CarvedEnd(u)' <= end'
        <5> SUFFICES ASSUME NEW u \in Threads, pc'[u] = "stamp", tag'[p'[u]] = "none"
                     PROVE  CarvedEnd(u)' <= end'
          OBVIOUS
        <5>1. u # t
          BY <2>1
        <5>2. Carving(u)' /\ pc[u] = "stamp"
          BY <5>1, <2>4a DEF Carving
        <5>3. pc[u] = "stamp" /\ tag[p[u]] = "none"
          BY <5>1, <5>2, <3>2 DEF Carving
        <5>4. QED
          BY <5>1, <5>3, <2>1, <2>4a DEF Geometry
      <4>6. \A u \in Threads, g \in Stamped' : Carving(u)' => CarvedEnd(u)' <= g \/ End(g)' <= p'[u]
        BY <2>1, <2>2, <2>3, <2>4, <2>4a, <3>1, <3>2 DEF Geometry
      <4>7. \A u, v \in Threads : Carving(u)' /\ Carving(v)' /\ u # v =>
               CarvedEnd(u)' <= p'[v] \/ CarvedEnd(v)' <= p'[u]
        BY <2>1, <2>4a, <3>2 DEF Geometry
      <4>8. QED
        BY <4>1, <4>2, <4>3, <4>4, <4>5, <4>6, <4>7 DEF Geometry
    <3>4. Covered'
      <4> SUFFICES ASSUME end # 0, bump <= end, NEW x \in base .. bump - 1
                   PROVE  \/ \E g \in Stamped' : g <= x /\ x < End(g)'
                          \/ \E u \in Threads : Carving(u)' /\ p'[u] <= x /\ x < CarvedEnd(u)'
        BY <2>1 DEF Covered
      <4>1. \/ \E g \in Stamped : g <= x /\ x < End(g)
            \/ \E u \in Threads : Carving(u) /\ p[u] <= x /\ x < CarvedEnd(u)
        BY DEF Covered
      <4>2. QED
        BY <2>1, <2>2, <2>3, <2>4, <2>4a, <3>1, <3>2, <4>1
    <3>5. QED
      BY <3>3, <3>4
  <2>6. CASE tag[p[t]] # "none"
    <3>1. p[t] \in New(t) /\ p[t] \in Stamped
      BY <2>0, <2>1, <2>6 DEF New, Stamped
    <3>2. class[p[t]] = ClassAsked(t)
      BY <3>1, NewBlock
    <3>3. Still
      BY <2>0, <2>1, <2>2, <2>6, <3>1, <3>2 DEF Still, Carving, Stamped, Geometry
    <3>4. QED
      BY <3>3, StillGeometry
  <2>7. QED
    BY <2>5, <2>6
<1>5. CASE ~Bump(t) /\ ~CheckEnd(t) /\ ~Stamp(t) /\ ~Publish(t) /\ \A a \in Arenas \cup Refusals : ~MapArena(t, a)
  BY <1>5, GeometryStill, StillGeometry
<1>6. QED
  BY <1>1, <1>2, <1>3, <1>4, <1>5

(* A header is stamped where there is memory.                              *)
LEMMA StampsInMemory ==
  ASSUME Sane, Inv, NEW m \in Nat, Ample(m), Budget(m), NEW t \in Threads, Step(t), pc'[t] = "stamp"
  PROVE  p'[t] \in Addresses
BY GeometryKept DEF Geometry

-----------------------------------------------------------------------------
(* Whose each block is                                                     *)

(* A step changes the locals of one thread only.                           *)
LEMMA OthersStay ==
  ASSUME Sane, Types, NEW t \in Threads, Calling(t) \/ Step(t), NEW u \in Threads \ {t}
  PROVE  /\ pc'[u] = pc[u] /\ job'[u] = job[u] /\ p'[u] = p[u]
         /\ blk'[u] = blk[u] /\ req'[u] = req[u] /\ ClassAsked(u)' = ClassAsked(u)
<1> USE DEF Types, Goto, locals
<1> SUFFICES /\ pc'[u] = pc[u] /\ job'[u] = job[u] /\ p'[u] = p[u]
             /\ blk'[u] = blk[u] /\ req'[u] = req[u]
  BY DEF ClassAsked
<1>1. CASE Calling(t)
  BY <1>1 DEF Calling, Call, CallMalloc, CallFree, ReallocInPlace, ReallocElsewhere
<1>2. CASE Step(t)
  <2>1. CASE ReadEnd(t) \/ Claim(t) \/ (\E a \in Arenas \cup Refusals : MapArena(t, a))
             \/ Publish(t) \/ AwaitEnd(t) \/ Refuse(t) \/ AskForList(t) \/ WaitForLock(t)
    BY <2>1 DEF ReadEnd, Claim, MapArena, Publish, AwaitEnd, Refuse, AskForList, WaitForLock
  <2>2. CASE ReadHead(t) \/ Unlink(t) \/ LeaveList(t) \/ Clear(t) \/ Bump(t) \/ CheckEnd(t) \/ Stamp(t)
    BY <2>2 DEF ReadHead, Unlink, LeaveList, Clear, Bump, CheckEnd, Stamp
  <2>3. CASE ReturnBlock(t) \/ ReturnNull(t) \/ Copy(t) \/ CheckOld(t) \/ Retire(t) \/ AskToLink(t)
             \/ LinkBlock(t) \/ LinkHead(t) \/ LeaveLinked(t)
    BY <2>3 DEF ReturnBlock, ReturnNull, Copy, CheckOld, Retire, AskToLink, LinkBlock, LinkHead, LeaveLinked, Finish
  <2>4. QED
    BY <1>2, <2>1, <2>2, <2>3 DEF Step
<1>3. QED
  BY <1>1, <1>2

(* What is being carved has no header yet.                                 *)
LEMMA UnstampedCarving ==
  ASSUME Sane, Types, Threaded, Geometry, NEW t \in Threads, Carving(t), p[t] \in Addresses
  PROVE  tag[p[t]] = "none"
<1>1. SUFFICES ASSUME p[t] \in Stamped PROVE FALSE
  BY DEF Stamped
<1>2. class[p[t]] \in Classes /\ (CarvedEnd(t) <= p[t] \/ End(p[t]) <= p[t])
  BY <1>1 DEF Geometry
<1>3. ClassAsked(t) \in Classes
  BY Asked DEF Carving, Picked, Threaded
<1>4. QED
  BY <1>2, <1>3, Rooms DEF CarvedEnd, End, Types

(* Two threads never stamp one header.                                     *)
LEMMA StampedApart ==
  ASSUME Sane, Inv, NEW t \in Threads, pc[t] = "stamp", NEW u \in Threads \ {t}, pc[u] = "stamp"
  PROVE  p[t] # p[u]
<1> SUFFICES ASSUME p[t] = p[u] PROVE FALSE
  OBVIOUS
<1> USE DEF Inv, Types, Threaded
<1>1. p[t] \in Addresses
  BY DEF Geometry
<1>2. CASE tag[p[t]] = "none"
  <2>1. CarvedEnd(t) <= p[t] \/ CarvedEnd(u) <= p[t]
    BY <1>2 DEF Geometry, Carving
  <2>2. ClassAsked(t) \in Classes /\ ClassAsked(u) \in Classes
    BY Asked DEF Picked
  <2>3. QED
    BY <2>1, <2>2, Rooms DEF CarvedEnd
<1>3. CASE tag[p[t]] # "none"
  <2>1. p[t] \in Has(t) /\ p[t] \in Has(u)
    BY <1>3 DEF Has, New
  <2>2. QED
    BY <2>1 DEF Owned
<1>4. QED
  BY <1>2, <1>3

(* A step leaves the blocks of the other threads theirs.                   *)
LEMMA OthersKeep ==
  ASSUME Sane, Inv, NEW t \in Threads, Calling(t) \/ Step(t), NEW u \in Threads \ {t}
  PROVE  /\ New(u)' = New(u) /\ Old(u)' = Old(u) /\ Has(u)' = Has(u)
<1> USE DEF Inv, Types, Threaded, Goto
<1>1. /\ pc'[u] = pc[u] /\ job'[u] = job[u] /\ p'[u] = p[u] /\ blk'[u] = blk[u]
  BY OthersStay
<1>2. Old(u)' = Old(u)
  BY <1>1 DEF Old, Parting
<1>3. pc[u] = "stamp" => (tag'[p[u]] = "none" <=> tag[p[u]] = "none")
  <2> SUFFICES ASSUME pc[u] = "stamp" PROVE tag'[p[u]] = "none" <=> tag[p[u]] = "none"
    OBVIOUS
  <2>0. p[u] \in Addresses
    BY DEF Geometry
  <2>1. CASE Stamp(t)
    <3>1. pc[t] = "stamp" /\ tag' = [tag EXCEPT ![p[t]] = "live"]
      BY <2>1 DEF Stamp
    <3>2. p[t] # p[u]
      BY <3>1, StampedApart
    <3>3. QED
      BY <2>0, <3>1, <3>2
  <2>2. CASE ~Stamp(t)
    <3>1. CASE (\E a \in Arenas \cup Refusals : MapArena(t, a)) \/ Publish(t) \/ Bump(t) \/ CheckEnd(t)
      BY <3>1 DEF MapArena, Publish, Bump, CheckEnd, memory
    <3>2. CASE ~Bump(t) /\ ~CheckEnd(t) /\ ~Publish(t) /\ \A a \in Arenas \cup Refusals : ~MapArena(t, a)
      BY <2>0, <2>2, <3>2, GeometryStill DEF Still, Stamped
    <3>3. QED
      BY <3>1, <3>2
  <2>3. QED
    BY <2>1, <2>2
<1>4. New(u)' = New(u)
  BY <1>1, <1>3 DEF New
<1>5. QED
  BY <1>2, <1>4 DEF Has

Unlisted == \A g \in Addresses : OnList(g)' <=> OnList(g)

(* A step after which everybody has what they had leaves everything where  *)
(* it was.                                                                 *)
LEMMA NothingMoves ==
  ASSUME Sane, Inv, NEW t \in Threads, Calling(t) \/ Step(t),
         New(t)' = New(t), Old(t)' = Old(t), held' = held, tag' = tag, class' = class,
         New(t) # {} => /\ req'[t] = req[t]
                        /\ (pc'[t] \in {"leave", "clear", "stamp"} <=> pc[t] \in {"leave", "clear", "stamp"}),
         Old(t) # {} => /\ req'[t] = req[t] /\ blk'[t] = blk[t]
                        /\ (job'[t] = "realloc" => job[t] = "realloc")
                        /\ (pc'[t] \in Freeing <=> pc[t] \in Freeing)
  PROVE  Owned' /\ Unlisted
<1> USE DEF Inv, Types, Threaded
<1>1. \A u \in Threads : New(u)' = New(u) /\ Old(u)' = Old(u) /\ Has(u)' = Has(u)
  BY OthersKeep DEF Has
<1>2. Unlisted
  BY <1>1 DEF Unlisted, OnList
<1>3. \A u \in Threads \ {t} : /\ pc'[u] = pc[u] /\ job'[u] = job[u] /\ blk'[u] = blk[u] /\ req'[u] = req[u]
                               /\ ClassAsked(u)' = ClassAsked(u)
  BY OthersStay
<1>4. New(t) # {} => ClassAsked(t)' = ClassAsked(t)
  BY DEF ClassAsked
<1>5. Stamped' = Stamped
  BY DEF Stamped
<1>6. Owned'
  <2>1. \A b \in held' : b - Granule \in Stamped' /\ tag'[b - Granule] = "live"
    BY <1>5 DEF Owned
  <2>2. \A u \in Threads : Has(u)' \subseteq Stamped'
    BY <1>1, <1>5 DEF Owned
  <2>3. \A u \in Threads : \A g \in New(u)' :
          /\ g \notin Old(u)' /\ class'[g] = ClassAsked(u)'
          /\ tag'[g] = IF pc'[u] \in {"leave", "clear", "stamp"} THEN "free" ELSE "live"
    <3> SUFFICES ASSUME NEW u \in Threads, NEW g \in New(u)
                 PROVE  /\ g \notin Old(u)' /\ class'[g] = ClassAsked(u)'
                        /\ tag'[g] = IF pc'[u] \in {"leave", "clear", "stamp"} THEN "free" ELSE "live"
      BY <1>1
    <3>1. /\ g \notin Old(u) /\ class[g] = ClassAsked(u)
          /\ tag[g] = IF pc[u] \in {"leave", "clear", "stamp"} THEN "free" ELSE "live"
      BY DEF Owned
    <3>2. CASE u = t
      BY <1>1, <1>4, <3>1, <3>2
    <3>3. CASE u # t
      BY <1>1, <1>3, <3>1, <3>3
    <3>4. QED
      BY <3>2, <3>3
  <2>4. \A u \in Threads : \A g \in Old(u)' :
          /\ g + Granule = blk'[u]
          /\ tag'[g] = IF pc'[u] \in Freeing THEN "free" ELSE "live"
          /\ job'[u] = "realloc" => ClassSize(class'[g]) < req'[u]
    <3> SUFFICES ASSUME NEW u \in Threads, NEW g \in Old(u)
                 PROVE  /\ g + Granule = blk'[u]
                        /\ tag'[g] = IF pc'[u] \in Freeing THEN "free" ELSE "live"
                        /\ job'[u] = "realloc" => ClassSize(class'[g]) < req'[u]
      BY <1>1
    <3>1. /\ g + Granule = blk[u]
          /\ tag[g] = IF pc[u] \in Freeing THEN "free" ELSE "live"
          /\ job[u] = "realloc" => ClassSize(class[g]) < req[u]
      BY DEF Owned
    <3>2. CASE u = t
      BY <3>1, <3>2
    <3>3. CASE u # t
      BY <1>3, <3>1, <3>3
    <3>4. QED
      BY <3>2, <3>3
  <2>5. \A u, v \in Threads : u # v => Has(u)' \cap Has(v)' = {}
    BY <1>1 DEF Owned
  <2>6. \A u \in Threads, b \in held' : b - Granule \notin Has(u)'
    BY <1>1 DEF Owned
  <2>7. \A g \in Addresses : tag'[g] = "live" => g + Granule \in held' \/ \E u \in Threads : g \in Has(u)'
    BY <1>1 DEF Owned
  <2>8. QED
    BY <2>1, <2>2, <2>3, <2>4, <2>5, <2>6, <2>7 DEF Owned
<1>7. QED
  BY <1>2, <1>6

(* A block changes hands: what t has becomes N and O, and what the program *)
(* has becomes H; every clause is checked for t and holds for the others.  *)
LEMMA HandedOver ==
  ASSUME Sane, Inv, NEW t \in Threads, Calling(t) \/ Step(t),
         \A b \in held' : b - Granule \in Stamped' /\ tag'[b - Granule] = "live" /\ b - Granule \notin Has(t)',
         Stamped \subseteq Stamped',
         Has(t)' \subseteq Stamped',
         \A g \in New(t)' : /\ g \notin Old(t)' /\ class'[g] = ClassAsked(t)'
                            /\ tag'[g] = IF pc'[t] \in {"leave", "clear", "stamp"} THEN "free" ELSE "live",
         \A g \in Old(t)' : /\ g + Granule = blk'[t]
                            /\ tag'[g] = IF pc'[t] \in Freeing THEN "free" ELSE "live"
                            /\ job'[t] = "realloc" => ClassSize(class'[g]) < req'[t],
         \A u \in Threads \ {t} : Has(t)' \cap Has(u) = {},
         \A u \in Threads \ {t}, b \in held' : b - Granule \notin Has(u),
         \A u \in Threads \ {t} : \A g \in Has(u) : tag'[g] = tag[g] /\ class'[g] = class[g],
         \A g \in Addresses : tag'[g] = "live" =>
            g + Granule \in held' \/ \E u \in Threads : g \in Has(u)'
  PROVE  Owned'
<1> USE DEF Inv, Types, Threaded
<1>1. \A u \in Threads \ {t} : New(u)' = New(u) /\ Old(u)' = Old(u) /\ Has(u)' = Has(u)
  BY OthersKeep
<1>2. \A u \in Threads \ {t} : /\ pc'[u] = pc[u] /\ job'[u] = job[u] /\ blk'[u] = blk[u] /\ req'[u] = req[u]
                               /\ ClassAsked(u)' = ClassAsked(u)
  BY OthersStay
<1>3. \A u \in Threads : Has(u)' \subseteq Stamped'
  BY <1>1 DEF Owned
<1>4. ASSUME NEW u \in Threads, NEW g \in New(u)'
      PROVE  /\ g \notin Old(u)' /\ class'[g] = ClassAsked(u)'
             /\ tag'[g] = IF pc'[u] \in {"leave", "clear", "stamp"} THEN "free" ELSE "live"
  <2>1. CASE u = t
    BY <1>4, <2>1
  <2>2. CASE u # t
    <3>1. g \in New(u) /\ g \in Has(u)
      BY <1>1, <1>4, <2>2 DEF Has
    <3>2. /\ g \notin Old(u) /\ class[g] = ClassAsked(u)
          /\ tag[g] = IF pc[u] \in {"leave", "clear", "stamp"} THEN "free" ELSE "live"
      BY <3>1 DEF Owned
    <3>3. QED
      BY <1>1, <1>2, <2>2, <3>1, <3>2
  <2>3. QED
    BY <2>1, <2>2
<1>5. ASSUME NEW u \in Threads, NEW g \in Old(u)'
      PROVE  /\ g + Granule = blk'[u]
             /\ tag'[g] = IF pc'[u] \in Freeing THEN "free" ELSE "live"
             /\ job'[u] = "realloc" => ClassSize(class'[g]) < req'[u]
  <2>1. CASE u = t
    BY <1>5, <2>1
  <2>2. CASE u # t
    <3>1. g \in Old(u) /\ g \in Has(u)
      BY <1>1, <1>5, <2>2 DEF Has
    <3>2. /\ g + Granule = blk[u]
          /\ tag[g] = IF pc[u] \in Freeing THEN "free" ELSE "live"
          /\ job[u] = "realloc" => ClassSize(class[g]) < req[u]
      BY <3>1 DEF Owned
    <3>3. QED
      BY <1>2, <2>2, <3>1, <3>2
  <2>3. QED
    BY <2>1, <2>2
<1>6. \A u, v \in Threads : u # v => Has(u)' \cap Has(v)' = {}
  BY <1>1 DEF Owned
<1>7. \A u \in Threads, b \in held' : b - Granule \notin Has(u)'
  BY <1>1
<1>8. QED
  BY <1>3, <1>4, <1>5, <1>6, <1>7 DEF Owned

(* What a thread has by its place.                                         *)
LEMMA HasByPlace ==
  ASSUME Sane, Inv, NEW t \in Threads
  PROVE  /\ p[t] = 0 \/ pc[t] \in {"check", "unlink"} => New(t) = {}
         /\ p[t] # 0 /\ pc[t] \in {"leave", "clear", "return", "free", "retire", "ask", "link", "relink", "linked"} =>
              New(t) = {p[t]}
         /\ job[t] \in {"none", "malloc"} => Old(t) = {}
         /\ pc[t] = "linked" => Old(t) = {}
         /\ job[t] = "realloc" /\ pc[t] # "linked" => Old(t) = {blk[t] - Granule}
         /\ pc[t] \in {"retire", "ask", "link", "relink"} => Old(t) = {blk[t] - Granule}
<1> USE DEF Inv, Types, Threaded
<1>1. Locals(t)
  OBVIOUS
<1>2. /\ p[t] = 0 \/ pc[t] \in {"check", "unlink"} => New(t) = {}
      /\ p[t] # 0 /\ pc[t] \in {"leave", "clear", "return", "free", "retire", "ask", "link", "relink", "linked"} =>
            New(t) = {p[t]}
  BY <1>1 DEF New, Locals
<1>3. /\ job[t] \in {"none", "malloc"} => Old(t) = {}
      /\ pc[t] = "linked" => Old(t) = {}
      /\ job[t] = "realloc" /\ pc[t] # "linked" => Old(t) = {blk[t] - Granule}
      /\ pc[t] \in {"retire", "ask", "link", "relink"} => Old(t) = {blk[t] - Granule}
  BY <1>1 DEF Old, Parting, Locals, Freeing
<1>4. QED
  BY <1>2, <1>3

(* Each block has one owner after a call begins,                           *)
LEMMA OwnedKept1 ==
  ASSUME Sane, Inv, NEW t \in Threads, Calling(t)
  PROVE  Owned' /\ Unlisted
<1> USE DEF Inv, Types, Threaded, Goto
<1>0. pc[t] = "idle" => job[t] = "none" /\ p[t] = 0 /\ New(t) = {} /\ Old(t) = {} /\ Has(t) = {}
  BY HasByPlace DEF Locals, BeforeFit, Has
<1>1. CASE \E n \in Sizes : CallMalloc(t, n)
  <2>1. /\ pc[t] = "idle" /\ pc'[t] = "enter" /\ job'[t] = "malloc" /\ p' = p
        /\ held' = held /\ tag' = tag /\ class' = class
    BY <1>1 DEF CallMalloc, Call, memory
  <2>2. New(t)' = {} /\ Old(t)' = {}
    BY <1>0, <2>1 DEF New, Old, Parting
  <2>3. QED
    BY <1>0, <2>1, <2>2, NothingMoves
<1>2. CASE \E b \in held, n \in Sizes : ReallocInPlace(t, b, n)
  <2>1. /\ pc[t] = "idle" /\ pc'[t] = "idle" /\ job'[t] = "none" /\ p' = p
        /\ held' = held /\ tag' = tag /\ class' = class
    BY <1>2 DEF ReallocInPlace, Call, memory
  <2>2. New(t)' = {} /\ Old(t)' = {}
    BY <1>0, <2>1 DEF New, Old, Parting
  <2>3. QED
    BY <1>0, <2>1, <2>2, NothingMoves
<1>3. ASSUME NEW b \in held, NEW n \in Sizes, ReallocElsewhere(t, b, n) PROVE Owned' /\ Unlisted
  <2>0. b - Granule \in Stamped /\ tag[b - Granule] = "live" /\ b \in Nat
    BY Memory DEF Owned
  <2>0a. (b - Granule) + Granule = b
    BY <2>0 DEF Granule
  <2>1. /\ pc[t] = "idle" /\ pc'[t] = "enter" /\ job'[t] = "realloc" /\ p' = p /\ blk'[t] = b /\ req'[t] = n
        /\ held' = held \ {b} /\ tag' = tag /\ class' = class /\ n > ClassSize(class[b - Granule])
    BY <1>3 DEF ReallocElsewhere, Call, memory, ClassOfBlock
  <2>2. New(t)' = {} /\ Old(t)' = {b - Granule} /\ Has(t)' = {b - Granule}
    BY <1>0, <2>1 DEF New, Old, Parting, Has
  <2>3. Stamped' = Stamped
    BY <2>1 DEF Stamped
  <2>3a. \A c \in held : c - Granule = b - Granule => c = b
    BY Memory DEF Granule
  <2>3b. \A u \in Threads \ {t} : Has(u)' = Has(u)
    BY OthersKeep, <1>3 DEF Calling
  <2>3c. ClassSize(class[b - Granule]) \in Int /\ n \in Int
    BY HeldBlock, Rooms, CallsAssumption DEF Granule
  <2>4. Owned'
    <3>1. \A c \in held' : c - Granule \in Stamped' /\ tag'[c - Granule] = "live" /\ c - Granule \notin Has(t)'
      BY <2>1, <2>2, <2>3, <2>3a DEF Owned
    <3>2. Has(t)' \subseteq Stamped'
      BY <2>0, <2>2, <2>3
    <3>3. \A g \in Old(t)' : /\ g + Granule = blk'[t]
                             /\ tag'[g] = IF pc'[t] \in Freeing THEN "free" ELSE "live"
                             /\ job'[t] = "realloc" => ClassSize(class'[g]) < req'[t]
      <4>1. pc'[t] \notin Freeing
        BY <2>1 DEF Freeing
      <4>2. QED
        BY <2>0, <2>0a, <2>1, <2>2, <2>3c, <4>1
    <3>4. \A u \in Threads \ {t} : Has(t)' \cap Has(u) = {}
      BY <2>2 DEF Owned
    <3>5. \A u \in Threads \ {t}, c \in held' : c - Granule \notin Has(u)
      BY <2>1 DEF Owned
    <3>6. \A g \in Addresses : tag'[g] = "live" => g + Granule \in held' \/ \E u \in Threads : g \in Has(u)'
      <4> SUFFICES ASSUME NEW g \in Addresses, tag[g] = "live", g # b - Granule
                   PROVE  g + Granule \in held' \/ \E u \in Threads : g \in Has(u)'
        BY <2>1, <2>2
      <4>1. g + Granule \in held \/ \E u \in Threads \ {t} : g \in Has(u)
        BY <1>0, <2>1 DEF Owned
      <4>2. g + Granule # b
        BY <2>0, Memory DEF Granule
      <4>3. QED
        BY <2>1, <2>3b, <4>1, <4>2
    <3>7. /\ Calling(t) \/ Step(t)
          /\ Stamped \subseteq Stamped'
          /\ \A g \in New(t)' : /\ g \notin Old(t)' /\ class'[g] = ClassAsked(t)'
                                /\ tag'[g] = IF pc'[t] \in {"leave", "clear", "stamp"} THEN "free" ELSE "live"
          /\ \A u \in Threads \ {t} : \A g \in Has(u) : tag'[g] = tag[g] /\ class'[g] = class[g]
      BY <1>3, <2>1, <2>2, <2>3 DEF Calling
    <3>8. QED
      <4> HIDE DEF Inv, Types, Threaded, Goto
      <4> QED BY <3>1, <3>2, <3>3, <3>4, <3>5, <3>6, <3>7, HandedOver
  <2>5. Unlisted
    BY <1>0, <2>0, <2>1, <2>2, <2>3b DEF Unlisted, OnList
  <2>6. QED
    BY <2>4, <2>5
<1>4. ASSUME NEW b \in held \cup Strays, CallFree(t, b), ~Owns(b) PROVE Owned' /\ Unlisted
  <2>1. b \notin held
    <3> SUFFICES ASSUME b \in held PROVE FALSE
      OBVIOUS
    <3>1. b \in Nat /\ tag[b - 16] = "live" /\ base <= b - 16 /\ (b - 16) + Room(class[b - 16]) <= end
          /\ class[b - 16] \in Classes /\ b % 16 = 0
      BY HeldBlock, Memory DEF Owned, Granule, End
    <3>2. class[b - 16] < HeapClasses
      BY <3>1, FewClasses DEF HeapClasses
    <3>3. QED
      BY <1>4, <3>1, <3>2, Rooms DEF Owns, Granule
  <2>2. /\ pc[t] = "idle" /\ UNCHANGED <<job, blk, tag, pc, class, p>> /\ held' = held
    BY <1>4, <2>1 DEF CallFree, memory
  <2>3. New(t)' = {} /\ Old(t)' = {}
    BY <1>0, <2>2 DEF New, Old, Parting
  <2>4. Calling(t)
    BY <1>4 DEF Calling
  <2>5. QED
    BY <1>0, <2>2, <2>3, <2>4, NothingMoves
<1>5. ASSUME NEW b \in held \cup Strays, CallFree(t, b), Owns(b) PROVE Owned' /\ Unlisted
  <2>0. b \in held /\ b - Granule \in Stamped /\ tag[b - Granule] = "live" /\ b \in Nat
        /\ b - Granule \in Addresses
    BY <1>5, OwnsHeld, Memory DEF Owned, Stamped
  <2>0a. (b - Granule) + Granule = b
    BY <2>0 DEF Granule
  <2>1. /\ pc[t] = "idle" /\ pc'[t] = "retire" /\ job'[t] = "free" /\ p' = p /\ blk'[t] = b
        /\ held' = held \ {b} /\ tag' = tag /\ class' = class
    BY <1>5 DEF CallFree, memory
  <2>2. New(t)' = {} /\ Old(t)' = {b - Granule} /\ Has(t)' = {b - Granule}
    BY <1>0, <2>1 DEF New, Old, Parting, Has
  <2>3. Stamped' = Stamped
    BY <2>0, <2>1 DEF Stamped
  <2>3a. \A c \in held : c - Granule = b - Granule => c = b
    BY <2>0, Memory DEF Granule
  <2>3b. \A u \in Threads \ {t} : Has(u)' = Has(u)
    BY OthersKeep, <1>5 DEF Calling
  <2>3d. \A u \in Threads : b - Granule \notin Has(u)
    BY <2>0 DEF Owned
  <2>4. Owned'
    <3>1. \A c \in held' : c - Granule \in Stamped' /\ tag'[c - Granule] = "live" /\ c - Granule \notin Has(t)'
      BY <2>0, <2>1, <2>2, <2>3, <2>3a DEF Owned
    <3>2. Has(t)' \subseteq Stamped'
      BY <2>0, <2>2, <2>3
    <3>3. \A g \in Old(t)' : /\ g + Granule = blk'[t]
                             /\ tag'[g] = IF pc'[t] \in Freeing THEN "free" ELSE "live"
                             /\ job'[t] = "realloc" => ClassSize(class'[g]) < req'[t]
      BY <2>0, <2>0a, <2>1, <2>2 DEF Freeing
    <3>4. \A u \in Threads \ {t} : Has(t)' \cap Has(u) = {}
      BY <2>2, <2>3d
    <3>5. \A u \in Threads \ {t}, c \in held' : c - Granule \notin Has(u)
      BY <2>1 DEF Owned
    <3>6. \A g \in Addresses : tag'[g] = "live" => g + Granule \in held' \/ \E u \in Threads : g \in Has(u)'
      <4> SUFFICES ASSUME NEW g \in Addresses, tag[g] = "live", g # b - Granule
                   PROVE  g + Granule \in held' \/ \E u \in Threads : g \in Has(u)'
        BY <2>1, <2>2
      <4>1. g + Granule \in held \/ \E u \in Threads \ {t} : g \in Has(u)
        BY <1>0, <2>1 DEF Owned
      <4>2. g + Granule # b
        BY <2>0, Memory DEF Granule
      <4>3. QED
        BY <2>1, <2>3b, <4>1, <4>2
    <3>7. \A u \in Threads \ {t} : \A g \in Has(u) : tag'[g] = tag[g] /\ class'[g] = class[g]
      BY <2>1, <2>3d DEF Owned, Stamped
    <3>8. /\ Calling(t) \/ Step(t)
          /\ Stamped \subseteq Stamped'
          /\ \A g \in New(t)' : /\ g \notin Old(t)' /\ class'[g] = ClassAsked(t)'
                                /\ tag'[g] = IF pc'[t] \in {"leave", "clear", "stamp"} THEN "free" ELSE "live"
      BY <1>5, <2>1, <2>2, <2>3 DEF Calling
    <3>9. QED
      <4> HIDE DEF Inv, Types, Threaded, Goto
      <4> QED BY <3>1, <3>2, <3>3, <3>4, <3>5, <3>6, <3>7, <3>8, HandedOver
  <2>5. Unlisted
    BY <1>0, <2>0, <2>1, <2>2, <2>3b DEF Unlisted, OnList
  <2>6. QED
    BY <2>4, <2>5
<1>6. QED
  BY <1>1, <1>2, <1>3, <1>4, <1>5 DEF Calling

(* after the steps that move no block from one owner to another,           *)
LEMMA OwnedQuiet ==
  ASSUME Sane, Inv, NEW m \in Nat, Ample(m), Budget(m), NEW t \in Threads, Step(t),
         ~Unlink(t), ~Stamp(t), ~ReturnBlock(t), ~ReturnNull(t), ~Retire(t), ~LinkHead(t), ~LeaveLinked(t)
  PROVE  Owned' /\ Unlisted
<1> USE DEF Inv, Types, Threaded, Goto
<1>0. Locals(t)
  OBVIOUS
<1>1. CASE ReadEnd(t) \/ Claim(t) \/ (\E a \in Arenas \cup Refusals : MapArena(t, a))
           \/ Publish(t) \/ AwaitEnd(t) \/ AskForList(t)
  <2>1. /\ p' = p /\ job' = job /\ blk' = blk /\ req' = req /\ held' = held /\ tag' = tag /\ class' = class
        /\ pc[t] \in {"enter", "claim", "map", "publish", "await", "fit"}
        /\ pc'[t] \in {"claim", "map", "publish", "await", "fit", "head"}
    BY <1>1 DEF ReadEnd, Claim, MapArena, Publish, AwaitEnd, AskForList, memory, locals, program
  <2>2. New(t) = {} /\ New(t)' = {}
    BY <2>1 DEF New
  <2>3. Old(t)' = Old(t)
    BY <2>1 DEF Old, Parting
  <2>4. pc[t] \notin Freeing /\ pc'[t] \notin Freeing
    BY <2>1 DEF Freeing
  <2>5. QED
    BY <2>1, <2>2, <2>3, <2>4, NothingMoves
<1>2. CASE Refuse(t)
  <2>1. /\ p'[t] = 0 /\ job' = job /\ blk' = blk /\ req' = req /\ held' = held /\ tag' = tag /\ class' = class
        /\ pc[t] = "fit" /\ pc'[t] = "return"
    BY <1>2 DEF Refuse, memory, program
  <2>2. New(t) = {} /\ New(t)' = {}
    BY <2>1 DEF New
  <2>3. Old(t)' = Old(t)
    BY <2>1 DEF Old, Parting
  <2>4. pc[t] \notin Freeing /\ pc'[t] \notin Freeing
    BY <2>1 DEF Freeing
  <2>5. QED
    BY <2>1, <2>2, <2>3, <2>4, NothingMoves
<1>3. CASE WaitForLock(t)
  <2>1. pc' = pc /\ p' = p /\ job' = job /\ blk' = blk /\ req' = req /\ held' = held /\ tag' = tag /\ class' = class
    BY <1>3 DEF WaitForLock, memory, locals, program
  <2>2. New(t)' = New(t) /\ Old(t)' = Old(t)
    BY <2>1 DEF New, Old, Parting
  <2>3. QED
    BY <2>1, <2>2, NothingMoves
<1>4. CASE ReadHead(t)
  <2>1. /\ job' = job /\ blk' = blk /\ req' = req /\ held' = held /\ tag' = tag /\ class' = class
        /\ pc[t] = "head" /\ \/ pc'[t] = "unlink"
                             \/ pc'[t] = "leave" /\ p'[t] = 0
    BY <1>4 DEF ReadHead, memory, program
  <2>2. New(t) = {} /\ New(t)' = {}
    BY <2>1 DEF New
  <2>3. Old(t)' = Old(t)
    BY <2>1 DEF Old, Parting
  <2>4. pc[t] \notin Freeing /\ pc'[t] \notin Freeing
    BY <2>1 DEF Freeing
  <2>5. QED
    BY <2>1, <2>2, <2>3, <2>4, NothingMoves
<1>5. CASE LeaveList(t)
  <2>1. /\ p' = p /\ job' = job /\ blk' = blk /\ req' = req /\ held' = held /\ tag' = tag /\ class' = class
        /\ pc[t] = "leave" /\ pc'[t] = IF p[t] # 0 THEN "clear" ELSE "bump"
    BY <1>5 DEF LeaveList, memory, locals, program
  <2>2. New(t)' = New(t)
    BY <2>1 DEF New
  <2>3. Old(t)' = Old(t)
    BY <2>1 DEF Old, Parting
  <2>4. pc[t] \notin Freeing /\ pc'[t] \notin Freeing
    BY <2>1 DEF Freeing
  <2>4a. New(t) # {} => pc'[t] = "clear"
    BY <2>1 DEF New
  <2>5. QED
    BY <2>1, <2>2, <2>3, <2>4, <2>4a, NothingMoves
<1>6. CASE Clear(t)
  <2>1. /\ p' = p /\ job' = job /\ blk' = blk /\ req' = req /\ held' = held /\ tag' = tag /\ class' = class
        /\ pc[t] = "clear" /\ pc'[t] = "stamp" /\ p[t] # 0
    BY <1>0, <1>6 DEF Clear, locals, program, Locals
  <2>1a. p[t] \in New(t)
    BY <2>1 DEF New
  <2>1b. tag[p[t]] # "none"
    BY <2>1, <2>1a DEF Owned
  <2>2. New(t)' = New(t)
    BY <2>1, <2>1b DEF New
  <2>3. Old(t)' = Old(t)
    BY <2>1 DEF Old, Parting
  <2>4. pc[t] \notin Freeing /\ pc'[t] \notin Freeing
    BY <2>1 DEF Freeing
  <2>5. QED
    BY <2>1, <2>2, <2>3, <2>4, NothingMoves
<1>7. CASE Bump(t)
  <2>1. /\ job' = job /\ blk' = blk /\ req' = req /\ held' = held /\ tag' = tag /\ class' = class
        /\ pc[t] = "bump" /\ pc'[t] = "check"
    BY <1>7 DEF Bump, memory, program
  <2>2. New(t) = {} /\ New(t)' = {}
    BY <2>1 DEF New
  <2>3. Old(t)' = Old(t)
    BY <2>1 DEF Old, Parting
  <2>4. pc[t] \notin Freeing /\ pc'[t] \notin Freeing
    BY <2>1 DEF Freeing
  <2>5. QED
    BY <2>1, <2>2, <2>3, <2>4, NothingMoves
<1>8. CASE CheckEnd(t)
  <2>1. /\ job' = job /\ blk' = blk /\ req' = req /\ held' = held /\ tag' = tag /\ class' = class
        /\ pc[t] = "check"
        /\ \/ pc'[t] = "stamp" /\ p'[t] = p[t]
           \/ pc'[t] = "return" /\ p'[t] = 0
    BY <1>8 DEF CheckEnd, memory, program
  <2>2. New(t) = {}
    BY <2>1 DEF New
  <2>2a. New(t)' = {}
    <3>1. CASE pc'[t] = "return" /\ p'[t] = 0
      BY <3>1 DEF New
    <3>2. CASE pc'[t] = "stamp" /\ p'[t] = p[t]
      <4>1. p[t] \in Addresses
        BY <1>8, <3>2, StampsInMemory
      <4>2. tag[p[t]] = "none"
        BY <2>1, <4>1, UnstampedCarving DEF Carving
      <4>3. QED
        BY <2>1, <3>2, <4>2 DEF New
    <3>3. QED
      BY <2>1, <3>1, <3>2
  <2>3. Old(t)' = Old(t)
    BY <2>1 DEF Old, Parting
  <2>4. pc[t] \notin Freeing /\ pc'[t] \notin Freeing
    BY <2>1 DEF Freeing
  <2>5. QED
    BY <2>1, <2>2, <2>2a, <2>3, <2>4, NothingMoves
<1>9. CASE Copy(t) \/ CheckOld(t)
  <2>1. /\ p' = p /\ job' = job /\ blk' = blk /\ req' = req /\ held' = held /\ tag' = tag /\ class' = class
        /\ pc[t] \in {"return", "free"} /\ pc'[t] \in {"free", "retire"} /\ job[t] = "realloc"
    BY <1>0, <1>9 DEF Copy, CheckOld, memory, locals, program, Locals
  <2>2. New(t)' = New(t)
    BY <2>1 DEF New
  <2>3. Old(t)' = Old(t)
    BY <2>1 DEF Old, Parting
  <2>4. pc[t] \notin Freeing /\ pc'[t] \notin Freeing
    BY <2>1 DEF Freeing
  <2>5. QED
    BY <2>1, <2>2, <2>3, <2>4, NothingMoves
<1>10. CASE AskToLink(t) \/ LinkBlock(t)
  <2>1. /\ p' = p /\ job' = job /\ blk' = blk /\ req' = req /\ held' = held /\ tag' = tag /\ class' = class
        /\ pc[t] \in {"ask", "link"} /\ pc'[t] \in {"link", "relink"}
    BY <1>10 DEF AskToLink, LinkBlock, memory, locals, program
  <2>2. New(t)' = New(t)
    BY <2>1 DEF New
  <2>3. Old(t)' = Old(t)
    BY <2>1 DEF Old, Parting
  <2>4. pc[t] \in Freeing /\ pc'[t] \in Freeing
    BY <2>1 DEF Freeing
  <2>5. QED
    BY <2>1, <2>2, <2>3, <2>4, NothingMoves
<1>11. QED
  BY <1>1, <1>2, <1>3, <1>4, <1>5, <1>6, <1>7, <1>8, <1>9, <1>10 DEF Step

(* after a block is taken from a list,                                     *)
LEMMA OwnedUnlink ==
  ASSUME Sane, Inv, NEW t \in Threads, Unlink(t)
  PROVE  /\ Owned'
         /\ \A g \in Addresses : OnList(g)' <=> OnList(g) /\ g # p[t]
<1> USE DEF Inv, Types, Threaded, Goto
<1>0. Locals(t) /\ Step(t)
  BY DEF Step
<1>1. /\ p' = p /\ job' = job /\ blk' = blk /\ req' = req /\ held' = held /\ tag' = tag /\ class' = class
      /\ pc[t] = "unlink" /\ pc'[t] = "leave" /\ p[t] # 0 /\ p[t] = free[ClassAsked(t)]
  BY <1>0 DEF Unlink, memory, locals, program, Locals, Heads
<1>2. ClassAsked(t) \in Classes /\ ClassAsked(t)' = ClassAsked(t)
  BY <1>1, Asked DEF Picked, ClassAsked
<1>3. OnList(p[t]) /\ p[t] \in Stamped /\ class[p[t]] = ClassAsked(t) /\ p[t] \in Addresses
  BY <1>1, <1>2, HeadBlock
<1>4. tag[p[t]] = "free" /\ \A u \in Threads : p[t] \notin Has(u)
  BY <1>3 DEF OnList
<1>5. New(t) = {} /\ New(t)' = {p[t]} /\ Old(t)' = Old(t) /\ Has(t) = Old(t) /\ Has(t)' = {p[t]} \cup Old(t)
  BY <1>1 DEF New, Old, Parting, Has
<1>6. Stamped' = Stamped
  BY <1>1 DEF Stamped
<1>7. pc[t] \notin Freeing /\ pc'[t] \notin Freeing
  BY <1>1 DEF Freeing
<1>8. \A u \in Threads \ {t} : Has(u)' = Has(u)
  BY <1>0, OthersKeep
<1>9. /\ \A b \in held' : b - Granule \in Stamped' /\ tag'[b - Granule] = "live" /\ b - Granule \notin Has(t)'
      /\ Has(t)' \subseteq Stamped'
  BY <1>1, <1>3, <1>4, <1>5, <1>6 DEF Owned
<1>10. \A g \in New(t)' : /\ g \notin Old(t)' /\ class'[g] = ClassAsked(t)'
                          /\ tag'[g] = IF pc'[t] \in {"leave", "clear", "stamp"} THEN "free" ELSE "live"
  BY <1>1, <1>2, <1>3, <1>4, <1>5 DEF Has
<1>11. \A g \in Old(t)' : /\ g + Granule = blk'[t]
                          /\ tag'[g] = IF pc'[t] \in Freeing THEN "free" ELSE "live"
                          /\ job'[t] = "realloc" => ClassSize(class'[g]) < req'[t]
  BY <1>1, <1>5, <1>7 DEF Owned
<1>12. /\ \A u \in Threads \ {t} : Has(t)' \cap Has(u) = {}
       /\ \A u \in Threads \ {t}, b \in held' : b - Granule \notin Has(u)
       /\ \A u \in Threads \ {t} : \A g \in Has(u) : tag'[g] = tag[g] /\ class'[g] = class[g]
  BY <1>1, <1>4, <1>5 DEF Owned
<1>13. \A g \in Addresses : tag'[g] = "live" => g + Granule \in held' \/ \E u \in Threads : g \in Has(u)'
  BY <1>1, <1>5, <1>8 DEF Owned
<1>14. Owned'
  <2> HIDE DEF Inv, Types, Threaded
  <2> QED BY <1>0, <1>6, <1>9, <1>10, <1>11, <1>12, <1>13, HandedOver
<1>15. \A g \in Addresses : OnList(g)' <=> OnList(g) /\ g # p[t]
  BY <1>1, <1>5, <1>8 DEF OnList
<1>16. QED
  BY <1>14, <1>15

(* after one is stamped,                                                   *)
LEMMA OwnedStamp ==
  ASSUME Sane, Inv, NEW t \in Threads, Stamp(t)
  PROVE  Owned' /\ Unlisted
<1> USE DEF Inv, Types, Threaded, Goto
<1>0. Locals(t) /\ Step(t)
  BY DEF Step
<1>1. /\ p' = p /\ job' = job /\ blk' = blk /\ req' = req /\ held' = held
      /\ tag' = [tag EXCEPT ![p[t]] = "live"] /\ class' = [class EXCEPT ![p[t]] = ClassAsked(t)]
      /\ pc[t] = "stamp" /\ pc'[t] = "return" /\ p[t] # 0
  BY <1>0 DEF Stamp, locals, program, Locals
<1>2. ClassAsked(t) \in Classes /\ ClassAsked(t)' = ClassAsked(t) /\ p[t] \in Addresses
  BY <1>1, Asked DEF Picked, ClassAsked, Geometry
<1>3. New(t)' = {p[t]} /\ Old(t)' = Old(t) /\ Has(t)' = {p[t]} \cup Old(t)
  BY <1>1 DEF New, Old, Parting, Has
<1>4. Stamped' = Stamped \cup {p[t]}
  BY <1>1, <1>2 DEF Stamped
<1>5. /\ p[t] \notin Old(t) /\ \A u \in Threads \ {t} : p[t] \notin Has(u)
      /\ \A b \in held : b - Granule # p[t]
  <2>1. CASE tag[p[t]] = "none"
    BY <2>1 DEF Owned, Has, Stamped
  <2>2. CASE tag[p[t]] # "none"
    <3>1. p[t] \in New(t)
      BY <1>1, <2>2 DEF New
    <3>2. p[t] \in Has(t) /\ p[t] \notin Old(t)
      BY <3>1 DEF Has, Owned
    <3>3. QED
      BY <3>2 DEF Owned
  <2>3. QED
    BY <2>1, <2>2
<1>7. pc[t] \notin Freeing /\ pc'[t] \notin Freeing
  BY <1>1 DEF Freeing
<1>8. \A u \in Threads \ {t} : Has(u)' = Has(u)
  BY <1>0, OthersKeep
<1>9. /\ \A b \in held' : b - Granule \in Stamped' /\ tag'[b - Granule] = "live" /\ b - Granule \notin Has(t)'
      /\ Has(t)' \subseteq Stamped'
  BY <1>1, <1>3, <1>4, <1>5 DEF Owned, Has
<1>10. \A g \in New(t)' : /\ g \notin Old(t)' /\ class'[g] = ClassAsked(t)'
                          /\ tag'[g] = IF pc'[t] \in {"leave", "clear", "stamp"} THEN "free" ELSE "live"
  BY <1>1, <1>2, <1>3, <1>5
<1>11. \A g \in Old(t)' : /\ g + Granule = blk'[t]
                          /\ tag'[g] = IF pc'[t] \in Freeing THEN "free" ELSE "live"
                          /\ job'[t] = "realloc" => ClassSize(class'[g]) < req'[t]
  BY <1>1, <1>3, <1>5, <1>7 DEF Owned
<1>12. /\ \A u \in Threads \ {t} : Has(t)' \cap Has(u) = {}
       /\ \A u \in Threads \ {t}, b \in held' : b - Granule \notin Has(u)
       /\ \A u \in Threads \ {t} : \A g \in Has(u) : tag'[g] = tag[g] /\ class'[g] = class[g]
  BY <1>1, <1>3, <1>5 DEF Owned, Has
<1>13. \A g \in Addresses : tag'[g] = "live" => g + Granule \in held' \/ \E u \in Threads : g \in Has(u)'
  <2> SUFFICES ASSUME NEW g \in Addresses, tag'[g] = "live", g # p[t]
               PROVE  g + Granule \in held' \/ \E u \in Threads : g \in Has(u)'
    BY <1>3
  <2>1. g + Granule \in held \/ \E u \in Threads : g \in Has(u)
    BY <1>1 DEF Owned
  <2>2. g \in Has(t) => g \in Has(t)'
    BY <1>3 DEF Has, New
  <2>3. QED
    BY <1>1, <1>8, <2>1, <2>2
<1>14. Owned'
  <2>1. Stamped \subseteq Stamped'
    BY <1>4
  <2> HIDE DEF Inv, Types, Threaded
  <2> QED BY <1>0, <2>1, <1>9, <1>10, <1>11, <1>12, <1>13, HandedOver
<1>15. Unlisted
  <2> SUFFICES ASSUME NEW g \in Addresses PROVE OnList(g)' <=> OnList(g)
    BY DEF Unlisted
  <2>1. CASE g = p[t]
    <3>1. ~OnList(g)'
      BY <1>1, <1>2, <2>1 DEF OnList
    <3>2. tag[p[t]] # "none" => p[t] \in Has(t)
      BY <1>1 DEF Has, New
    <3>3. ~OnList(g)
      BY <2>1, <3>2 DEF OnList
    <3>4. QED
      BY <3>1, <3>3
  <2>2. CASE g # p[t]
    <3>1. tag'[g] = tag[g]
      BY <1>1, <2>2
    <3>2. \A u \in Threads : g \in Has(u)' <=> g \in Has(u)
      BY <1>3, <1>8, <2>2 DEF Has, New
    <3>3. QED
      BY <3>1, <3>2 DEF OnList
  <2>3. QED
    BY <2>1, <2>2
<1>16. QED
  BY <1>14, <1>15

(* What t had new, it had made live, and nobody else has it.               *)
LEMMA NewIsOnes ==
  ASSUME Sane, Inv, NEW t \in Threads, p[t] # 0, pc[t] \in {"return", "free", "retire", "ask", "link", "relink", "linked"}
  PROVE  /\ New(t) = {p[t]} /\ p[t] \in Has(t) /\ p[t] \notin Old(t)
         /\ p[t] \in Stamped /\ p[t] \in Addresses /\ tag[p[t]] = "live" /\ class[p[t]] = ClassAsked(t)
         /\ \A u \in Threads \ {t} : p[t] \notin Has(u)
         /\ \A b \in held : b - Granule # p[t]
         /\ (p[t] + Granule) - Granule = p[t]
<1> USE DEF Inv
<1>1. New(t) = {p[t]} /\ p[t] \in Has(t)
  BY DEF New, Has
<1>2. /\ p[t] \notin Old(t) /\ p[t] \in Stamped /\ tag[p[t]] = "live" /\ class[p[t]] = ClassAsked(t)
      /\ \A u \in Threads \ {t} : p[t] \notin Has(u)
      /\ \A b \in held : b - Granule # p[t]
  BY <1>1 DEF Owned
<1>3. p[t] \in Addresses /\ (p[t] + Granule) - Granule = p[t]
  BY <1>2, Memory DEF Stamped, Granule
<1>4. QED
  BY <1>1, <1>2, <1>3

(* What t is giving back.                                                  *)
LEMMA OldIsOnes ==
  ASSUME Sane, Inv, NEW t \in Threads,
         \/ job[t] = "realloc" /\ pc[t] # "linked"
         \/ pc[t] \in {"retire", "ask", "link", "relink"}
  PROVE  /\ Old(t) = {blk[t] - Granule} /\ blk[t] - Granule \in Has(t)
         /\ blk[t] - Granule \in Addresses /\ blk[t] - Granule \in Stamped
         /\ (blk[t] - Granule) + Granule = blk[t]
<1> USE DEF Inv, Types, Threaded
<1>1. Old(t) = {blk[t] - Granule}
  BY HasByPlace
<1>2. blk[t] - 16 \in Addresses /\ blk[t] - 16 \in Stamped
  BY OldBlock
<1>3. (blk[t] - 16) + 16 = blk[t]
  OBVIOUS
<1>4. QED
  BY <1>1, <1>2, <1>3 DEF Has, Granule

(* after one is handed to the program,                                     *)
LEMMA OwnedReturnBlock ==
  ASSUME Sane, Inv, NEW t \in Threads,
         ReturnBlock(t) \/ (LeaveLinked(t) /\ job[t] = "realloc")
  PROVE  Owned' /\ Unlisted
<1> USE DEF Inv, Types, Threaded, Goto
<1>0. Locals(t) /\ Step(t)
  BY DEF Step
<1>1. /\ p' = [p EXCEPT ![t] = 0] /\ job'[t] = "none" /\ held' = held \cup {p[t] + Granule}
      /\ tag' = tag /\ class' = class
      /\ pc[t] \in {"return", "linked"} /\ pc'[t] = "idle" /\ p[t] # 0
      /\ pc[t] = "return" => job[t] = "malloc"
  BY <1>0 DEF ReturnBlock, LeaveLinked, Finish, Locals, Freeing
<1>2. Old(t) = {}
  BY <1>1, HasByPlace
<1>3. /\ New(t) = {p[t]} /\ p[t] \in Stamped /\ tag[p[t]] = "live" /\ p[t] \in Addresses
      /\ \A u \in Threads \ {t} : p[t] \notin Has(u)
      /\ (p[t] + Granule) - Granule = p[t]
  BY <1>1, NewIsOnes
<1>4. New(t)' = {} /\ Old(t)' = {} /\ Has(t)' = {} /\ Has(t) = {p[t]}
  BY <1>1, <1>2, <1>3 DEF New, Old, Parting, Has
<1>5. Stamped' = Stamped
  BY <1>1 DEF Stamped
<1>6. \A u \in Threads \ {t} : Has(u)' = Has(u)
  BY <1>0, OthersKeep
<1>7. \A b \in held' : b - Granule \in Stamped' /\ tag'[b - Granule] = "live" /\ b - Granule \notin Has(t)'
  BY <1>1, <1>3, <1>4, <1>5 DEF Owned
<1>8. \A u \in Threads \ {t}, b \in held' : b - Granule \notin Has(u)
  BY <1>1, <1>3 DEF Owned
<1>9. \A g \in Addresses : tag'[g] = "live" => g + Granule \in held' \/ \E u \in Threads : g \in Has(u)'
  <2> SUFFICES ASSUME NEW g \in Addresses, tag[g] = "live", g # p[t]
               PROVE  g + Granule \in held' \/ \E u \in Threads : g \in Has(u)'
    BY <1>1
  <2>1. g + Granule \in held \/ \E u \in Threads \ {t} : g \in Has(u)
    BY <1>4 DEF Owned
  <2>2. QED
    BY <1>1, <1>6, <2>1
<1>10. Owned'
  <2> HIDE DEF Inv, Types, Threaded
  <2> QED BY <1>0, <1>1, <1>4, <1>5, <1>7, <1>8, <1>9, HandedOver
<1>11. Unlisted
  BY <1>1, <1>3, <1>4, <1>6 DEF Unlisted, OnList
<1>12. QED
  BY <1>10, <1>11

(* after free has ended,                                                   *)
LEMMA OwnedLeaveFree ==
  ASSUME Sane, Inv, NEW t \in Threads, LeaveLinked(t), job[t] # "realloc"
  PROVE  Owned' /\ Unlisted
<1> USE DEF Inv, Types, Threaded, Goto
<1>0. Locals(t) /\ Step(t)
  BY DEF Step
<1>1. /\ p' = [p EXCEPT ![t] = 0] /\ job'[t] = "none" /\ held' = held /\ tag' = tag /\ class' = class
      /\ pc[t] = "linked" /\ pc'[t] = "idle" /\ p[t] = 0
  BY <1>0 DEF LeaveLinked, Finish, Locals, Freeing
<1>2. New(t) = {} /\ Old(t) = {} /\ New(t)' = {} /\ Old(t)' = {}
  BY <1>0, <1>1 DEF New, Old, Parting
<1>3. QED
  BY <1>0, <1>1, <1>2, NothingMoves

(* after a call that gave nothing,                                         *)
LEMMA OwnedReturnNull ==
  ASSUME Sane, Inv, NEW t \in Threads, ReturnNull(t)
  PROVE  Owned' /\ Unlisted
<1> USE DEF Inv, Types, Threaded, Goto
<1>0. Locals(t) /\ Step(t)
  BY DEF Step
<1>1. /\ p' = [p EXCEPT ![t] = 0] /\ job'[t] = "none" /\ tag' = tag /\ class' = class
      /\ held' = IF job[t] = "realloc" THEN held \cup {blk[t]} ELSE held
      /\ pc[t] = "return" /\ pc'[t] = "idle" /\ p[t] = 0
  BY DEF ReturnNull, Finish
<1>2. New(t) = {} /\ New(t)' = {} /\ Old(t)' = {} /\ Has(t)' = {} /\ Has(t) = Old(t)
  BY <1>1 DEF New, Old, Parting, Has
<1>3. CASE job[t] # "realloc"
  <2>1. Old(t) = {}
    BY <1>1, <1>3 DEF Old, Parting
  <2>2. QED
    BY <1>0, <1>1, <1>2, <1>3, <2>1, NothingMoves
<1>4. CASE job[t] = "realloc"
  <2> DEFINE h == blk[t] - Granule
  <2>1. Old(t) = {h} /\ h \in Addresses /\ h \in Stamped /\ h + Granule = blk[t]
    BY <1>1, <1>4, OldIsOnes
  <2> HIDE DEF h
  <2>2. /\ tag[h] = "live" /\ \A u \in Threads \ {t} : h \notin Has(u)
    BY <1>1, <1>2, <2>1 DEF Owned, Freeing
  <2>3. Stamped' = Stamped
    BY <1>1 DEF Stamped
  <2>4. \A u \in Threads \ {t} : Has(u)' = Has(u)
    BY <1>0, OthersKeep
  <2>5. blk[t] - Granule = h
    BY DEF h
  <2>6. \A b \in held' : b - Granule \in Stamped' /\ tag'[b - Granule] = "live" /\ b - Granule \notin Has(t)'
    BY <1>1, <1>2, <1>4, <2>1, <2>2, <2>3, <2>5 DEF Owned
  <2>7. \A u \in Threads \ {t}, b \in held' : b - Granule \notin Has(u)
    BY <1>1, <1>4, <2>2, <2>5 DEF Owned
  <2>8. \A g \in Addresses : tag'[g] = "live" => g + Granule \in held' \/ \E u \in Threads : g \in Has(u)'
    <3> SUFFICES ASSUME NEW g \in Addresses, tag[g] = "live", g # h
                 PROVE  g + Granule \in held' \/ \E u \in Threads : g \in Has(u)'
      BY <1>1, <1>4, <2>1
    <3>1. g + Granule \in held \/ \E u \in Threads \ {t} : g \in Has(u)
      BY <1>2, <2>1 DEF Owned
    <3>2. QED
      BY <1>1, <2>4, <3>1
  <2>9. Owned'
    <3> HIDE DEF Inv, Types, Threaded
    <3> QED BY <1>0, <1>1, <1>2, <2>3, <2>6, <2>7, <2>8, HandedOver
  <2>10. Unlisted
    BY <1>1, <1>2, <2>1, <2>2, <2>4 DEF Unlisted, OnList
  <2>11. QED
    BY <2>9, <2>10
<1>5. QED
  BY <1>3, <1>4

(* after a block is marked free                                            *)
LEMMA OwnedRetire ==
  ASSUME Sane, Inv, NEW t \in Threads, Retire(t)
  PROVE  Owned' /\ Unlisted
<1> USE DEF Inv, Types, Threaded, Goto
<1>0. Locals(t) /\ Step(t)
  BY DEF Step
<1> DEFINE h == blk[t] - Granule
<1>1. /\ p' = p /\ job' = job /\ blk' = blk /\ req' = req /\ held' = held
      /\ tag' = [tag EXCEPT ![h] = "free"] /\ class' = class
      /\ pc[t] = "retire" /\ pc'[t] = "ask"
  BY <1>0 DEF Retire, locals, program
<1>2. Old(t) = {h} /\ h \in Addresses /\ h \in Stamped /\ h + Granule = blk[t]
  BY <1>1, OldIsOnes
<1>3. \A g \in New(t) : /\ g \notin Old(t) /\ g \in Stamped /\ tag[g] = "live"
                          /\ class[g] = ClassAsked(t) /\ g \in Addresses
  BY <1>1, NewIsOnes, HasByPlace
<1>4. New(t)' = New(t) /\ Old(t)' = Old(t) /\ Has(t)' = Has(t)
  BY <1>1 DEF New, Old, Parting, Has
<1> HIDE DEF h
<1>5. /\ tag[h] = "live" /\ \A u \in Threads \ {t} : h \notin Has(u)
      /\ \A b \in held : b - Granule # h
  BY <1>1, <1>2 DEF Owned, Freeing, Has
<1>6. Stamped' = Stamped
  BY <1>1, <1>2 DEF Stamped
<1>7. \A u \in Threads \ {t} : Has(u)' = Has(u)
  BY <1>0, OthersKeep
<1>8. /\ \A b \in held' : b - Granule \in Stamped' /\ tag'[b - Granule] = "live" /\ b - Granule \notin Has(t)'
      /\ Has(t)' \subseteq Stamped'
  BY <1>1, <1>4, <1>5, <1>6 DEF Owned, Stamped
<1>9. \A g \in New(t)' : /\ g \notin Old(t)' /\ class'[g] = ClassAsked(t)'
                         /\ tag'[g] = IF pc'[t] \in {"leave", "clear", "stamp"} THEN "free" ELSE "live"
  BY <1>1, <1>2, <1>3, <1>4 DEF ClassAsked
<1>10. \A g \in Old(t)' : /\ g + Granule = blk'[t]
                          /\ tag'[g] = IF pc'[t] \in Freeing THEN "free" ELSE "live"
                          /\ job'[t] = "realloc" => ClassSize(class'[g]) < req'[t]
  BY <1>1, <1>2, <1>4 DEF Owned, Freeing
<1>11. /\ \A u \in Threads \ {t} : Has(t)' \cap Has(u) = {}
       /\ \A u \in Threads \ {t}, b \in held' : b - Granule \notin Has(u)
       /\ \A u \in Threads \ {t} : \A g \in Has(u) : tag'[g] = tag[g] /\ class'[g] = class[g]
  BY <1>1, <1>4, <1>5 DEF Owned, Stamped
<1>12. \A g \in Addresses : tag'[g] = "live" => g + Granule \in held' \/ \E u \in Threads : g \in Has(u)'
  BY <1>1, <1>2, <1>4, <1>7 DEF Owned
<1>13. Owned'
  <2> HIDE DEF Inv, Types, Threaded
  <2> QED BY <1>0, <1>6, <1>8, <1>9, <1>10, <1>11, <1>12, HandedOver
<1>14. Unlisted
  BY <1>1, <1>2, <1>4, <1>7 DEF Unlisted, OnList, Has
<1>15. QED
  BY <1>13, <1>14

(* and after one is put on a list:                                         *)
LEMMA OwnedLinkHead ==
  ASSUME Sane, Inv, NEW t \in Threads, LinkHead(t)
  PROVE  /\ Owned'
         /\ \A g \in Addresses : OnList(g)' <=> OnList(g) \/ g = blk[t] - Granule
         /\ ~OnList(blk[t] - Granule)
<1> USE DEF Inv, Types, Threaded, Goto
<1>0. Locals(t) /\ Step(t)
  BY DEF Step
<1> DEFINE h == blk[t] - Granule
<1>1. /\ p' = p /\ job' = job /\ blk' = blk /\ req' = req /\ held' = held
      /\ tag' = tag /\ class' = class
      /\ pc[t] = "relink" /\ pc'[t] = "linked"
  BY <1>0 DEF LinkHead, memory, locals, program
<1>2. Old(t) = {h} /\ h \in Addresses /\ h \in Stamped /\ h + Granule = blk[t]
  BY <1>1, OldIsOnes
<1>4. New(t)' = New(t) /\ Old(t)' = {} /\ Has(t)' = New(t) /\ Has(t) = New(t) \cup {h}
  BY <1>1, <1>2 DEF New, Old, Parting, Has
<1> HIDE DEF h
<1>5. /\ tag[h] = "free" /\ \A u \in Threads \ {t} : h \notin Has(u)
      /\ h \notin New(t) /\ \A b \in held : b - Granule # h
  BY <1>1, <1>2, <1>4 DEF Owned, Freeing, Has
<1>6. Stamped' = Stamped
  BY <1>1 DEF Stamped
<1>7. \A u \in Threads \ {t} : Has(u)' = Has(u)
  BY <1>0, OthersKeep
<1>8. /\ \A b \in held' : b - Granule \in Stamped' /\ tag'[b - Granule] = "live" /\ b - Granule \notin Has(t)'
      /\ Has(t)' \subseteq Stamped'
  BY <1>1, <1>4, <1>6 DEF Owned, Has
<1>9. \A g \in New(t)' : /\ g \notin Old(t)' /\ class'[g] = ClassAsked(t)'
                         /\ tag'[g] = IF pc'[t] \in {"leave", "clear", "stamp"} THEN "free" ELSE "live"
  BY <1>1, <1>4 DEF ClassAsked, Owned
<1>11. /\ \A u \in Threads \ {t} : Has(t)' \cap Has(u) = {}
       /\ \A u \in Threads \ {t}, b \in held' : b - Granule \notin Has(u)
       /\ \A u \in Threads \ {t} : \A g \in Has(u) : tag'[g] = tag[g] /\ class'[g] = class[g]
  BY <1>1, <1>4 DEF Owned
<1>12. \A g \in Addresses : tag'[g] = "live" => g + Granule \in held' \/ \E u \in Threads : g \in Has(u)'
  BY <1>1, <1>4, <1>5, <1>7 DEF Owned
<1>13. Owned'
  <2> HIDE DEF Inv, Types, Threaded
  <2> QED BY <1>0, <1>4, <1>6, <1>8, <1>9, <1>11, <1>12, HandedOver
<1>14. \A g \in Addresses : OnList(g)' <=> OnList(g) \/ g = h
  BY <1>1, <1>4, <1>5, <1>7 DEF OnList
<1>15. ~OnList(h)
  BY <1>4 DEF OnList
<1>16. QED
  BY <1>13, <1>14, <1>15 DEF h

(* after every step, and only two of them change what is listed.           *)
LEMMA OwnedKept ==
  ASSUME Sane, Inv, NEW m \in Nat, Ample(m), Budget(m), NEW t \in Threads, Calling(t) \/ Step(t)
  PROVE  Owned' /\ (~Unlink(t) /\ ~LinkHead(t) => Unlisted)
<1>1. CASE Calling(t)
  BY <1>1, OwnedKept1
<1>2. CASE Unlink(t) \/ LinkHead(t)
  BY <1>2, OwnedUnlink, OwnedLinkHead
<1>3. CASE Stamp(t) \/ ReturnBlock(t) \/ ReturnNull(t) \/ Retire(t) \/ LeaveLinked(t)
  BY <1>3, OwnedStamp, OwnedReturnBlock, OwnedLeaveFree, OwnedReturnNull, OwnedRetire
<1>4. CASE /\ Step(t) /\ ~Unlink(t) /\ ~Stamp(t) /\ ~ReturnBlock(t) /\ ~ReturnNull(t) /\ ~Retire(t)
           /\ ~LinkHead(t) /\ ~LeaveLinked(t)
  BY <1>4, OwnedQuiet
<1>5. QED
  BY <1>1, <1>2, <1>3, <1>4

-----------------------------------------------------------------------------
(* Words                                                                   *)

(* A thread writes in the payloads of what it has and nowhere else.        *)
LEMMA WritesItsOwn ==
  ASSUME Sane, Inv, NEW t \in Threads, Calling(t) \/ Step(t),
         NEW g \in Addresses, word'[g] # word[g]
  PROVE  \E h \in Has(t) : h + 16 <= g /\ g < End(h) /\ (LinkBlock(t) \/ h \in New(t))
<1> USE DEF Inv, Types, Threaded, Goto
<1>0. Locals(t) /\ g \in Nat
  BY Memory
<1>1. CASE Calling(t)
  BY <1>1 DEF Calling, Call, CallMalloc, CallFree, ReallocInPlace, ReallocElsewhere, memory
<1>2. CASE Step(t) /\ ~Clear(t) /\ ~ReturnBlock(t) /\ ~Copy(t) /\ ~LinkBlock(t)
           /\ ~(LeaveLinked(t) /\ job[t] = "realloc")
  <2>1. CASE ReadEnd(t) \/ Claim(t) \/ (\E a \in Arenas \cup Refusals : MapArena(t, a))
             \/ Publish(t) \/ AwaitEnd(t) \/ Refuse(t) \/ AskForList(t) \/ WaitForLock(t)
    BY <2>1 DEF ReadEnd, Claim, MapArena, Publish, AwaitEnd, Refuse, AskForList, WaitForLock, memory
  <2>2. CASE ReadHead(t) \/ Unlink(t) \/ LeaveList(t) \/ Bump(t) \/ CheckEnd(t) \/ Stamp(t)
    BY <2>2 DEF ReadHead, Unlink, LeaveList, Bump, CheckEnd, Stamp, memory
  <2>3. CASE ReturnNull(t) \/ CheckOld(t) \/ Retire(t) \/ AskToLink(t) \/ LinkHead(t)
             \/ (LeaveLinked(t) /\ job[t] # "realloc")
    BY <2>3 DEF ReturnNull, CheckOld, Retire, AskToLink, LinkHead, LeaveLinked, Finish, memory
  <2>4. QED
    BY <1>2, <2>1, <2>2, <2>3 DEF Step
<1>3. ASSUME p[t] \in New(t), p[t] + 16 <= g, g < p[t] + 16 + ClassSize(ClassAsked(t))
      PROVE  \E h \in Has(t) : h + 16 <= g /\ g < End(h) /\ h \in New(t)
  <2>1. class[p[t]] = ClassAsked(t) /\ ClassAsked(t) \in Classes
    BY <1>3, NewBlock
  <2>2. g < End(p[t])
    BY <1>0, <1>3, <2>1, Rooms DEF End
  <2>3. QED
    BY <1>3, <2>2 DEF Has
<1>4. CASE Clear(t)
  <2>1. pc[t] = "clear" /\ p[t] # 0 /\ g \in Payload(p[t] + Granule, ClassAsked(t))
    BY <1>0, <1>4 DEF Clear, Locals
  <2>2. p[t] \in New(t)
    BY <2>1 DEF New
  <2>3. QED
    BY <1>3, <2>1, <2>2 DEF Payload, Granule
<1>5. CASE ReturnBlock(t) \/ (LeaveLinked(t) /\ job[t] = "realloc")
  <2>1. /\ pc[t] \in {"return", "linked"} /\ p[t] # 0
        /\ g \in Payload(p[t] + Granule, ClassAsked(t))
    BY <1>0, <1>5 DEF ReturnBlock, LeaveLinked, Keep, Locals, Freeing
  <2>2. p[t] \in New(t)
    BY <2>1 DEF New
  <2>3. QED
    BY <1>3, <2>1, <2>2 DEF Payload, Granule
<1>6. CASE Copy(t)
  <2>1. /\ pc[t] = "return" /\ p[t] # 0 /\ job[t] = "realloc"
        /\ g - (p[t] + Granule) + blk[t] \in Payload(blk[t], ClassOfBlock(blk[t]))
    BY <1>6 DEF Copy
  <2>2. p[t] \in New(t)
    BY <2>1 DEF New
  <2>3. class[blk[t] - 16] \in Classes /\ blk[t] - 16 \in Old(t)
    BY <2>1, OldBlock
  <2>4. ClassSize(class[blk[t] - 16]) < req[t]
    BY <2>1, <2>3 DEF Owned
  <2>5. req[t] <= ClassSize(ClassAsked(t)) /\ ClassAsked(t) \in Classes
    BY <2>1, Asked
  <2>6. /\ blk[t] <= g - (p[t] + 16) + blk[t]
        /\ g - (p[t] + 16) + blk[t] < blk[t] + ClassSize(class[blk[t] - 16])
    BY <2>1 DEF Payload, ClassOfBlock, Granule
  <2>7. p[t] + 16 <= g /\ g < p[t] + 16 + ClassSize(ClassAsked(t))
    BY <1>0, <2>3, <2>4, <2>5, <2>6, Rooms
  <2>8. QED
    BY <1>3, <2>2, <2>7
<1>7. CASE LinkBlock(t)
  <2>1. pc[t] = "link" /\ g = blk[t]
    BY <1>7 DEF LinkBlock
  <2>2. blk[t] - 16 \in Has(t) /\ class[blk[t] - 16] \in Classes
    BY <2>1, OldBlock DEF Has
  <2>3. (blk[t] - 16) + 16 <= g /\ g < End(blk[t] - 16)
    BY <2>1, <2>2, Rooms DEF End
  <2>4. QED
    BY <1>7, <2>2, <2>3
<1>8. QED
  BY <1>1, <1>2, <1>4, <1>5, <1>6, <1>7

(* So what the others and the program have, what is on a list and what no  *)
(* thread has stamped yet stay as they are.                                *)
LEMMA OtherWordsStay ==
  ASSUME Sane, Inv, NEW t \in Threads, Calling(t) \/ Step(t)
  PROVE  /\ \A h \in Stamped : h \notin Has(t) =>
              \A g \in Addresses : h <= g /\ g < End(h) => word'[g] = word[g]
         /\ \A u \in Threads : Carving(u) =>
              \A g \in Addresses : p[u] <= g /\ g < CarvedEnd(u) => word'[g] = word[g]
         /\ \A g \in Addresses : bump <= g => word'[g] = word[g]
<1> USE DEF Inv, Types, Threaded
<1>1. ASSUME NEW g \in Addresses, word'[g] # word[g]
      PROVE  /\ \A h \in Stamped : h \notin Has(t) => ~(h <= g /\ g < End(h))
             /\ \A u \in Threads : Carving(u) => ~(p[u] <= g /\ g < CarvedEnd(u))
             /\ ~(bump <= g)
  <2>1. PICK k \in Has(t) : k + 16 <= g /\ g < End(k)
    BY <1>1, WritesItsOwn
  <2>2. k \in Stamped /\ class[k] \in Classes /\ End(k) <= bump /\ k \in Nat /\ g \in Nat
    BY Memory DEF Owned, Geometry, Stamped
  <2>3. End(k) \in Nat
    BY <2>2, Rooms DEF End
  <2>4. ASSUME NEW h \in Stamped, h \notin Has(t) PROVE ~(h <= g /\ g < End(h))
    <3>1. End(h) <= k \/ End(k) <= h
      BY <2>2, <2>4 DEF Geometry
    <3>2. class[h] \in Classes /\ h \in Nat /\ End(h) \in Nat
      BY Rooms, Memory DEF Geometry, Stamped, End
    <3>3. QED
      BY <2>1, <2>2, <2>3, <3>1, <3>2
  <2>5. ASSUME NEW u \in Threads, Carving(u) PROVE ~(p[u] <= g /\ g < CarvedEnd(u))
    <3>1. CarvedEnd(u) <= k \/ End(k) <= p[u]
      BY <2>2, <2>5 DEF Geometry
    <3>2. ClassAsked(u) \in Classes
      BY <2>5, Asked DEF Carving, Picked
    <3>3. p[u] \in Nat /\ CarvedEnd(u) \in Nat
      BY <3>2, Rooms DEF CarvedEnd
    <3>4. QED
      BY <2>1, <2>2, <2>3, <3>1, <3>3
  <2>6. QED
    BY <2>1, <2>2, <2>3, <2>4, <2>5
<1>2. QED
  BY <1>1

(* A class is written by Stamp alone.                                      *)
LEMMA ClassWritten ==
  ASSUME NEW t \in Threads, Calling(t) \/ Step(t), ~Stamp(t)
  PROVE  class' = class
<1>1. CASE Calling(t)
  BY <1>1 DEF Calling, Call, CallMalloc, CallFree, ReallocInPlace, ReallocElsewhere, memory
<1>2. CASE Step(t)
  <2>1. CASE ReadEnd(t) \/ Claim(t) \/ (\E a \in Arenas \cup Refusals : MapArena(t, a))
             \/ Publish(t) \/ AwaitEnd(t) \/ Refuse(t) \/ AskForList(t) \/ WaitForLock(t)
    BY <2>1 DEF ReadEnd, Claim, MapArena, Publish, AwaitEnd, Refuse, AskForList, WaitForLock, memory
  <2>2. CASE ReadHead(t) \/ Unlink(t) \/ LeaveList(t) \/ Clear(t) \/ Bump(t) \/ CheckEnd(t)
    BY <2>2 DEF ReadHead, Unlink, LeaveList, Clear, Bump, CheckEnd, memory
  <2>3. CASE ReturnBlock(t) \/ ReturnNull(t) \/ Copy(t) \/ CheckOld(t) \/ Retire(t) \/ AskToLink(t)
             \/ LinkBlock(t) \/ LinkHead(t) \/ LeaveLinked(t)
    BY <2>3 DEF ReturnBlock, ReturnNull, Copy, CheckOld, Retire, AskToLink, LinkBlock, LinkHead, LeaveLinked, Finish, memory
  <2>4. QED
    BY <1>2, <2>1, <2>2, <2>3 DEF Step
<1>3. QED
  BY <1>1, <1>2

(* And until it links it, t lets be what it is giving back.                *)
LEMMA OldWordsStay ==
  ASSUME Sane, Inv, NEW t \in Threads, Calling(t) \/ Step(t), ~LinkBlock(t), NEW h \in Old(t)
  PROVE  /\ \A g \in Addresses : h <= g /\ g < End(h) => word'[g] = word[g]
         /\ class'[h] = class[h]
<1> USE DEF Inv, Types, Threaded
<1>1. h \in Stamped /\ h \notin New(t)
  BY DEF Owned, Has
<1>2. ASSUME NEW g \in Addresses, word'[g] # word[g] PROVE ~(h <= g /\ g < End(h))
  <2>1. PICK k \in New(t) : k + 16 <= g /\ g < End(k)
    BY <1>2, WritesItsOwn
  <2>2. k \in Stamped /\ k # h
    BY <1>1 DEF Owned, Has
  <2>3. End(h) <= k \/ End(k) <= h
    BY <1>1, <2>2 DEF Geometry
  <2>4. k \in Nat /\ h \in Nat /\ g \in Nat /\ End(k) \in Nat /\ End(h) \in Nat
    BY <1>1, <2>2, Rooms, Memory DEF Geometry, Stamped, End
  <2>5. QED
    BY <2>1, <2>3, <2>4
<1>3. class'[h] = class[h]
  <2>1. CASE Stamp(t)
    <3>1. pc[t] = "stamp" /\ class' = [class EXCEPT ![p[t]] = ClassAsked(t)]
      BY <2>1 DEF Stamp
    <3>2. h # p[t]
      BY <1>1, <3>1 DEF New, Stamped
    <3>3. QED
      BY <3>1, <3>2
  <2>2. CASE ~Stamp(t)
    BY <2>2, ClassWritten
  <2>3. QED
    BY <2>1, <2>2
<1>4. QED
  BY <1>2, <1>3

(* A header that t has no hand in keeps its class.                         *)
LEMMA ClassStays ==
  ASSUME Sane, Inv, NEW t \in Threads, Calling(t) \/ Step(t), NEW g \in Stamped, g \notin Has(t)
  PROVE  class'[g] = class[g]
<1>1. CASE Stamp(t)
  <2>1. pc[t] = "stamp" /\ class' = [class EXCEPT ![p[t]] = ClassAsked(t)]
    BY <1>1 DEF Stamp
  <2>2. g # p[t]
    BY <2>1 DEF Has, New, Stamped
  <2>3. QED
    BY <2>1, <2>2
<1>2. QED
  BY <1>1, ClassWritten

(* A listed block keeps its class and its link.                            *)
LEMMA ListedStays ==
  ASSUME Sane, Inv, NEW t \in Threads, Calling(t) \/ Step(t), NEW g \in Addresses, OnList(g)
  PROVE  /\ class'[g] = class[g] /\ g + Granule \in Addresses /\ word'[g + Granule] = word[g + Granule]
<1> USE DEF Inv, Types
<1>1. g \in Stamped /\ g \notin Has(t)
  BY DEF OnList, Stamped
<1>2. class[g] \in Classes /\ g + 16 \in Addresses /\ g \in Nat
  BY <1>1, Payloads, Memory DEF Geometry
<1>3. g <= g + 16 /\ g + 16 < End(g)
  BY <1>2, Rooms DEF End
<1>4. word'[g + 16] = word[g + 16]
  BY <1>1, <1>2, <1>3, OtherWordsStay
<1>5. class'[g] = class[g]
  BY <1>1, ClassStays
<1>6. QED
  BY <1>2, <1>4, <1>5 DEF Granule

(* The heads of the lists are written by Unlink and LinkHead alone.        *)
LEMMA HeadsWritten ==
  ASSUME NEW t \in Threads, Calling(t) \/ Step(t), ~Unlink(t), ~LinkHead(t)
  PROVE  free' = free
<1>1. CASE Calling(t)
  BY <1>1 DEF Calling, Call, CallMalloc, CallFree, ReallocInPlace, ReallocElsewhere
<1>2. CASE Step(t)
  <2>1. CASE ReadEnd(t) \/ Claim(t) \/ (\E a \in Arenas \cup Refusals : MapArena(t, a))
             \/ Publish(t) \/ AwaitEnd(t) \/ Refuse(t) \/ AskForList(t) \/ WaitForLock(t)
    BY <2>1 DEF ReadEnd, Claim, MapArena, Publish, AwaitEnd, Refuse, AskForList, WaitForLock
  <2>2. CASE ReadHead(t) \/ LeaveList(t) \/ Clear(t) \/ Bump(t) \/ CheckEnd(t) \/ Stamp(t)
    BY <2>2 DEF ReadHead, LeaveList, Clear, Bump, CheckEnd, Stamp
  <2>3. CASE ReturnBlock(t) \/ ReturnNull(t) \/ Copy(t) \/ CheckOld(t) \/ Retire(t) \/ AskToLink(t)
             \/ LinkBlock(t) \/ LeaveLinked(t)
    BY <2>3 DEF ReturnBlock, ReturnNull, Copy, CheckOld, Retire, AskToLink, LinkBlock, LeaveLinked, Finish
  <2>4. QED
    BY <1>2, <2>1, <2>2, <2>3 DEF Step
<1>3. QED
  BY <1>1, <1>2

-----------------------------------------------------------------------------
(* The lists are chains                                                    *)

(* What taking the head off a list and putting one on do to the chains.    *)
LEMMA OrderedSame ==
  ASSUME NEW L, NEW head, NEW kind, NEW link, NEW kind2, NEW link2, NEW rank,
         Ordered(L, head, kind, link, rank),
         \A g \in L : kind2[g] = kind[g] /\ link2[g + Granule] = link[g + Granule]
  PROVE  Ordered(L, head, kind2, link2, rank)
BY DEF Ordered

(* The first of a chain is taken off it.                                   *)
LEMMA OrderedUnlink ==
  ASSUME NEW L \in SUBSET Addresses, NEW head \in [Classes -> Addresses \cup {0}],
         NEW kind, NEW link, NEW rank \in [Addresses -> Nat],
         Ordered(L, head, kind, link, rank), NEW c \in Classes, head[c] # 0
  PROVE  Ordered(L \ {head[c]}, [head EXCEPT ![c] = link[head[c] + Granule]], kind, link, rank)
<1> DEFINE f == head[c]
           w == link[f + Granule]
           head2 == [head EXCEPT ![c] = w]
<1>1. /\ f \in L /\ kind[f] = c /\ rank[f] \in Nat /\ rank[f] # 0
      /\ \A g \in L : kind[g] = c => rank[g] <= rank[f]
      /\ \A k \in 1 .. rank[f] : \E g \in L : kind[g] = c /\ rank[g] = k
      /\ rank[f] = 1 => w = 0
      /\ rank[f] # 1 => w \in L /\ kind[w] = c /\ rank[w] = rank[f] - 1
      /\ \A g \in L : kind[g] = c /\ rank[g] = rank[f] => g = f
  BY DEF Ordered
<1>2. \A d \in Classes : d # c => head2[d] = head[d]
  OBVIOUS
<1>3. head2[c] = w
  OBVIOUS
<1>4. \A g \in L : rank[g] \in Nat
  OBVIOUS
<1> HIDE DEF head2, w, f
<1>5. ASSUME NEW d \in Classes, head2[d] = 0 PROVE \A g \in L \ {f} : kind[g] # d
  <2>1. CASE d # c
    BY <1>2, <1>5, <2>1 DEF Ordered
  <2>2. CASE d = c
    <3>1. rank[f] = 1
      BY <1>1, <1>3, <1>5, <2>2, Memory
    <3>2. \A g \in L \ {f} : kind[g] = c => rank[g] # 0 /\ rank[g] <= 1 /\ rank[g] # 1
      BY <1>1, <3>1 DEF Ordered
    <3>3. QED
      BY <1>4, <2>2, <3>2
  <2>3. QED
    BY <2>1, <2>2
<1>6. ASSUME NEW d \in Classes, head2[d] # 0
      PROVE  /\ head2[d] \in L \ {f} /\ kind[head2[d]] = d
             /\ \A g \in L \ {f} : kind[g] = d => rank[g] <= rank[head2[d]]
             /\ \A k \in 1 .. rank[head2[d]] : \E g \in L \ {f} : kind[g] = d /\ rank[g] = k
  <2>1. CASE d # c
    <3>1. /\ head[d] \in L /\ kind[head[d]] = d
          /\ \A g \in L : kind[g] = d => rank[g] <= rank[head[d]]
          /\ \A k \in 1 .. rank[head[d]] : \E g \in L : kind[g] = d /\ rank[g] = k
      BY <1>2, <1>6, <2>1 DEF Ordered
    <3>2. QED
      BY <1>1, <1>2, <2>1, <3>1
  <2>2. CASE d = c
    <3>1. w \in L /\ kind[w] = c /\ rank[w] = rank[f] - 1
      BY <1>1, <1>3, <1>6, <2>2
    <3>2. w # f
      BY <1>1, <3>1
    <3>3. \A g \in L \ {f} : kind[g] = c => rank[g] <= rank[w]
      BY <1>1, <1>4, <3>1
    <3>4. \A k \in 1 .. rank[w] : \E g \in L \ {f} : kind[g] = c /\ rank[g] = k
      <4> SUFFICES ASSUME NEW k \in 1 .. rank[w] PROVE \E g \in L \ {f} : kind[g] = c /\ rank[g] = k
        OBVIOUS
      <4>1. k \in 1 .. rank[f] /\ k # rank[f]
        BY <1>1, <3>1
      <4>2. QED
        BY <1>1, <4>1
    <3>5. QED
      BY <1>3, <2>2, <3>1, <3>2, <3>3, <3>4
  <2>3. QED
    BY <2>1, <2>2
<1>7. ASSUME NEW g \in L \ {f}
      PROVE  /\ rank[g] # 0
             /\ rank[g] = 1 => link[g + Granule] = 0
             /\ rank[g] # 1 => LET next == link[g + Granule]
                               IN next \in L \ {f} /\ kind[next] = kind[g] /\ rank[next] = rank[g] - 1
  <2>1. /\ rank[g] # 0
        /\ rank[g] = 1 => link[g + Granule] = 0
        /\ rank[g] # 1 => LET next == link[g + Granule]
                          IN next \in L /\ kind[next] = kind[g] /\ rank[next] = rank[g] - 1
    BY DEF Ordered
  <2>2. kind[g] = c => rank[g] <= rank[f]
    BY <1>1
  <2>3. QED
    BY <1>1, <1>4, <2>1, <2>2
<1>8. \A g, h \in L \ {f} : kind[g] = kind[h] /\ rank[g] = rank[h] => g = h
  BY DEF Ordered
<1>9. Ordered(L \ {f}, head2, kind, link, rank)
  BY <1>5, <1>6, <1>7, <1>8 DEF Ordered
<1>10. QED
  BY <1>9 DEF f, head2, w

(* A block is put in front of a chain: it ranks above all of it.           *)
LEMMA OrderedLink ==
  ASSUME NEW L \in SUBSET Addresses, NEW head \in [Classes -> Addresses \cup {0}],
         NEW kind, NEW link, NEW rank \in [Addresses -> Nat],
         Ordered(L, head, kind, link, rank), NEW c \in Classes,
         NEW h \in Addresses \ L, kind[h] = c, link[h + Granule] = head[c]
  PROVE  \E rank2 \in [Addresses -> Nat] : Ordered(L \cup {h}, [head EXCEPT ![c] = h], kind, link, rank2)
<1> DEFINE r == IF head[c] = 0 THEN 1 ELSE rank[head[c]] + 1
           rank2 == [rank EXCEPT ![h] = r]
           head2 == [head EXCEPT ![c] = h]
<1>1. head[c] # 0 => head[c] \in L /\ kind[head[c]] = c /\ rank[head[c]] \in Nat /\ rank[head[c]] # 0
  BY DEF Ordered
<1>2. r \in Nat /\ r # 0
  BY <1>1
<1>3. rank2 \in [Addresses -> Nat] /\ rank2[h] = r /\ \A g \in L : rank2[g] = rank[g] /\ rank[g] \in Nat
  BY <1>2
<1>4. head2[c] = h /\ \A d \in Classes : d # c => head2[d] = head[d]
  OBVIOUS
<1>5. \A g \in L : kind[g] = c => rank[g] < r
  <2>1. CASE head[c] = 0
    BY <2>1 DEF Ordered
  <2>2. CASE head[c] # 0
    <3>1. \A g \in L : kind[g] = c => rank[g] <= rank[head[c]]
      BY <2>2 DEF Ordered
    <3>2. QED
      BY <1>1, <1>3, <2>2, <3>1
  <2>3. QED
    BY <2>1, <2>2
<1>6. h # 0
  BY Memory
<1>6a. /\ head[c] = 0 => r = 1
       /\ head[c] # 0 => r = rank[head[c]] + 1
  OBVIOUS
<1> HIDE DEF head2, rank2, r
<1>7. ASSUME NEW d \in Classes, head2[d] = 0 PROVE \A g \in L \cup {h} : kind[g] # d
  BY <1>4, <1>6, <1>7 DEF Ordered
<1>8. ASSUME NEW d \in Classes, head2[d] # 0
      PROVE  /\ head2[d] \in L \cup {h} /\ kind[head2[d]] = d
             /\ \A g \in L \cup {h} : kind[g] = d => rank2[g] <= rank2[head2[d]]
             /\ \A k \in 1 .. rank2[head2[d]] : \E g \in L \cup {h} : kind[g] = d /\ rank2[g] = k
  <2>1. CASE d # c
    <3>1. /\ head[d] \in L /\ kind[head[d]] = d
          /\ \A g \in L : kind[g] = d => rank[g] <= rank[head[d]]
          /\ \A k \in 1 .. rank[head[d]] : \E g \in L : kind[g] = d /\ rank[g] = k
      BY <1>4, <1>8, <2>1 DEF Ordered
    <3>2. QED
      BY <1>3, <1>4, <2>1, <3>1
  <2>2. CASE d = c
    <3>1. \A g \in L \cup {h} : kind[g] = c => rank2[g] <= r
      BY <1>2, <1>3, <1>5
    <3>2. ASSUME NEW k \in 1 .. r PROVE \E g \in L \cup {h} : kind[g] = c /\ rank2[g] = k
      <4>1. CASE k = r
        BY <1>3, <4>1
      <4>2. CASE k # r
        <5>1. head[c] # 0 /\ k \in 1 .. rank[head[c]]
          BY <1>1, <1>6a, <3>2, <4>2
        <5>2. PICK g \in L : kind[g] = c /\ rank[g] = k
          BY <5>1 DEF Ordered
        <5>3. QED
          BY <1>3, <5>2
      <4>3. QED
        BY <4>1, <4>2
    <3>3. QED
      BY <1>3, <1>4, <2>2, <3>1, <3>2
  <2>3. QED
    BY <2>1, <2>2
<1>9. ASSUME NEW g \in L \cup {h}
      PROVE  /\ rank2[g] # 0
             /\ rank2[g] = 1 => link[g + Granule] = 0
             /\ rank2[g] # 1 => LET next == link[g + Granule]
                                IN next \in L \cup {h} /\ kind[next] = kind[g] /\ rank2[next] = rank2[g] - 1
  <2>1. CASE g \in L
    <3>1. /\ rank[g] # 0
          /\ rank[g] = 1 => link[g + Granule] = 0
          /\ rank[g] # 1 => LET next == link[g + Granule]
                            IN next \in L /\ kind[next] = kind[g] /\ rank[next] = rank[g] - 1
      BY <2>1 DEF Ordered
    <3>2. QED
      BY <1>3, <2>1, <3>1
  <2>2. CASE g = h
    BY <1>1, <1>2, <1>3, <1>6a, <2>2
  <2>3. QED
    BY <2>1, <2>2
<1>10. ASSUME NEW g \in L \cup {h}, NEW k \in L \cup {h}, kind[g] = kind[k], rank2[g] = rank2[k]
       PROVE  g = k
  <2>1. CASE g \in L /\ k \in L
    BY <1>3, <1>10, <2>1 DEF Ordered
  <2>2. CASE ~(g \in L /\ k \in L)
    BY <1>2, <1>3, <1>5, <1>10, <2>2
  <2>3. QED
    BY <2>1, <2>2
<1>11. Ordered(L \cup {h}, head2, kind, link, rank2)
  BY <1>7, <1>8, <1>9, <1>10 DEF Ordered
<1>12. QED
  BY <1>3, <1>11 DEF head2

(* The lists stay chains.                                                  *)
LEMMA ChainedKept ==
  ASSUME Sane, Inv, NEW m \in Nat, Ample(m), Budget(m), NEW t \in Threads, Calling(t) \/ Step(t)
  PROVE  Chained'
<1>0. PICK rank \in [Addresses -> Nat] : Ordered(OnLists, free, class, word, rank)
  BY DEF Inv, Chained, Ranked
<1>1. CASE ~Unlink(t) /\ ~LinkHead(t)
  <2>1. OnLists' = OnLists
    BY <1>1, OwnedKept DEF OnLists, Unlisted
  <2>2. free' = free
    BY <1>1, HeadsWritten
  <2>3. \A g \in OnLists : class'[g] = class[g] /\ word'[g + Granule] = word[g + Granule]
    BY ListedStays DEF OnLists
  <2>4. Ordered(OnLists, free, class', word', rank)
    BY <1>0, <2>3, OrderedSame
  <2>5. QED
    BY <2>1, <2>2, <2>4 DEF Chained, Ranked
<1>2. CASE Unlink(t)
  <2>1. /\ pc[t] = "unlink" /\ p[t] # 0 /\ p[t] = free[ClassAsked(t)] /\ class' = class /\ word' = word
        /\ free' = [free EXCEPT ![ClassAsked(t)] = word[p[t] + Granule]]
    BY <1>2 DEF Unlink, memory, Inv, Threaded, Locals, Heads
  <2>2. ClassAsked(t) \in Classes
    BY <2>1, Asked DEF Inv, Threaded, Picked
  <2>3. OnLists' = OnLists \ {p[t]}
    BY <1>2, OwnedUnlink DEF OnLists
  <2>4. OnLists \in SUBSET Addresses /\ free \in [Classes -> Addresses \cup {0}]
    BY DEF OnLists, Inv, Types
  <2>5. Ordered(OnLists', free', class', word', rank)
    BY <1>0, <2>1, <2>2, <2>3, <2>4, OrderedUnlink
  <2>6. QED
    BY <2>5 DEF Chained, Ranked
<1>3. CASE LinkHead(t)
  <2> DEFINE h == blk[t] - Granule
  <2>1. /\ pc[t] = "relink" /\ word[blk[t]] = free[class[h]] /\ class' = class /\ word' = word
        /\ free' = [free EXCEPT ![class[h]] = h]
    BY <1>3 DEF LinkHead, memory, Inv, Threaded, Heads, ClassOfBlock
  <2>2. h \in Addresses /\ h + Granule = blk[t] /\ class[h] \in Classes
    BY <2>1, OldIsOnes DEF Inv, Geometry
  <2>3. OnLists' = OnLists \cup {h} /\ h \notin OnLists
    BY <1>3, <2>2, OwnedLinkHead DEF OnLists
  <2>4. OnLists \in SUBSET Addresses /\ free \in [Classes -> Addresses \cup {0}]
    BY DEF OnLists, Inv, Types
  <2> HIDE DEF h
  <2>5. \E rank2 \in [Addresses -> Nat] : Ordered(OnLists', free', class', word', rank2)
    BY <1>0, <2>1, <2>2, <2>3, <2>4, OrderedLink
  <2>6. QED
    BY <2>5 DEF Chained, Ranked
<1>4. QED
  BY <1>1, <1>2, <1>3

(* What a thread read of a list with the lock in hand stays true of it.    *)
LEMMA HeadsKept ==
  ASSUME Sane, Inv, NEW t \in Threads, Calling(t) \/ Step(t), NEW u \in Threads
  PROVE  Heads(u)'
<1> USE DEF Inv, Types, Threaded, Goto
<1>1. CASE u # t
  <2> SUFFICES ASSUME pc[u] \in {"unlink", "relink"}
               PROVE  Heads(u)'
    BY <1>1, OthersStay DEF Heads
  <2>1. at[u] = "inside"
    BY DEF LockAt
  <2>2. free' = free
    <3>1. SUFFICES ASSUME Unlink(t) \/ LinkHead(t) PROVE FALSE
      BY HeadsWritten
    <3>2. pc[t] \in {"unlink", "relink"}
      BY <3>1 DEF Unlink, LinkHead
    <3>3. at[t] = "inside"
      BY <3>2 DEF LockAt
    <3>4. QED
      BY <1>1, <2>1, <3>3, Alone
  <2>3. /\ pc'[u] = pc[u] /\ p'[u] = p[u] /\ blk'[u] = blk[u] /\ ClassAsked(u)' = ClassAsked(u)
    BY <1>1, OthersStay
  <2>4. CASE pc[u] = "unlink"
    BY <2>2, <2>3, <2>4 DEF Heads
  <2>5. CASE pc[u] = "relink"
    <3> DEFINE h == blk[u] - Granule
    <3>1. h \in Has(u) /\ h \in Stamped /\ h \in Addresses /\ h + Granule = blk[u]
      BY <2>5, OldIsOnes
    <3>2. h \notin Has(t)
      BY <1>1, <3>1 DEF Owned
    <3>3. class'[h] = class[h]
      BY <3>1, <3>2, ClassStays
    <3>4. class[h] \in Classes /\ blk[u] \in Addresses /\ h \in Nat
      BY <3>1, Payloads, Memory DEF Geometry, Granule
    <3>5. h <= blk[u] /\ blk[u] < End(h)
      BY <3>1, <3>4, Rooms DEF End, Granule
    <3>6. word'[blk[u]] = word[blk[u]]
      BY <3>1, <3>2, <3>4, <3>5, OtherWordsStay
    <3>7. ClassOfBlock(blk[u])' = ClassOfBlock(blk[u])
      BY <2>3, <3>3 DEF ClassOfBlock
    <3>8. QED
      BY <2>2, <2>3, <2>5, <3>6, <3>7 DEF Heads
  <2>6. QED
    BY <2>4, <2>5
<1>2. CASE u = t
  <2>1. CASE Calling(t)
    BY <1>2, <2>1 DEF Calling, Call, CallMalloc, CallFree, ReallocInPlace, ReallocElsewhere, Heads
  <2>2. CASE ReadEnd(t) \/ Claim(t) \/ (\E a \in Arenas \cup Refusals : MapArena(t, a))
             \/ Publish(t) \/ AwaitEnd(t) \/ Refuse(t) \/ AskForList(t)
    BY <1>2, <2>2 DEF ReadEnd, Claim, MapArena, Publish, AwaitEnd, Refuse, AskForList, Heads
  <2>3. CASE WaitForLock(t)
    BY <1>2, <2>3 DEF WaitForLock, Heads, ClassAsked, ClassOfBlock, memory, locals
  <2>4. CASE ReadHead(t)
    <3>1. /\ pc'[t] \in {"unlink", "leave"} /\ p'[t] = free[ClassAsked(t)] /\ free' = free /\ req' = req
      BY <2>4 DEF ReadHead
    <3>2. QED
      BY <1>2, <3>1 DEF Heads, ClassAsked
  <2>5. CASE Unlink(t) \/ LeaveList(t) \/ Clear(t) \/ Bump(t) \/ CheckEnd(t) \/ Stamp(t)
    BY <1>2, <2>5 DEF Unlink, LeaveList, Clear, Bump, CheckEnd, Stamp, Heads
  <2>6. CASE LinkBlock(t)
    <3>1. blk[t] - Granule \in Stamped /\ (blk[t] - Granule) + Granule = blk[t]
      BY <2>6, OldIsOnes DEF LinkBlock
    <3>2. blk[t] \in Addresses
      BY <3>1, Payloads DEF Granule
    <3>3. /\ pc'[t] = "relink" /\ free' = free /\ class' = class /\ blk' = blk
          /\ word'[blk[t]] = free[ClassOfBlock(blk[t])]
      BY <2>6, <3>2 DEF LinkBlock, locals
    <3>4. QED
      BY <1>2, <3>3 DEF Heads, ClassOfBlock
  <2>7. CASE ReturnBlock(t) \/ ReturnNull(t) \/ Copy(t) \/ CheckOld(t) \/ Retire(t) \/ AskToLink(t)
             \/ LinkHead(t) \/ LeaveLinked(t)
    BY <1>2, <2>7 DEF ReturnBlock, ReturnNull, Copy, CheckOld, Retire, AskToLink, LinkHead, LeaveLinked, Finish, Heads
  <2>8. QED
    BY <2>1, <2>2, <2>3, <2>4, <2>5, <2>6, <2>7 DEF Step
<1>3. QED
  BY <1>1, <1>2

-----------------------------------------------------------------------------
(* Contents                                                                *)

(* Where realloc copies a word to is a granule of the new block.           *)
LEMMA CopiedTo ==
  ASSUME Sane, Inv, NEW u \in Threads, job[u] = "realloc", pc[u] \in {"return", "free", "retire", "ask", "link"}, p[u] # 0,
         NEW g \in Payload(blk[u], ClassOfBlock(blk[u]))
  PROVE  /\ g - blk[u] + p[u] + Granule \in Addresses
         /\ p[u] <= g - blk[u] + p[u] + Granule /\ g - blk[u] + p[u] + Granule < End(p[u])
         /\ p[u] \in Stamped
<1> USE DEF Inv, Types, Threaded
<1>1. p[u] \in New(u) /\ p[u] \in Stamped /\ p[u] \in Addresses
  BY NewIsOnes
<1>2. class[p[u]] = ClassAsked(u) /\ ClassAsked(u) \in Classes /\ base <= p[u] /\ End(p[u]) <= end
  BY <1>1, NewBlock
<1>3. class[blk[u] - 16] \in Classes /\ blk[u] - 16 \in Old(u) /\ blk[u] - 16 \in Stamped
  BY OldBlock
<1>4. (blk[u] - 16) + 16 \in Addresses
  BY <1>3, Payloads
<1>5. ClassSize(class[blk[u] - 16]) < req[u] /\ req[u] <= ClassSize(ClassAsked(u))
  BY <1>3, Asked DEF Owned
<1>6. g \in Addresses /\ blk[u] <= g /\ g < blk[u] + ClassSize(class[blk[u] - 16])
  BY DEF Payload, ClassOfBlock, Granule
<1>7. g \in Nat /\ g % 16 = 0 /\ blk[u] % 16 = 0 /\ p[u] % 16 = 0 /\ p[u] \in Nat
  BY <1>1, <1>4, <1>6, Memory
<1>8. base \in Arenas /\ end = base + ArenaBytes
  BY <1>1, Payloads DEF Reservation
<1> DEFINE x == g - blk[u] + p[u] + 16
<1>9. p[u] <= x /\ x < End(p[u]) /\ x \in Int
  BY <1>2, <1>3, <1>5, <1>6, <1>7, Rooms DEF End
<1>10. x % 16 = 0
  BY <1>7
<1>11. base <= x /\ x < base + ArenaBytes
  <2>1. base \in Nat /\ ArenaBytes \in Nat /\ End(p[u]) \in Nat
    BY <1>2, <1>8, Memory, Rooms DEF End
  <2>2. QED
    BY <1>2, <1>7, <1>8, <1>9, <2>1
<1>12. x \in Addresses
  BY <1>8, <1>9, <1>10, <1>11, Memory
<1>13. QED
  BY <1>1, <1>9, <1>12 DEF Granule

(* The payload of a block lies in it.                                      *)
LEMMA PayloadInside ==
  ASSUME Sane, Inv, NEW h \in Stamped, NEW g \in Payload(h + Granule, class[h])
  PROVE  g \in Addresses /\ h <= g /\ g < End(h)
<1>1. class[h] \in Classes /\ h \in Nat /\ g \in Addresses /\ g \in Nat
  BY Memory DEF Inv, Geometry, Stamped, Payload
<1>2. QED
  BY <1>1, Rooms DEF Payload, End, Granule

(* What has not been bumped stays as the system mapped it.                 *)
LEMMA FreshKept ==
  ASSUME Sane, Inv, NEW m \in Nat, Ample(m), Budget(m), NEW t \in Threads, Calling(t) \/ Step(t)
  PROVE  \A g \in Addresses : bump' <= g => word'[g] = Fresh
<1> USE DEF Inv, Types, Threaded, Goto
<1>1. bump <= bump' /\ bump' \in Nat
  <2>1. CASE Bump(t)
    <3>1. bump' = bump + Room(ClassAsked(t))
      BY <2>1, BumpGoesUp
    <3>2. ClassAsked(t) \in Classes
      BY <2>1, Asked DEF Bump, Picked
    <3>3. QED
      BY <3>1, <3>2, Rooms
  <2>2. CASE \E a \in Arenas \cup Refusals : MapArena(t, a)
    <3>1. pc[t] = "map" /\ bump' \in Arenas
      BY <2>2 DEF MapArena, Sane
    <3>2. bump = 0
      BY <3>1 DEF Reservation
    <3>3. QED
      BY <3>1, <3>2, Memory
  <2>3. CASE Calling(t)
    BY <2>3 DEF Calling, Call, CallMalloc, CallFree, ReallocInPlace, ReallocElsewhere, arena
  <2>4. CASE Step(t) /\ ~Bump(t) /\ \A a \in Arenas \cup Refusals : ~MapArena(t, a)
    <3>1. CASE ReadEnd(t) \/ Claim(t) \/ Publish(t) \/ AwaitEnd(t) \/ Refuse(t) \/ AskForList(t) \/ WaitForLock(t)
      BY <3>1 DEF ReadEnd, Claim, Publish, AwaitEnd, Refuse, AskForList, WaitForLock, arena
    <3>2. CASE ReadHead(t) \/ Unlink(t) \/ LeaveList(t) \/ Clear(t) \/ CheckEnd(t) \/ Stamp(t)
      BY <3>2 DEF ReadHead, Unlink, LeaveList, Clear, CheckEnd, Stamp, arena
    <3>3. CASE ReturnBlock(t) \/ ReturnNull(t) \/ Copy(t) \/ CheckOld(t) \/ Retire(t) \/ AskToLink(t)
               \/ LinkBlock(t) \/ LinkHead(t) \/ LeaveLinked(t)
      BY <3>3 DEF ReturnBlock, ReturnNull, Copy, CheckOld, Retire, AskToLink, LinkBlock, LinkHead, LeaveLinked, Finish, arena
    <3>4. QED
      BY <2>4, <3>1, <3>2, <3>3 DEF Step
  <2>5. QED
    BY <2>1, <2>2, <2>3, <2>4
<1>2. ASSUME NEW g \in Addresses, bump' <= g PROVE word'[g] = Fresh
  <2>1. bump <= g
    BY <1>1, <1>2, Memory
  <2>2. QED
    BY <2>1, OtherWordsStay DEF Contents
<1>3. QED
  BY <1>2

(* Storage to be handed out is clear, from the arena or from a list.       *)
LEMMA ClearedKept ==
  ASSUME Sane, Inv, NEW m \in Nat, Ample(m), Budget(m), NEW t \in Threads, Calling(t) \/ Step(t),
         NEW u \in Threads, (Carving(u) \/ (pc[u] \in {"stamp", "return"} /\ p[u] # 0))',
         NEW g \in Payload(p[u] + Granule, ClassAsked(u))'
  PROVE  word'[g] = Fresh
<1> USE DEF Inv, Types, Threaded, Goto
<1>0. /\ g \in Addresses /\ p'[u] + Granule <= g /\ g < p'[u] + Granule + ClassSize(ClassAsked(u)')
      /\ \/ pc'[u] = "check"
         \/ pc'[u] = "stamp"
         \/ pc'[u] = "return" /\ p'[u] # 0
  BY DEF Payload, Carving
<1>1. CASE u # t
  <2>1. pc'[u] = pc[u] /\ p'[u] = p[u] /\ ClassAsked(u)' = ClassAsked(u)
    BY <1>1, OthersStay
  <2>2. g \in Payload(p[u] + Granule, ClassAsked(u))
    BY <1>0, <2>1 DEF Payload
  <2>3. p[u] # 0 \/ pc[u] = "check"
    BY <1>0, <2>1 DEF Locals
  <2>4. Carving(u) \/ (pc[u] \in {"stamp", "return"} /\ p[u] # 0)
    BY <1>0, <2>1, <2>3 DEF Carving
  <2>5. word[g] = Fresh
    BY <2>2, <2>4 DEF Contents
  <2>6. CASE Carving(u)
    <3>1. ClassAsked(u) \in Classes
      BY <2>6, Asked DEF Carving, Picked
    <3>2. p[u] <= g /\ g < CarvedEnd(u)
      BY <1>0, <2>1, <3>1, Rooms, Memory DEF CarvedEnd, Granule
    <3>3. QED
      BY <1>0, <2>5, <2>6, <3>2, OtherWordsStay
  <2>7. CASE ~Carving(u)
    <3>1. p[u] \in New(u)
      BY <2>4, <2>7 DEF Carving, New
    <3>2. p[u] \in Stamped /\ class[p[u]] = ClassAsked(u) /\ p[u] \notin Has(t)
      BY <1>1, <3>1 DEF Owned, Has
    <3>3. p[u] <= g /\ g < End(p[u])
      BY <2>2, <3>2, PayloadInside
    <3>4. QED
      BY <1>0, <2>5, <3>2, <3>3, OtherWordsStay
  <2>8. QED
    BY <2>6, <2>7
<1>2. CASE u = t
  <2>1. CASE Bump(t)
    <3>1. p'[t] = bump /\ word' = word /\ ClassAsked(t)' = ClassAsked(t)
      BY <2>1 DEF Bump, memory, ClassAsked
    <3>2. bump <= g
      BY <1>0, <1>2, <3>1, Memory DEF Granule
    <3>3. QED
      BY <1>0, <3>1, <3>2 DEF Contents
  <2>2. CASE CheckEnd(t)
    <3>1. pc[t] = "check" /\ p'[t] = p[t] /\ word' = word /\ ClassAsked(t)' = ClassAsked(t)
      BY <1>0, <1>2, <2>2 DEF CheckEnd, memory, ClassAsked
    <3>2. g \in Payload(p[t] + Granule, ClassAsked(t))
      BY <1>0, <1>2, <3>1 DEF Payload
    <3>3. QED
      BY <3>1, <3>2 DEF Contents, Carving
  <2>3. CASE Clear(t)
    <3>1. p'[t] = p[t] /\ ClassAsked(t)' = ClassAsked(t)
      BY <2>3 DEF Clear, locals, ClassAsked
    <3>2. g \in Payload(p[t] + Granule, ClassAsked(t))
      BY <1>0, <1>2, <3>1 DEF Payload
    <3>3. QED
      BY <1>0, <2>3, <3>2 DEF Clear
  <2>4. CASE Stamp(t)
    <3>1. pc[t] = "stamp" /\ p'[t] = p[t] /\ word' = word /\ ClassAsked(t)' = ClassAsked(t) /\ p[t] # 0
      BY <2>4 DEF Stamp, locals, ClassAsked, Locals
    <3>2. g \in Payload(p[t] + Granule, ClassAsked(t))
      BY <1>0, <1>2, <3>1 DEF Payload
    <3>3. QED
      BY <3>1, <3>2 DEF Contents
  <2>5. CASE WaitForLock(t)
    <3>1. pc' = pc /\ p' = p /\ word' = word /\ ClassAsked(t)' = ClassAsked(t)
      BY <2>5 DEF WaitForLock, memory, locals, ClassAsked
    <3>2. g \in Payload(p[t] + Granule, ClassAsked(t))
      BY <1>0, <1>2, <3>1 DEF Payload
    <3>3. pc[t] = "check" \/ (pc[t] \in {"stamp", "return"} /\ p[t] # 0)
      BY <1>0, <1>2, <3>1 DEF Locals
    <3>4. QED
      BY <3>1, <3>2, <3>3 DEF Contents, Carving
  <2>6. CASE Calling(t)
    BY <1>0, <1>2, <2>6 DEF Calling, Call, CallMalloc, CallFree, ReallocInPlace, ReallocElsewhere
  <2>7. CASE ReadEnd(t) \/ Claim(t) \/ (\E a \in Arenas \cup Refusals : MapArena(t, a))
             \/ Publish(t) \/ AwaitEnd(t) \/ Refuse(t) \/ AskForList(t)
    BY <1>0, <1>2, <2>7 DEF ReadEnd, Claim, MapArena, Publish, AwaitEnd, Refuse, AskForList
  <2>8. CASE ReadHead(t) \/ Unlink(t) \/ LeaveList(t)
    BY <1>0, <1>2, <2>8 DEF ReadHead, Unlink, LeaveList
  <2>9. CASE ReturnBlock(t) \/ ReturnNull(t) \/ Copy(t) \/ CheckOld(t) \/ Retire(t) \/ AskToLink(t)
             \/ LinkBlock(t) \/ LinkHead(t) \/ LeaveLinked(t)
    BY <1>0, <1>2, <2>9
       DEF ReturnBlock, ReturnNull, Copy, CheckOld, Retire, AskToLink, LinkBlock, LinkHead, LeaveLinked, Finish
  <2>10. QED
    BY <2>1, <2>2, <2>3, <2>4, <2>5, <2>6, <2>7, <2>8, <2>9 DEF Step
<1>3. QED
  BY <1>1, <1>2

(* What the program keeps in a block it has stays.                         *)
LEMMA TokensKept ==
  ASSUME Sane, Inv, NEW t \in Threads, Calling(t) \/ Step(t), NEW b \in held',
         NEW g \in Payload(b, ClassOfBlock(b))'
  PROVE  word'[g] = Token(b)
<1> USE DEF Inv, Types, Threaded, Goto
<1>0. g \in Addresses
  BY DEF Payload
<1>1. CASE b \in held
  <2> DEFINE h == b - Granule
  <2>1. h \in Stamped /\ h \notin Has(t) /\ h + Granule = b
    <3>1. b \in Nat
      BY <1>1, Memory
    <3>2. QED
      BY <1>1, <3>1 DEF Owned, Granule
  <2>2. class'[h] = class[h]
    BY <2>1, ClassStays
  <2>3. g \in Payload(h + Granule, class[h])
    BY <2>1, <2>2 DEF Payload, ClassOfBlock
  <2>4. h <= g /\ g < End(h)
    BY <2>1, <2>3, PayloadInside
  <2>5. word[g] = Token(b)
    BY <1>1, <2>1, <2>3 DEF Contents, ClassOfBlock
  <2>6. QED
    BY <1>0, <2>1, <2>4, <2>5, OtherWordsStay
<1>2. CASE b \notin held
  <2>1. CASE ReturnBlock(t) \/ (LeaveLinked(t) /\ job[t] = "realloc")
    <3>1. /\ b = p[t] + Granule /\ Keep(p[t] + Granule, ClassAsked(t)) /\ class' = class
          /\ pc[t] \in {"return", "linked"} /\ p[t] # 0
      BY <1>2, <2>1 DEF ReturnBlock, LeaveLinked, Finish, Locals, Freeing
    <3>2. class[p[t]] = ClassAsked(t) /\ (p[t] + Granule) - Granule = p[t]
      BY <3>1, NewIsOnes
    <3>3. g \in Payload(p[t] + Granule, ClassAsked(t))
      BY <3>1, <3>2 DEF Payload, ClassOfBlock
    <3>4. QED
      BY <1>0, <3>1, <3>3 DEF Keep
  <2>2. CASE ReturnNull(t)
    <3>1. b = blk[t] /\ job[t] = "realloc" /\ pc[t] = "return" /\ class' = class /\ word' = word
      BY <1>2, <2>2 DEF ReturnNull, Finish
    <3>2. g \in Payload(blk[t], ClassOfBlock(blk[t]))
      BY <3>1 DEF Payload, ClassOfBlock
    <3>3. QED
      BY <3>1, <3>2 DEF Contents
  <2>3. CASE Calling(t)
    BY <1>2, <2>3 DEF Calling, Call, CallMalloc, CallFree, ReallocInPlace, ReallocElsewhere
  <2>4. CASE ReadEnd(t) \/ Claim(t) \/ (\E a \in Arenas \cup Refusals : MapArena(t, a))
             \/ Publish(t) \/ AwaitEnd(t) \/ Refuse(t) \/ AskForList(t) \/ WaitForLock(t)
    BY <1>2, <2>4 DEF ReadEnd, Claim, MapArena, Publish, AwaitEnd, Refuse, AskForList, WaitForLock, program
  <2>5. CASE ReadHead(t) \/ Unlink(t) \/ LeaveList(t) \/ Clear(t) \/ Bump(t) \/ CheckEnd(t) \/ Stamp(t)
    BY <1>2, <2>5 DEF ReadHead, Unlink, LeaveList, Clear, Bump, CheckEnd, Stamp, program
  <2>6. CASE Copy(t) \/ CheckOld(t) \/ Retire(t) \/ AskToLink(t) \/ LinkBlock(t) \/ LinkHead(t)
             \/ (LeaveLinked(t) /\ job[t] # "realloc")
    BY <1>2, <2>6 DEF Copy, CheckOld, Retire, AskToLink, LinkBlock, LinkHead, LeaveLinked, program
  <2>7. QED
    BY <2>1, <2>2, <2>3, <2>4, <2>5, <2>6 DEF Step
<1>3. QED
  BY <1>1, <1>2

(* A realloc goes on, or is one from the start.                            *)
LEMMA ReallocGoesOn ==
  ASSUME Sane, Inv, NEW t \in Threads, Calling(t) \/ Step(t), job'[t] = "realloc",
         \A b \in held, n \in Sizes : ~ReallocElsewhere(t, b, n)
  PROVE  /\ job[t] = "realloc" /\ blk'[t] = blk[t] /\ req'[t] = req[t]
         /\ pc[t] \in {"relink", "linked"} => pc'[t] \in {"relink", "linked"}
         /\ LinkBlock(t) => pc'[t] = "relink"
         /\ pc'[t] \in {"free", "retire", "ask", "link"} =>
              \/ Copy(t)
              \/ pc[t] \in {"free", "retire", "ask", "link"} /\ p'[t] = p[t] /\ word' = word /\ class' = class
<1> USE DEF Inv, Types, Threaded, Goto
<1>1. CASE Calling(t)
  BY <1>1 DEF Calling, Call, CallMalloc, CallFree, ReallocInPlace, Locals
<1>2. CASE ReadEnd(t) \/ Claim(t) \/ (\E a \in Arenas \cup Refusals : MapArena(t, a))
           \/ Publish(t) \/ AwaitEnd(t) \/ Refuse(t) \/ AskForList(t) \/ WaitForLock(t)
  BY <1>2 DEF ReadEnd, Claim, MapArena, Publish, AwaitEnd, Refuse, AskForList, WaitForLock, LinkBlock, locals, memory
<1>3. CASE ReadHead(t) \/ Unlink(t) \/ LeaveList(t) \/ Clear(t) \/ Bump(t) \/ CheckEnd(t) \/ Stamp(t)
  BY <1>3 DEF ReadHead, Unlink, LeaveList, Clear, Bump, CheckEnd, Stamp, LinkBlock, locals, memory
<1>4. CASE ReturnBlock(t) \/ ReturnNull(t) \/ LeaveLinked(t)
  BY <1>4 DEF ReturnBlock, ReturnNull, LeaveLinked, Finish
<1>5. CASE Copy(t) \/ CheckOld(t) \/ Retire(t) \/ AskToLink(t) \/ LinkBlock(t) \/ LinkHead(t)
  BY <1>5 DEF Copy, CheckOld, Retire, AskToLink, LinkBlock, LinkHead, locals, memory
<1>6. QED
  BY <1>1, <1>2, <1>3, <1>4, <1>5 DEF Step

(* Until it is linked, the old block of a realloc holds what it held.      *)
LEMMA OldTokensKept ==
  ASSUME Sane, Inv, NEW t \in Threads, Calling(t) \/ Step(t),
         NEW u \in Threads, job'[u] = "realloc", pc'[u] \notin {"relink", "linked"},
         NEW g \in Payload(blk[u], ClassOfBlock(blk[u]))'
  PROVE  word'[g] = Token(blk'[u])
<1> USE DEF Inv, Types, Threaded, Goto
<1>0. g \in Addresses
  BY DEF Payload
<1>1. ASSUME NEW b \in held, NEW n \in Sizes, ReallocElsewhere(t, b, n), u = t
      PROVE  word'[g] = Token(blk'[u])
  <2>1. blk'[t] = b /\ word' = word /\ class' = class
    BY <1>1 DEF ReallocElsewhere, Call, memory
  <2>2. g \in Payload(b, ClassOfBlock(b))
    BY <1>1, <2>1 DEF Payload, ClassOfBlock
  <2>3. QED
    BY <1>1, <2>1, <2>2 DEF Contents
<1>2. CASE u # t \/ \A b \in held, n \in Sizes : ~ReallocElsewhere(t, b, n)
  <2>1. /\ job[u] = "realloc" /\ blk'[u] = blk[u] /\ pc[u] \notin {"relink", "linked"}
    BY <1>2, OthersStay, ReallocGoesOn
  <2> DEFINE h == blk[u] - Granule
  <2>2. h \in Old(u) /\ h \in Stamped /\ h + Granule = blk[u]
    BY <2>1, OldIsOnes
  <2>3. /\ class'[h] = class[h]
        /\ \A x \in Addresses : h <= x /\ x < End(h) => word'[x] = word[x]
    <3>1. CASE u # t
      <4>1. h \notin Has(t)
        BY <2>2, <3>1 DEF Owned, Has
      <4>2. QED
        BY <2>2, <4>1, ClassStays, OtherWordsStay
    <3>2. CASE u = t
      <4>1. ~LinkBlock(t)
        BY <1>2, <3>2, ReallocGoesOn
      <4>2. QED
        BY <2>2, <3>2, <4>1, OldWordsStay
    <3>3. QED
      BY <3>1, <3>2
  <2>4. g \in Payload(h + Granule, class[h])
    BY <2>1, <2>2, <2>3 DEF Payload, ClassOfBlock
  <2>5. h <= g /\ g < End(h)
    BY <2>2, <2>4, PayloadInside
  <2>6. word[g] = Token(blk[u])
    BY <2>1, <2>2, <2>4 DEF Contents, ClassOfBlock
  <2>7. QED
    BY <1>0, <2>1, <2>3, <2>5, <2>6
<1>3. QED
  BY <1>1, <1>2

(* What realloc copied stays.                                              *)
LEMMA CopyKept ==
  ASSUME Sane, Inv, NEW t \in Threads, Calling(t) \/ Step(t),
         NEW u \in Threads, job'[u] = "realloc", pc'[u] \in {"free", "retire", "ask", "link"},
         NEW g \in Payload(blk[u], ClassOfBlock(blk[u]))'
  PROVE  word'[g - blk'[u] + p'[u] + Granule] = Token(blk'[u])
<1> USE DEF Inv, Types, Threaded, Goto
<1>1. CASE u # t
  <2>1. pc'[u] = pc[u] /\ job'[u] = job[u] /\ p'[u] = p[u] /\ blk'[u] = blk[u]
    BY <1>1, OthersStay
  <2>2. blk[u] - Granule \in Stamped /\ blk[u] - Granule \notin Has(t)
    BY <1>1, <2>1, OldIsOnes DEF Owned
  <2>3. class'[blk[u] - Granule] = class[blk[u] - Granule]
    BY <2>2, ClassStays
  <2>4. g \in Payload(blk[u], ClassOfBlock(blk[u]))
    BY <2>1, <2>3 DEF Payload, ClassOfBlock
  <2>5. p[u] # 0 /\ pc[u] \in {"free", "retire", "ask", "link"} /\ job[u] = "realloc"
    BY <2>1 DEF Locals, Freeing
  <2>6. word[g - blk[u] + p[u] + Granule] = Token(blk[u])
    BY <2>4, <2>5 DEF Contents
  <2>7. /\ g - blk[u] + p[u] + Granule \in Addresses
        /\ p[u] <= g - blk[u] + p[u] + Granule /\ g - blk[u] + p[u] + Granule < End(p[u])
        /\ p[u] \in Stamped
    BY <2>4, <2>5, CopiedTo
  <2>8. p[u] \notin Has(t)
    BY <1>1, <2>5, NewIsOnes
  <2>9. QED
    BY <2>1, <2>6, <2>7, <2>8, OtherWordsStay
<1>2. CASE u = t /\ Copy(t)
  <2>1. /\ pc[t] = "return" /\ p[t] # 0 /\ job[t] = "realloc" /\ p' = p /\ blk' = blk /\ class' = class
    BY <1>2 DEF Copy, locals
  <2>2. g \in Payload(blk[t], ClassOfBlock(blk[t]))
    BY <1>2, <2>1 DEF Payload, ClassOfBlock
  <2>3. g - blk[t] + p[t] + Granule \in Addresses
    BY <2>1, <2>2, CopiedTo
  <2>4. (g - blk[t] + p[t] + Granule) - (p[t] + Granule) + blk[t] = g
    BY <2>2, Memory DEF Granule, Payload
  <2>5. word[g] = Token(blk[t])
    BY <2>1, <2>2 DEF Contents
  <2>6. QED
    BY <1>2, <2>1, <2>2, <2>3, <2>4, <2>5 DEF Copy
<1>3. CASE u = t /\ ~Copy(t)
  <2>1. \A b \in held, n \in Sizes : ~ReallocElsewhere(t, b, n)
    BY <1>3 DEF ReallocElsewhere
  <2>2. /\ job[t] = "realloc" /\ blk'[t] = blk[t] /\ pc[t] \in {"free", "retire", "ask", "link"}
        /\ p'[t] = p[t] /\ word' = word /\ class' = class
    BY <1>3, <2>1, ReallocGoesOn
  <2>3. g \in Payload(blk[t], ClassOfBlock(blk[t]))
    BY <1>3, <2>2 DEF Payload, ClassOfBlock
  <2>4. QED
    BY <1>3, <2>2, <2>3 DEF Contents
<1>4. QED
  BY <1>1, <1>2, <1>3

(* So every word is what it should be after every step.                    *)
LEMMA ContentsStay ==
  ASSUME Sane, Inv, NEW m \in Nat, Ample(m), Budget(m), NEW t \in Threads, Calling(t) \/ Step(t)
  PROVE  Contents'
BY FreshKept, ClearedKept, TokensKept, OldTokensKept, CopyKept DEF Contents

-----------------------------------------------------------------------------
(* The invariant, all of it                                                *)

(* Who may still claim the reservation: once, and none after it is made.   *)
Claimants == {t \in Threads : pc[t] = "claim" \/ (end = 0 /\ pc[t] \notin {"map", "publish", "await"})}
Claims == claimed + Cardinality(Claimants) <= Cardinality(Threads)

(* The invariant holds at first,                                           *)
LEMMA InitInv ==
  ASSUME Sane, Init, NEW m \in Nat
  PROVE  Inv /\ Budget(m) /\ Claims
<1> USE DEF Init
<1>1. LP!IInv
  BY LockBegins
<1>2. Types
  BY CallsAssumption DEF Types, Fresh
<1>3. \A t \in Threads : New(t) = {} /\ Old(t) = {} /\ Has(t) = {} /\ ~Carving(t)
  BY DEF New, Old, Parting, Has, Carving
<1>4. Stamped = {}
  BY DEF Stamped
<1>5. Reservation
  BY DEF Reservation, BeforeFit, Reserving, Granule
<1>6. Threaded
  BY <1>1, PlacesOfLock DEF Threaded, Locals, LockAt, Heads, BeforeFit, Reserving, Freeing, Picked, AtList,
        Lock!Init
<1>7. Geometry
  BY <1>3, <1>4 DEF Geometry
<1>8. Covered /\ Owned
  BY <1>3, <1>4 DEF Covered, Owned
<1>9. Chained
  <2>1. OnLists = {}
    BY DEF OnLists, OnList
  <2>2. Ranked([g \in Addresses |-> 0])
    BY <2>1 DEF Ranked, Ordered
  <2>3. [g \in Addresses |-> 0] \in [Addresses -> Nat]
    OBVIOUS
  <2>4. QED
    BY <2>2, <2>3 DEF Chained
<1>10. Contents
  BY <1>3 DEF Contents
<1>11. Budget(m)
  <2>1. Owed = {}
    BY DEF Owed, Reserving, Searching
  <2>2. Cardinality(Owed) = 0
    BY <2>1, FS_EmptySet
  <2>3. m * 0 = 0
    OBVIOUS
  <2>4. QED
    BY <2>2, <2>3 DEF Budget
<1>12. Claims
  <2>1. Claimants = Threads
    BY DEF Claimants
  <2>2. Cardinality(Threads) \in Nat
    BY ThreadsAssumption, FS_CardinalityType
  <2>3. QED
    BY <2>1, <2>2 DEF Claims
<1>13. QED
  BY <1>1, <1>2, <1>5, <1>6, <1>7, <1>8, <1>9, <1>10, <1>11, <1>12 DEF Inv

(* the arena stays claimed by one thread, from its claim on,               *)
LEMMA ClaimsKept ==
  ASSUME Sane, Inv, Claims, NEW m \in Nat, Ample(m), Budget(m), NEW t \in Threads, Calling(t) \/ Step(t)
  PROVE  Claims'
<1> USE DEF Inv, Types, Threaded, Goto
<1>1. /\ IsFiniteSet(Claimants) /\ Cardinality(Claimants) \in Nat /\ Cardinality(Threads) \in Nat
      /\ IsFiniteSet(Claimants')
  BY ThreadsAssumption, FS_Subset, FS_CardinalityType DEF Claimants
<1>2. \A u \in Threads \ {t} : pc'[u] = pc[u]
  BY OthersStay
<1>3. CASE Claim(t)
  <2>1. pc[t] = "claim" /\ pc'[t] \in {"map", "await"} /\ end' = end /\ claimed' = claimed + 1
    BY <1>3 DEF Claim
  <2>2. Claimants' = Claimants \ {t} /\ t \in Claimants
    BY <1>2, <2>1 DEF Claimants
  <2>3. Cardinality(Claimants') = Cardinality(Claimants) - 1
    BY <1>1, <2>2, FS_RemoveElement
  <2>4. QED
    BY <1>1, <2>1, <2>3 DEF Claims
<1>4. CASE ~Claim(t)
  <2>1. claimed' = claimed
    <3>1. CASE Calling(t)
      BY <3>1 DEF Calling, Call, CallMalloc, CallFree, ReallocInPlace, ReallocElsewhere, arena
    <3>2. CASE ReadEnd(t) \/ (\E a \in Arenas \cup Refusals : MapArena(t, a))
               \/ Publish(t) \/ AwaitEnd(t) \/ Refuse(t) \/ AskForList(t) \/ WaitForLock(t)
      BY <3>2 DEF ReadEnd, MapArena, Publish, AwaitEnd, Refuse, AskForList, WaitForLock, arena
    <3>3. CASE ReadHead(t) \/ Unlink(t) \/ LeaveList(t) \/ Clear(t) \/ Bump(t) \/ CheckEnd(t) \/ Stamp(t)
      BY <3>3 DEF ReadHead, Unlink, LeaveList, Clear, Bump, CheckEnd, Stamp, arena
    <3>4. CASE ReturnBlock(t) \/ ReturnNull(t) \/ Copy(t) \/ CheckOld(t) \/ Retire(t) \/ AskToLink(t)
               \/ LinkBlock(t) \/ LinkHead(t) \/ LeaveLinked(t)
      BY <3>4 DEF ReturnBlock, ReturnNull, Copy, CheckOld, Retire, AskToLink, LinkBlock, LinkHead, LeaveLinked, Finish, arena
    <3>5. QED
      BY <1>4, <3>1, <3>2, <3>3, <3>4 DEF Step
  <2>2. /\ end # 0 => end' # 0 /\ (pc'[t] = "claim" => pc[t] = "claim")
        /\ pc'[t] = "claim" => pc[t] \notin {"map", "publish", "await"}
    <3>1. CASE Calling(t)
      BY <3>1 DEF Calling, Call, CallMalloc, CallFree, ReallocInPlace, ReallocElsewhere, arena
    <3>2. CASE Publish(t)
      BY <3>2 DEF Publish, Reservation
    <3>3. CASE ReadEnd(t) \/ (\E a \in Arenas \cup Refusals : MapArena(t, a))
               \/ AwaitEnd(t) \/ Refuse(t) \/ AskForList(t) \/ WaitForLock(t)
      BY <3>3 DEF ReadEnd, MapArena, AwaitEnd, Refuse, AskForList, WaitForLock, arena
    <3>4. CASE ReadHead(t) \/ Unlink(t) \/ LeaveList(t) \/ Clear(t) \/ Bump(t) \/ CheckEnd(t) \/ Stamp(t)
      BY <3>4 DEF ReadHead, Unlink, LeaveList, Clear, Bump, CheckEnd, Stamp, arena
    <3>5. CASE ReturnBlock(t) \/ ReturnNull(t) \/ Copy(t) \/ CheckOld(t) \/ Retire(t) \/ AskToLink(t)
               \/ LinkBlock(t) \/ LinkHead(t) \/ LeaveLinked(t)
      BY <3>5 DEF ReturnBlock, ReturnNull, Copy, CheckOld, Retire, AskToLink, LinkBlock, LinkHead, LeaveLinked, Finish, arena
    <3>6. QED
      BY <1>4, <3>1, <3>2, <3>3, <3>4, <3>5 DEF Step
  <2>3. end = 0 /\ end' = 0 /\ pc[t] \in {"map", "publish", "await"} => pc'[t] \in {"map", "publish", "await"}
    <3> SUFFICES ASSUME end = 0, end' = 0, pc[t] \in {"map", "publish", "await"}
                 PROVE  pc'[t] \in {"map", "publish", "await"}
      OBVIOUS
    <3>1. Reservation'
      BY ReservationKept
    <3>2. pc'[t] # "fit"
      BY <3>1 DEF Reservation, BeforeFit, Reserving
    <3>3. CASE Calling(t)
      BY <3>3 DEF Calling, Call, CallMalloc, CallFree, ReallocInPlace, ReallocElsewhere
    <3>4. CASE Step(t)
      <4>1. CASE ReadEnd(t) \/ (\E a \in Arenas \cup Refusals : MapArena(t, a))
                 \/ Publish(t) \/ AwaitEnd(t) \/ Refuse(t) \/ AskForList(t) \/ WaitForLock(t)
        BY <3>2, <4>1 DEF ReadEnd, MapArena, Publish, AwaitEnd, Refuse, AskForList, WaitForLock
      <4>2. CASE ReadHead(t) \/ Unlink(t) \/ LeaveList(t) \/ Clear(t) \/ Bump(t) \/ CheckEnd(t) \/ Stamp(t)
        BY <4>2 DEF ReadHead, Unlink, LeaveList, Clear, Bump, CheckEnd, Stamp
      <4>3. CASE ReturnBlock(t) \/ ReturnNull(t) \/ Copy(t) \/ CheckOld(t) \/ Retire(t) \/ AskToLink(t)
                 \/ LinkBlock(t) \/ LinkHead(t) \/ LeaveLinked(t)
        BY <4>3 DEF ReturnBlock, ReturnNull, Copy, CheckOld, Retire, AskToLink, LinkBlock, LinkHead, LeaveLinked
      <4>4. QED
        BY <1>4, <3>4, <4>1, <4>2, <4>3 DEF Step
    <3>5. QED
      BY <3>3, <3>4
  <2>4. Claimants' \subseteq Claimants
    BY <1>2, <2>2, <2>3 DEF Claimants
  <2>5. Cardinality(Claimants') <= Cardinality(Claimants) /\ Cardinality(Claimants') \in Nat
    BY <1>1, <2>4, FS_Subset, FS_CardinalityType
  <2>6. QED
    BY <1>1, <2>1, <2>5 DEF Claims
<1>5. QED
  BY <1>3, <1>4

(* a stutter changes nothing                                               *)
LEMMA Unmoved ==
  ASSUME Inv, Claims, NEW m \in Nat, Budget(m), UNCHANGED vars
  PROVE  (Inv /\ Budget(m) /\ Claims)'
<1>0. UNCHANGED <<bump, end, claimed, base, free, tag, class, word, ticket, serving, mine, at,
                  pc, job, req, p, blk, held, calls>>
  BY DEF vars, arena, memory, lock, locals, program
<1>1. LP!IInv'
  BY <1>0 DEF Inv, LP!IInv, LP!TypeOK, LP!Window, LP!Ticketed, LP!Ahead
<1>2. Types' /\ Reservation'
  BY <1>0 DEF Inv, Types, Reservation
<1>3. Threaded'
  BY <1>0 DEF Inv, Threaded, Locals, LockAt, Heads, ClassAsked, ClassOfBlock
<1>4. /\ Stamped' = Stamped
      /\ \A t \in Threads : /\ New(t)' = New(t) /\ Old(t)' = Old(t) /\ Has(t)' = Has(t)
                            /\ Carving(t)' = Carving(t) /\ CarvedEnd(t)' = CarvedEnd(t)
                            /\ ClassAsked(t)' = ClassAsked(t)
      /\ \A g \in Addresses : End(g)' = End(g)
  BY <1>0 DEF Stamped, New, Old, Has, Parting, Carving, CarvedEnd, ClassAsked, End
<1>5. Geometry' /\ Covered'
  <2>1. Still
    <3>1. \A u \in Threads : pc[u] = "stamp" => p[u] \in Addresses
      BY DEF Inv, Geometry
    <3>2. QED
      BY <1>0, <1>4, <3>1 DEF Still
  <2>2. QED
    BY <2>1, StillGeometry DEF Inv
<1>6. Owned'
  BY <1>0, <1>4 DEF Inv, Owned
<1>7. Chained'
  <2>1. OnLists' = OnLists
    BY <1>0, <1>4 DEF OnLists, OnList
  <2>2. QED
    BY <1>0, <2>1 DEF Inv, Chained, Ranked
<1>8. Contents'
  BY <1>0, <1>4 DEF Inv, Contents, Payload, ClassOfBlock
<1>9. Budget(m)'
  BY <1>0 DEF Budget, Owed
<1>10. Claims'
  BY <1>0 DEF Claims, Claimants
<1>11. QED
  BY <1>1, <1>2, <1>3, <1>5, <1>6, <1>7, <1>8, <1>9, <1>10 DEF Inv

(* and each step keeps all of it,                                          *)
LEMMA NextInv ==
  ASSUME Sane, NEW m \in Nat, Ample(m), Inv, Budget(m), Claims, [Next]_vars
  PROVE  (Inv /\ Budget(m) /\ Claims)'
<1>1. ASSUME NEW t \in Threads, Calling(t) \/ Step(t) PROVE (Inv /\ Budget(m) /\ Claims)'
  <2>1. LP!IInv'
    BY <1>1, LockKept DEF Inv, Next
  <2>2. Types'
    BY <1>1, TypesKept
  <2>3. Reservation'
    BY <1>1, ReservationKept
  <2>4. Threaded'
    <3>1. ASSUME NEW u \in Threads PROVE Locals(u)' /\ LockAt(u)' /\ Heads(u)'
      BY <1>1, LocalsKept, LockAtKept, HeadsKept
    <3>2. QED
      BY <3>1 DEF Threaded
  <2>5. Geometry' /\ Covered'
    BY <1>1, GeometryKept
  <2>6. Owned'
    BY <1>1, OwnedKept
  <2>7. Chained'
    BY <1>1, ChainedKept
  <2>8. Contents'
    BY <1>1, ContentsStay
  <2>9. Budget(m)' /\ Claims'
    BY <1>1, BudgetKept, ClaimsKept
  <2>10. QED
    BY <2>1, <2>2, <2>3, <2>4, <2>5, <2>6, <2>7, <2>8, <2>9 DEF Inv
<1>2. CASE UNCHANGED vars
  BY <1>2, Unmoved
<1>3. QED
  BY <1>1, <1>2 DEF Next

(* How far the program's calls can take the bump is short of the end of    *)
(* memory: the code adds without looking, and looks after.                 *)
BumpStays == \E m \in Nat : Ample(m)
(* so it always holds.                                                     *)
LEMMA HeapInv ==
  ASSUME Sane, NEW m \in Nat, Ample(m)
  PROVE  Spec => [](Inv /\ Budget(m) /\ Claims)
<1>1. Init => Inv /\ Budget(m) /\ Claims
  BY InitInv
<1>2. Inv /\ Budget(m) /\ Claims /\ [Next]_vars => (Inv /\ Budget(m) /\ Claims)'
  BY NextInv
<1>3. QED
  BY <1>1, <1>2, PTL DEF Spec

-----------------------------------------------------------------------------
(* Walking a list                                                          *)

(* There are finitely many addresses, which bounds a walk down a list.     *)
LEMMA FewAddresses == IsFiniteSet(Addresses) /\ Cardinality(Addresses) \in Nat
<1>1. Addresses \subseteq 0 .. AddressSpace
  BY Memory DEF Addresses, Mapped
<1>2. IsFiniteSet(0 .. AddressSpace)
  BY Memory, FS_Interval
<1>3. QED
  BY <1>1, <1>2, FS_Subset, FS_CardinalityType

(* What Links works out, for n links from a head on                        *)
Follows(f, n, head, link) ==
    f = [i \in 0 .. n |-> IF i = 0 THEN head ELSE IF f[i - 1] = 0 THEN 0 ELSE link[f[i - 1] + Granule]]
Chain(n, head, link) == CHOOSE f : Follows(f, n, head, link)

(* A list followed for n links has its recursive definition's value.       *)
LEMMA Following ==
  ASSUME NEW N \in Nat, NEW head, NEW link
  PROVE  Follows(Chain(N, head, link), N, head, link)
<1> DEFINE h(x) == IF x = 0 THEN 0 ELSE link[x + Granule]
           E == {n \in Nat : \E f : f = [i \in 0 .. n |-> IF i = 0 THEN head ELSE h(f[i - 1])]}
<1> HIDE DEF h
<1>1. 0 \in E
  <2> DEFINE f == [i \in 0 .. 0 |-> head]
  <2>1. f = [i \in 0 .. 0 |-> IF i = 0 THEN head ELSE h(f[i - 1])]
    OBVIOUS
  <2>2. QED
    BY <2>1
<1>2. ASSUME NEW n \in Nat, n \in E PROVE n + 1 \in E
  <2>1. PICK f : f = [i \in 0 .. n |-> IF i = 0 THEN head ELSE h(f[i - 1])]
    BY <1>2
  <2> DEFINE k == [i \in 0 .. (n + 1) |-> IF i <= n THEN f[i] ELSE h(f[n])]
  <2>2. k = [i \in 0 .. (n + 1) |-> IF i = 0 THEN head ELSE h(k[i - 1])]
    BY <2>1
  <2> HIDE DEF k
  <2>3. \E q : q = [i \in 0 .. (n + 1) |-> IF i = 0 THEN head ELSE h(q[i - 1])]
    BY <2>2
  <2>4. QED
    BY <2>3
<1> HIDE DEF E
<1>3. N \in E
  BY <1>1, <1>2, SetInduction
<1>4. \E f : Follows(f, N, head, link)
  BY <1>3 DEF E, h, Follows
<1>5. QED
  BY <1>4, Zenon DEF Chain

(* Links walks a list link by link.                                        *)
LEMMA LinkByLink ==
  ASSUME NEW c
  PROVE  /\ DOMAIN Links(c) = 0 .. Cardinality(Addresses)
         /\ Links(c)[0] = free[c]
         /\ \A i \in 1 .. Cardinality(Addresses) :
              Links(c)[i] = IF Links(c)[i - 1] = 0 THEN 0 ELSE word[Links(c)[i - 1] + Granule]
<1> DEFINE N == Cardinality(Addresses)
<1>1. N \in Nat
  BY FewAddresses
<1>2. Links(c) = Chain(N, free[c], word)
  BY DEF Links, Chain, Follows
<1> HIDE DEF N
<1>3. Follows(Links(c), N, free[c], word)
  BY <1>1, <1>2, Following
<1>4. QED
  BY <1>1, <1>3 DEF Follows, N

(* A list has no more blocks than there are addresses.                     *)
LEMMA RankBound ==
  ASSUME Types, NEW rank \in [Addresses -> Nat], Ranked(rank), NEW c \in Classes, free[c] # 0
  PROVE  rank[free[c]] <= Cardinality(Addresses)
<1> DEFINE r == rank[free[c]]
           f == [k \in 1 .. r |-> CHOOSE g \in Addresses : rank[g] = k]
<1>1. free[c] \in Addresses /\ r \in Nat
  BY DEF Ranked, Ordered, OnLists, OnList
<1>2. \A k \in 1 .. r : \E g \in Addresses : rank[g] = k
  BY DEF Ranked, Ordered, OnLists
<1>3. \A k \in 1 .. r : f[k] \in Addresses /\ rank[f[k]] = k
  BY <1>2
<1>4. f \in [1 .. r -> Addresses]
  BY <1>3
<1>5. SUFFICES ASSUME Cardinality(Addresses) < r PROVE FALSE
  BY <1>1, FewAddresses
<1> HIDE DEF f, r
<1>6. IsFiniteSet(1 .. r) /\ Cardinality(1 .. r) = r
  <2>1. ~(1 > r)
    BY <1>1, <1>5, FewAddresses
  <2>2. IsFiniteSet(1 .. r) /\ Cardinality(1 .. r) = r - 1 + 1
    BY <1>1, <2>1, FS_Interval
  <2>3. QED
    BY <1>1, <2>2
<1>7. \E x, y \in 1 .. r : x # y /\ f[x] = f[y]
  BY <1>4, <1>5, <1>6, FewAddresses, FS_PigeonHole
<1>8. QED
  BY <1>3, <1>7

(* Following a list finds the blocks of the class that are on lists, every *)
(* one of them, and its end.                                               *)
LEMMA ListedAre ==
  ASSUME Sane, Inv, NEW c \in Classes
  PROVE  /\ Links(c)[Cardinality(Addresses)] = 0
         /\ Listed(c) = {g \in OnLists : class[g] = c}
<1> DEFINE N == Cardinality(Addresses)
           L == Links(c)
<1>1. PICK rank \in [Addresses -> Nat] : Ranked(rank)
  BY DEF Inv, Chained
<1> DEFINE r == IF free[c] = 0 THEN 0 ELSE rank[free[c]]
           S == {i \in Nat : i <= N => IF i < r THEN L[i] \in OnLists /\ class[L[i]] = c /\ rank[L[i]] = r - i
                                       ELSE L[i] = 0}
<1>2. N \in Nat
  BY FewAddresses
<1>3. /\ DOMAIN L = 0 .. N /\ L[0] = free[c]
      /\ \A i \in 1 .. N : L[i] = IF L[i - 1] = 0 THEN 0 ELSE word[L[i - 1] + Granule]
  BY LinkByLink
<1>4. r \in Nat /\ r <= N /\ (free[c] # 0 => free[c] \in OnLists /\ class[free[c]] = c /\ rank[free[c]] # 0)
  <2>1. CASE free[c] = 0
    BY <1>2, <2>1
  <2>2. CASE free[c] # 0
    <3>1. free[c] \in OnLists /\ class[free[c]] = c /\ rank[free[c]] # 0
      BY <1>1, <2>2 DEF Ranked, Ordered
    <3>2. rank[free[c]] \in Nat
      BY <1>1, <3>1 DEF OnLists
    <3>3. rank[free[c]] <= N
      BY <1>1, <2>2, RankBound DEF Inv
    <3>4. QED
      BY <2>2, <3>1, <3>2, <3>3
  <2>3. QED
    BY <2>1, <2>2
<1>5. /\ free[c] = 0 => r = 0
      /\ free[c] # 0 => r = rank[free[c]]
  OBVIOUS
<1>6. \A g \in OnLists : g \in Addresses /\ g # 0 /\ rank[g] \in Nat
  BY <1>1, Memory DEF OnLists
<1>7. \A g \in OnLists :
        /\ rank[g] # 0
        /\ rank[g] = 1 => word[g + Granule] = 0
        /\ rank[g] # 1 => /\ word[g + Granule] \in OnLists /\ class[word[g + Granule]] = class[g]
                          /\ rank[word[g + Granule]] = rank[g] - 1
  BY <1>1 DEF Ranked, Ordered
<1>8. \A g \in OnLists : class[g] = c => free[c] # 0 /\ rank[g] <= r
  BY <1>1, <1>5 DEF Ranked, Ordered
<1>9. \A g, h \in OnLists : class[g] = class[h] /\ rank[g] = rank[h] => g = h
  BY <1>1 DEF Ranked, Ordered
<1> HIDE DEF N, L, r
<1>10. 0 \in S
  <2>1. CASE free[c] = 0
    BY <1>2, <1>3, <1>4, <1>5, <2>1
  <2>2. CASE free[c] # 0
    BY <1>2, <1>3, <1>4, <1>5, <1>6, <2>2
  <2>3. QED
    BY <2>1, <2>2
<1>11. ASSUME NEW i \in Nat, i \in S PROVE i + 1 \in S
  <2> SUFFICES ASSUME i + 1 <= N
               PROVE  IF i + 1 < r THEN L[i + 1] \in OnLists /\ class[L[i + 1]] = c /\ rank[L[i + 1]] = r - (i + 1)
                      ELSE L[i + 1] = 0
    OBVIOUS
  <2>1. IF i < r THEN L[i] \in OnLists /\ class[L[i]] = c /\ rank[L[i]] = r - i
        ELSE L[i] = 0
    BY <1>2, <1>11
  <2>2. L[i + 1] = IF L[i] = 0 THEN 0 ELSE word[L[i] + Granule]
    <3>1. i + 1 \in 1 .. N /\ (i + 1) - 1 = i
      BY <1>2
    <3>2. QED
      BY <1>3, <3>1
  <2>3. CASE i < r
    <3>1. L[i] \in OnLists /\ class[L[i]] = c /\ rank[L[i]] = r - i /\ L[i] # 0
      BY <1>6, <2>1, <2>3
    <3>2. L[i + 1] = word[L[i] + Granule]
      BY <2>2, <3>1
    <3>3. CASE i + 1 < r
      <4>1. rank[L[i]] # 1
        BY <1>4, <3>1, <3>3
      <4>2. QED
        BY <1>4, <1>7, <3>1, <3>2, <3>3, <4>1
    <3>4. CASE ~(i + 1 < r)
      <4>1. rank[L[i]] = 1
        BY <1>4, <2>3, <3>1, <3>4
      <4>2. QED
        BY <1>7, <3>1, <3>2, <3>4, <4>1
    <3>5. QED
      BY <3>3, <3>4
  <2>4. CASE ~(i < r)
    <3>1. ~(i + 1 < r) /\ L[i] = 0
      BY <1>4, <2>1, <2>4
    <3>2. QED
      BY <2>2, <3>1
  <2>5. QED
    BY <2>3, <2>4
<1> HIDE DEF S
<1>12. Nat \subseteq S
  BY <1>10, <1>11, SetInduction
<1>13. \A i \in 0 .. N : IF i < r THEN L[i] \in OnLists /\ class[L[i]] = c /\ rank[L[i]] = r - i
                         ELSE L[i] = 0
  BY <1>2, <1>12 DEF S
<1>14. L[N] = 0
  BY <1>2, <1>4, <1>13
<1>15. ASSUME NEW i \in 0 .. N, L[i] # 0 PROVE L[i] \in OnLists /\ class[L[i]] = c
  BY <1>13, <1>15
<1>16. ASSUME NEW g \in OnLists, class[g] = c PROVE \E i \in 0 .. N : L[i] = g
  <2>1. rank[g] \in Nat /\ rank[g] # 0 /\ rank[g] <= r
    BY <1>6, <1>7, <1>8, <1>16
  <2>2. r - rank[g] \in 0 .. N /\ r - rank[g] < r /\ r - (r - rank[g]) = rank[g]
    BY <1>2, <1>4, <2>1
  <2>3. L[r - rank[g]] \in OnLists /\ class[L[r - rank[g]]] = c /\ rank[L[r - rank[g]]] = rank[g]
    BY <1>13, <2>2
  <2>4. L[r - rank[g]] = g
    BY <1>9, <1>16, <2>3
  <2>5. QED
    BY <2>2, <2>4
<1>17. {L[i] : i \in 0 .. N} \ {0} = {g \in OnLists : class[g] = c}
  BY <1>6, <1>15, <1>16
<1>18. QED
  BY <1>3, <1>14, <1>17 DEF Listed, L, N

-----------------------------------------------------------------------------
(* What the runs check                                                     *)

(* The inductive invariant, the bump being short of the end of memory.     *)
Kept == Inv /\ Claims /\ (end # 0 => bump < AddressSpace)

(* The inductive invariant holds of malloc, free and realloc, called by    *)
(* any threads at once.                                                    *)
THEOREM InvariantHolds == ASSUME Sane, BumpStays PROVE Spec => []Kept
<1>1. PICK m \in Nat : Ample(m)
  BY DEF BumpStays
<1>2. Spec => [](Inv /\ Budget(m) /\ Claims)
  BY <1>1, HeapInv
<1>3. Inv /\ Budget(m) /\ Claims => Kept
  BY <1>1, BumpBelow DEF Inv, Kept
<1>4. QED
  BY <1>2, <1>3, PTL

(* The statics, the headers and each thread's call have their types.       *)
THEOREM TypesHold == ASSUME Sane, BumpStays PROVE Spec => []TypeOK
<1>1. ASSUME Kept PROVE TypeOK
  <2> USE <1>1 DEF Kept, Inv, Types
  <2>1. claimed \in 0 .. Cardinality(Threads)
    <3>1. Cardinality(Claimants) \in Nat /\ Cardinality(Threads) \in Nat
      BY ThreadsAssumption, FS_Subset, FS_CardinalityType DEF Claimants
    <3>2. QED
      BY <3>1 DEF Claims
  <2>2. bump < AddressSpace /\ end < AddressSpace /\ base < AddressSpace
    <3>1. CASE end # 0
      BY <3>1, Memory DEF Reservation
    <3>2. CASE end = 0 /\ \E t \in Threads : pc[t] = "publish"
      BY <3>2, Memory DEF Reservation
    <3>3. CASE end = 0 /\ \A t \in Threads : pc[t] # "publish"
      BY <3>3, Memory DEF Reservation
    <3>4. QED
      BY <3>1, <3>2, <3>3
  <2>3. QED
    BY <2>1, <2>2, Memory DEF TypeOK
<1>2. QED
  BY <1>1, InvariantHolds, PTL

(* Every list holds only blocks of its class that were given back, and     *)
(* following it comes to its end.                                          *)
THEOREM ListsSoundHolds == ASSUME Sane, BumpStays PROVE Spec => []ListsSound
<1>1. ASSUME Kept, NEW c \in Classes
      PROVE  /\ Links(c)[Cardinality(Addresses)] = 0
             /\ \A a \in Listed(c) : tag[a] = "free" /\ class[a] = c
  BY <1>1, ListedAre DEF Kept, OnLists, OnList
<1>2. Kept => ListsSound
  BY <1>1 DEF ListsSound
<1>3. QED
  BY <1>2, InvariantHolds, PTL

(* A piece is a stamped block, or one a thread has taken of the arena and  *)
(* that fits, and whose it is follows from where it is.                    *)
LEMMA PieceFits ==
  ASSUME Sane, Kept, NEW t \in Threads, pc[t] = "check"
  PROVE  /\ Reaches(t) = CarvedEnd(t) /\ CarvedEnd(t) \in Nat
         /\ end # 0
<1> USE DEF Kept, Inv, Types, Threaded
<1>1. end # 0
  BY DEF Reservation, BeforeFit, Reserving
<1>2. Carving(t) /\ CarvedEnd(t) <= bump /\ ClassAsked(t) \in Classes
  BY Asked DEF Carving, Picked, Geometry
<1>3. CarvedEnd(t) \in Nat /\ p[t] + SizeAsked(t) + Granule = CarvedEnd(t)
  BY <1>2, Rooms DEF CarvedEnd, SizeAsked, Room, Granule
<1>4. CarvedEnd(t) < AddressSpace
  BY <1>1, <1>2, <1>3, Memory
<1>5. CarvedEnd(t) % AddressSpace = CarvedEnd(t)
  BY <1>3, <1>4, WithinMemory
<1>6. QED
  BY <1>1, <1>3, <1>5 DEF Reaches

Stays(x) == x.from \in Stamped /\ x.size = Room(class[x.from])
Carved(x, t) == Carving(t) /\ CarvedEnd(t) <= end /\ x = Piece(p[t], SizeAsked(t), t)
Whose(a, w) ==
  \/ \E b \in held : a = b - Granule /\ w = "program"
  \/ OnList(a) /\ w = "list"
  \/ \E t \in Threads : a \in Has(t) /\ w = t

(* The block a thread is making.                                           *)
LEMMA MakingIs ==
  ASSUME Sane, Kept, NEW t \in Threads, NEW a \in Making(t)
  PROVE  a = p[t] /\ (a \in New(t) \/ (Carving(t) /\ CarvedEnd(t) <= end))
<1>1. a = p[t]
  BY DEF Making
<1>2. CASE pc[t] = "check"
  BY <1>1, <1>2, PieceFits DEF Making, Carving
<1>3. CASE pc[t] = "stamp"
  BY <1>1, <1>3 DEF Making, New, Carving, Kept, Inv, Geometry
<1>4. CASE pc[t] # "check" /\ pc[t] # "stamp"
  BY <1>1, <1>4 DEF Making, New
<1>5. QED
  BY <1>1, <1>2, <1>3, <1>4

(* What the pieces are, one by one.                                        *)
LEMMA PieceForms ==
  ASSUME NEW x
  PROVE  x \in Pieces <=>
           \/ \E b \in held : x = Piece(b - Granule, ClassSize(ClassOfBlock(b)), "program")
           \/ \E c \in Classes : \E a \in Listed(c) : x = Piece(a, ClassSize(c), "list")
           \/ \E t \in Threads : \E a \in Making(t) : x = Piece(a, SizeAsked(t), t)
           \/ \E t \in Threads : \E a \in Parting(t) : x = Piece(a, ClassSize(class[a]), t)
<1> DEFINE P == {Piece(b - Granule, ClassSize(ClassOfBlock(b)), "program") : b \in held}
           L(c) == {Piece(a, ClassSize(c), "list") : a \in Listed(c)}
           M(t) == {Piece(a, SizeAsked(t), t) : a \in Making(t)}
           O(t) == {Piece(a, ClassSize(class[a]), t) : a \in Parting(t)}
<1> DEFINE UL == UNION {L(c) : c \in Classes}
           UM == UNION {M(t) : t \in Threads}
           UO == UNION {O(t) : t \in Threads}
<1>1. Pieces = P \cup UL \cup UM \cup UO
  BY DEF Pieces
<1>2. x \in P <=> \E b \in held : x = Piece(b - Granule, ClassSize(ClassOfBlock(b)), "program")
  OBVIOUS
<1>3. \A c : x \in L(c) <=> \E a \in Listed(c) : x = Piece(a, ClassSize(c), "list")
  OBVIOUS
<1>4. \A t : x \in M(t) <=> \E a \in Making(t) : x = Piece(a, SizeAsked(t), t)
  OBVIOUS
<1>5. \A t : x \in O(t) <=> \E a \in Parting(t) : x = Piece(a, ClassSize(class[a]), t)
  OBVIOUS
<1>6. x \in UL <=> \E c \in Classes : x \in L(c)
  <2> HIDE DEF L
  <2> QED OBVIOUS
<1>7. x \in UM <=> \E t \in Threads : x \in M(t)
  <2> HIDE DEF M
  <2> QED OBVIOUS
<1>8. x \in UO <=> \E t \in Threads : x \in O(t)
  <2> HIDE DEF O
  <2> QED OBVIOUS
<1> HIDE DEF P, L, M, O, UL, UM, UO
<1>9. x \in Pieces <=> x \in P \/ x \in UL \/ x \in UM \/ x \in UO
  BY <1>1
<1>10. QED
  BY <1>2, <1>3, <1>4, <1>5, <1>6, <1>7, <1>8, <1>9

LEMMA PieceIs ==
  ASSUME Sane, Kept, NEW x \in Pieces
  PROVE  \/ Stays(x) /\ Whose(x.from, x.whose) /\ x = [from |-> x.from, size |-> x.size, whose |-> x.whose]
         \/ \E t \in Threads : Carved(x, t)
<1> USE DEF Kept, Inv, Types, Threaded
<1>1. ASSUME NEW b \in held, x = Piece(b - Granule, ClassSize(ClassOfBlock(b)), "program")
      PROVE  Stays(x) /\ Whose(x.from, x.whose) /\ x = [from |-> x.from, size |-> x.size, whose |-> x.whose]
  BY <1>1 DEF Piece, Stays, Whose, Owned, Room, ClassOfBlock
<1>2. ASSUME NEW c \in Classes, NEW a \in Listed(c), x = Piece(a, ClassSize(c), "list")
      PROVE  Stays(x) /\ Whose(x.from, x.whose) /\ x = [from |-> x.from, size |-> x.size, whose |-> x.whose]
  <2>1. OnList(a) /\ class[a] = c /\ a \in Stamped
    BY <1>2, ListedAre DEF OnLists, OnList, Stamped
  <2>2. QED
    BY <1>2, <2>1 DEF Piece, Stays, Whose, Room
<1>3. ASSUME NEW t \in Threads, NEW a \in Making(t), x = Piece(a, SizeAsked(t), t)
      PROVE  \/ Stays(x) /\ Whose(x.from, x.whose) /\ x = [from |-> x.from, size |-> x.size, whose |-> x.whose]
             \/ Carved(x, t)
  <2>1. CASE a \in New(t)
    <3>1. a \in Stamped /\ class[a] = ClassAsked(t) /\ a \in Has(t)
      BY <2>1 DEF Owned, Has
    <3>2. QED
      BY <1>3, <3>1 DEF Piece, Stays, Whose, Room, SizeAsked
  <2>2. CASE a = p[t] /\ Carving(t) /\ CarvedEnd(t) <= end
    BY <1>3, <2>2 DEF Carved
  <2>3. QED
    BY <2>1, <2>2, MakingIs
<1>4. ASSUME NEW t \in Threads, NEW a \in Parting(t), x = Piece(a, ClassSize(class[a]), t)
      PROVE  Stays(x) /\ Whose(x.from, x.whose) /\ x = [from |-> x.from, size |-> x.size, whose |-> x.whose]
  <2>1. a \in Has(t) /\ a \in Stamped
    BY DEF Has, Old, Owned
  <2>2. QED
    BY <1>4, <2>1 DEF Piece, Stays, Whose, Room
<1>5. QED
  BY <1>1, <1>2, <1>3, <1>4, PieceForms

(* And everything stamped or taken is a piece.                             *)
LEMMA PieceOfAll ==
  ASSUME Sane, Kept
  PROVE  /\ \A g \in Stamped : \E x \in Pieces : x.from = g /\ x.size = Room(class[g])
         /\ \A t \in Threads : Carving(t) /\ CarvedEnd(t) <= end =>
              \E x \in Pieces : x.from = p[t] /\ x.size = Room(ClassAsked(t))
<1> USE DEF Kept, Inv, Types, Threaded
<1>1. ASSUME NEW t \in Threads, NEW g \in Has(t)
      PROVE  \E x \in Pieces : x.from = g /\ x.size = Room(class[g])
  <2>1. CASE g \in New(t)
    <3>1. g \in Making(t) /\ class[g] = ClassAsked(t)
      BY <2>1 DEF New, Making, Owned, Locals
    <3>2. Piece(g, SizeAsked(t), t) \in Pieces
      BY <3>1, PieceForms
    <3>3. QED
      BY <3>1, <3>2 DEF Piece, Room, SizeAsked
  <2>2. CASE g \in Old(t)
    <3>1. Piece(g, ClassSize(class[g]), t) \in Pieces
      BY <2>2, PieceForms DEF Old
    <3>2. QED
      BY <3>1 DEF Piece, Room
  <2>3. QED
    BY <1>1, <2>1, <2>2 DEF Has
<1>2. ASSUME NEW g \in Stamped
      PROVE  \E x \in Pieces : x.from = g /\ x.size = Room(class[g])
  <2>1. CASE \E t \in Threads : g \in Has(t)
    BY <1>1, <2>1
  <2>2. CASE tag[g] = "free" /\ \A t \in Threads : g \notin Has(t)
    <3>1. g \in OnLists /\ class[g] \in Classes
      BY <2>2 DEF OnLists, OnList, Stamped, Geometry
    <3>2. g \in Listed(class[g])
      BY <3>1, ListedAre
    <3>3. Piece(g, ClassSize(class[g]), "list") \in Pieces
      BY <3>1, <3>2, PieceForms
    <3>4. QED
      BY <3>3 DEF Piece, Room
  <2>3. CASE tag[g] = "live" /\ \A t \in Threads : g \notin Has(t)
    <3>1. g + Granule \in held
      BY <2>3 DEF Owned, Stamped
    <3>2. (g + Granule) - Granule = g
      BY Memory DEF Granule, Stamped
    <3>3. Piece((g + Granule) - Granule, ClassSize(ClassOfBlock(g + Granule)), "program") \in Pieces
      BY <3>1, PieceForms
    <3>4. QED
      BY <3>2, <3>3 DEF Piece, Room, ClassOfBlock
  <2>4. QED
    BY <2>1, <2>2, <2>3 DEF Stamped
<1>3. ASSUME NEW t \in Threads, Carving(t), CarvedEnd(t) <= end
      PROVE  \E x \in Pieces : x.from = p[t] /\ x.size = Room(ClassAsked(t))
  <2>1. p[t] \in Making(t)
    BY <1>3, PieceFits DEF Making, Carving, Locals
  <2>2. Piece(p[t], SizeAsked(t), t) \in Pieces
    BY <2>1, PieceForms
  <2>3. QED
    BY <2>2 DEF Piece, Room, SizeAsked
<1>4. QED
  BY <1>2, <1>3

(* Nobody is two: what is at a place says whose it is.                     *)
LEMMA WhoseIsOne ==
  ASSUME Sane, Kept, NEW a \in Stamped, NEW v, NEW w, Whose(a, v), Whose(a, w)
  PROVE  v = w
<1> USE DEF Kept, Inv
<1>1. CASE \E b \in held : a = b - Granule
  <2>1. tag[a] = "live" /\ \A t \in Threads : a \notin Has(t)
    BY <1>1 DEF Owned
  <2>2. QED
    BY <2>1 DEF Whose, OnList
<1>2. CASE \E t \in Threads : a \in Has(t)
  <2>1. PICK t \in Threads : a \in Has(t)
    BY <1>2
  <2>2. ~OnList(a) /\ (\A b \in held : a # b - Granule) /\ \A u \in Threads : a \in Has(u) => u = t
    BY <2>1 DEF OnList, Owned
  <2>3. QED
    BY <2>2 DEF Whose
<1>3. CASE (\A b \in held : a # b - Granule) /\ \A t \in Threads : a \notin Has(t)
  BY <1>3 DEF Whose
<1>4. QED
  BY <1>1, <1>2, <1>3

(* The bytes of a piece.                                                   *)
LEMMA Extents ==
  ASSUME NEW x, x.from \in Nat, x.size \in Nat
  PROVE  \A y : y \in Extent(x) <=> y \in Int /\ x.from <= y /\ y < x.from + x.size
BY DEF Extent

(* Where a piece lies.                                                     *)
LEMMA PieceLies ==
  ASSUME Sane, Kept
  PROVE  /\ \A x : Stays(x) => /\ x.from \in Nat /\ x.size \in Nat /\ x.from + x.size = End(x.from)
                               /\ base <= x.from /\ End(x.from) <= end /\ End(x.from) <= bump
                               /\ End(x.from) \in Nat
         /\ \A x, t : t \in Threads /\ Carved(x, t) =>
              /\ x.from = p[t] /\ x.from \in Nat /\ x.size \in Nat /\ x.from + x.size = CarvedEnd(t) /\ Carving(t)
              /\ base <= x.from /\ CarvedEnd(t) <= end /\ CarvedEnd(t) <= bump
              /\ CarvedEnd(t) \in Nat
<1> USE DEF Kept, Inv, Types, Threaded
<1>1. ASSUME NEW x, Stays(x)
      PROVE  /\ x.from \in Nat /\ x.size \in Nat /\ x.from + x.size = End(x.from)
             /\ base <= x.from /\ End(x.from) <= end /\ End(x.from) <= bump
             /\ End(x.from) \in Nat
  <2>1. x.from \in Stamped /\ x.size = Room(class[x.from])
    BY <1>1 DEF Stays
  <2>2. class[x.from] \in Classes /\ x.from \in Nat
    BY <2>1, Memory DEF Geometry, Stamped
  <2>3. QED
    BY <2>1, <2>2, Rooms DEF Geometry, End
<1>2. ASSUME NEW x, NEW t \in Threads, Carved(x, t)
      PROVE  /\ x.from = p[t] /\ x.from \in Nat /\ x.size \in Nat /\ x.from + x.size = CarvedEnd(t) /\ Carving(t)
             /\ base <= x.from /\ CarvedEnd(t) <= end /\ CarvedEnd(t) <= bump
             /\ CarvedEnd(t) \in Nat
  <2>1. Carving(t) /\ CarvedEnd(t) <= end /\ x.from = p[t] /\ x.size = Room(ClassAsked(t))
    BY <1>2 DEF Carved, Piece, SizeAsked, Room
  <2>2. ClassAsked(t) \in Classes
    BY <2>1, Asked DEF Carving, Picked
  <2>3. QED
    BY <2>1, <2>2, Rooms DEF Geometry, CarvedEnd
<1>3. QED
  BY <1>1, <1>2

(* No storage is in two places: a block is the program's, on one list or   *)
(* in the hands of one thread, apart from every other block, and in the    *)
(* arena.                                                                  *)
THEOREM BlocksApartHolds == ASSUME Sane, BumpStays PROVE Spec => []BlocksApart
<1>1. ASSUME Kept, NEW x \in Pieces, NEW y \in Pieces, x # y
      PROVE  x.from + x.size <= y.from \/ y.from + y.size <= x.from
  <2> USE <1>1 DEF Kept, Inv
  <2>1. CASE Stays(x) /\ Stays(y) /\ x.from # y.from
    <3>1. End(x.from) <= y.from \/ End(y.from) <= x.from
      BY <2>1 DEF Stays, Geometry
    <3>2. QED
      BY <2>1, <3>1, PieceLies
  <2>2. CASE /\ Stays(x) /\ Whose(x.from, x.whose) /\ x = [from |-> x.from, size |-> x.size, whose |-> x.whose]
             /\ Stays(y) /\ Whose(y.from, y.whose) /\ y = [from |-> y.from, size |-> y.size, whose |-> y.whose]
             /\ x.from = y.from
    <3>1. x.whose = y.whose
      BY <2>2, WhoseIsOne DEF Stays
    <3>2. x.size = y.size
      BY <2>2 DEF Stays
    <3>3. QED
      BY <2>2, <3>1, <3>2
  <2>3. ASSUME NEW t \in Threads, Carved(x, t), Stays(y)
        PROVE  x.from + x.size <= y.from \/ y.from + y.size <= x.from
    <3>1. CarvedEnd(t) <= y.from \/ End(y.from) <= p[t]
      BY <2>3 DEF Carved, Stays, Geometry
    <3>2. QED
      BY <2>3, <3>1, PieceLies
  <2>4. ASSUME NEW t \in Threads, Carved(y, t), Stays(x)
        PROVE  x.from + x.size <= y.from \/ y.from + y.size <= x.from
    <3>1. CarvedEnd(t) <= x.from \/ End(x.from) <= p[t]
      BY <2>4 DEF Carved, Stays, Geometry
    <3>2. QED
      BY <2>4, <3>1, PieceLies
  <2>5. ASSUME NEW t \in Threads, NEW u \in Threads, Carved(x, t), Carved(y, u)
        PROVE  x.from + x.size <= y.from \/ y.from + y.size <= x.from
    <3>1. t # u
      BY <2>5 DEF Carved
    <3>2. CarvedEnd(t) <= p[u] \/ CarvedEnd(u) <= p[t]
      BY <2>5, <3>1 DEF Carved, Geometry
    <3>3. QED
      BY <2>5, <3>2, PieceLies
  <2>6. QED
    BY <2>1, <2>2, <2>3, <2>4, <2>5, PieceIs
<1>2. ASSUME Kept, NEW x \in Pieces
      PROVE  /\ x.from \in Nat /\ x.size \in Nat /\ x.from + x.size \in Nat /\ base \in Nat /\ end \in Nat
             /\ base <= x.from /\ x.from + x.size <= end
  <2>1. base \in Nat /\ end \in Nat
    BY <1>2 DEF Kept, Inv, Types
  <2>2. CASE Stays(x)
    BY <1>2, <2>1, <2>2, PieceLies
  <2>3. CASE \E t \in Threads : Carved(x, t)
    BY <1>2, <2>1, <2>3, PieceLies
  <2>4. QED
    BY <1>2, <2>2, <2>3, PieceIs
<1>3. ASSUME Kept PROVE BlocksApart
  <2>1. ASSUME NEW x \in Pieces, NEW y \in Pieces, x # y PROVE Extent(x) \cap Extent(y) = {}
    <3>1. x.from + x.size <= y.from \/ y.from + y.size <= x.from
      BY <1>1, <1>3, <2>1
    <3>2. /\ x.from \in Nat /\ x.size \in Nat /\ x.from + x.size \in Nat
          /\ y.from \in Nat /\ y.size \in Nat /\ y.from + y.size \in Nat
      BY <1>2, <1>3
    <3>3. QED
      BY <3>1, <3>2, Extents
  <2>2. ASSUME NEW x \in Pieces PROVE Extent(x) \subseteq base .. end - 1
    <3>1. /\ x.from \in Nat /\ x.size \in Nat /\ x.from + x.size \in Nat /\ base \in Nat /\ end \in Nat
          /\ base <= x.from /\ x.from + x.size <= end
      BY <1>2, <1>3
    <3>2. QED
      BY <3>1, Extents
  <2>3. QED
    BY <2>1, <2>2 DEF BlocksApart
<1>4. QED
  BY <1>3, InvariantHolds, PTL

(* Until the arena is full, every byte the bump has passed belongs to a    *)
(* block that is in use, on a list or in a call's hands.                   *)
THEOREM NothingLeakedHolds == ASSUME Sane, BumpStays PROVE Spec => []NothingLeaked
<1>1. ASSUME Kept, bump <= end
      PROVE  UNION {Extent(x) : x \in Pieces} = base .. bump - 1
  <2> USE <1>1 DEF Kept, Inv, Types
  <2>1. ASSUME NEW x \in Pieces, NEW y \in Extent(x) PROVE y \in base .. bump - 1
    <3>1. CASE Stays(x)
      <4>1. /\ x.from \in Nat /\ x.size \in Nat /\ x.from + x.size = End(x.from) /\ End(x.from) \in Nat
            /\ base <= x.from /\ End(x.from) <= bump
        BY <3>1, PieceLies
      <4>2. QED
        BY <4>1, Extents
    <3>2. CASE \E t \in Threads : Carved(x, t)
      <4>1. PICK t \in Threads : Carved(x, t)
        BY <3>2
      <4>2. /\ x.from \in Nat /\ x.size \in Nat /\ x.from + x.size = CarvedEnd(t) /\ CarvedEnd(t) \in Nat
            /\ base <= x.from /\ CarvedEnd(t) <= bump
        BY <4>1, PieceLies
      <4>3. QED
        BY <4>2, Extents
    <3>3. QED
      BY <3>1, <3>2, PieceIs
  <2>2. ASSUME NEW y \in base .. bump - 1 PROVE \E x \in Pieces : y \in Extent(x)
    <3>1. end # 0
      <4>1. base <= y /\ y < bump /\ y \in Int
        OBVIOUS
      <4>2. QED
        BY <4>1 DEF Reservation
    <3>2. \/ \E g \in Stamped : g <= y /\ y < End(g)
          \/ \E t \in Threads : Carving(t) /\ p[t] <= y /\ y < CarvedEnd(t)
      BY <3>1 DEF Covered
    <3>3. ASSUME NEW g \in Stamped, g <= y, y < End(g) PROVE \E x \in Pieces : y \in Extent(x)
      <4>1. PICK x \in Pieces : x.from = g /\ x.size = Room(class[g])
        BY PieceOfAll
      <4>2. g \in Nat /\ End(g) \in Nat /\ x.size \in Nat /\ x.from + x.size = End(g)
        BY <4>1, PieceLies DEF Stays
      <4>3. y \in Extent(x)
        BY <3>3, <4>1, <4>2, Extents
      <4>4. QED
        BY <4>3
    <3>4. ASSUME NEW t \in Threads, Carving(t), p[t] <= y, y < CarvedEnd(t)
          PROVE  \E x \in Pieces : y \in Extent(x)
      <4>1. ClassAsked(t) \in Classes
        BY <3>4, Asked DEF Carving, Picked, Threaded
      <4>2. CarvedEnd(t) <= bump /\ CarvedEnd(t) \in Nat /\ p[t] + Room(ClassAsked(t)) = CarvedEnd(t)
            /\ Room(ClassAsked(t)) \in Nat
        BY <3>4, <4>1, Rooms DEF Geometry, CarvedEnd
      <4>3. PICK x \in Pieces : x.from = p[t] /\ x.size = Room(ClassAsked(t))
        BY <3>4, <4>2, PieceOfAll
      <4>4. y \in Extent(x)
        BY <3>4, <4>2, <4>3, Extents
      <4>5. QED
        BY <4>4
    <3>5. QED
      BY <3>2, <3>3, <3>4
  <2>3. QED
    BY <2>1, <2>2
<1>2. Kept => NothingLeaked
  BY <1>1 DEF NothingLeaked
<1>3. QED
  BY <1>2, InvariantHolds, PTL

(* Nothing writes into a block the program has; storage handed out is      *)
(* cleared, and what realloc copied is what the old block held.            *)
THEOREM ContentsKeptHolds == ASSUME Sane, BumpStays PROVE Spec => []ContentsKept
<1>1. Kept => ContentsKept
  BY DEF Kept, Inv, Contents, ContentsKept
<1>2. QED
  BY <1>1, InvariantHolds, PTL

(* No request is served short, or with a class larger than it needs.       *)
THEOREM LeastClassServesHolds == Spec => []LeastClassServes
<1>1. AllGetLeastRoom
  BY LeastRoom, Memory
<1>2. LeastClassServes
  BY <1>1 DEF LeastClassServes
<1>3. QED
  BY <1>2, PTL

-----------------------------------------------------------------------------
(* Storage is implemented                                                  *)

Granted == [b \in held |-> ClassSize(ClassOfBlock(b))]

(* What the program has changes by one block at a time: one given back, or *)
(* one handed out that the thread had and the program did not.             *)
LEMMA HeldChanges ==
  ASSUME Sane, Inv, NEW t \in Threads, Calling(t) \/ Step(t)
  PROVE  \/ held' = held
         \/ \E b \in held : held' = held \ {b}
         \/ \E b \in Addresses : /\ held' = held \cup {b} /\ b \notin held /\ class' = class
                                 /\ b - Granule \in Stamped
<1> USE DEF Inv, Types, Threaded, Goto
<1>1. CASE Calling(t)
  <2>1. CASE \E n \in Sizes : CallMalloc(t, n)
    BY <2>1 DEF CallMalloc
  <2>2. CASE \E b \in held \cup Strays : CallFree(t, b)
    BY <2>2 DEF CallFree
  <2>3. CASE \E b \in held, n \in Sizes : ReallocInPlace(t, b, n)
    BY <2>3 DEF ReallocInPlace
  <2>4. CASE \E b \in held, n \in Sizes : ReallocElsewhere(t, b, n)
    BY <2>4 DEF ReallocElsewhere
  <2>5. QED
    BY <1>1, <2>1, <2>2, <2>3, <2>4 DEF Calling
<1>2. CASE ReadEnd(t) \/ Claim(t) \/ (\E a \in Arenas \cup Refusals : MapArena(t, a))
           \/ Publish(t) \/ AwaitEnd(t) \/ Refuse(t) \/ AskForList(t) \/ WaitForLock(t)
  BY <1>2 DEF ReadEnd, Claim, MapArena, Publish, AwaitEnd, Refuse, AskForList, WaitForLock, program
<1>3. CASE ReadHead(t) \/ Unlink(t) \/ LeaveList(t) \/ Clear(t) \/ Bump(t) \/ CheckEnd(t) \/ Stamp(t)
  BY <1>3 DEF ReadHead, Unlink, LeaveList, Clear, Bump, CheckEnd, Stamp, program
<1>4. CASE ReturnBlock(t) \/ (LeaveLinked(t) /\ job[t] = "realloc")
  <2>1. /\ held' = held \cup {p[t] + Granule} /\ class' = class
        /\ pc[t] \in {"return", "linked"} /\ p[t] # 0
    BY <1>4 DEF ReturnBlock, LeaveLinked, Finish, Locals, Freeing
  <2>2. /\ p[t] \in Stamped /\ (p[t] + Granule) - Granule = p[t]
        /\ \A b \in held : b - Granule # p[t]
    BY <2>1, NewIsOnes
  <2>3. p[t] + Granule \in Addresses
    BY <2>2, Payloads DEF Granule
  <2>4. QED
    BY <2>1, <2>2, <2>3
<1>5. CASE ReturnNull(t) /\ job[t] = "realloc"
  <2>1. held' = held \cup {blk[t]} /\ class' = class /\ pc[t] = "return"
    BY <1>5 DEF ReturnNull, Finish
  <2>2. blk[t] - Granule \in Stamped /\ blk[t] - Granule \in Has(t) /\ (blk[t] - Granule) + Granule = blk[t]
    BY <1>5, <2>1, OldIsOnes
  <2>3. blk[t] \in Addresses /\ blk[t] \notin held
    BY <2>2, Payloads DEF Granule, Owned
  <2>4. QED
    BY <2>1, <2>2, <2>3
<1>6. CASE (ReturnNull(t) /\ job[t] # "realloc") \/ (LeaveLinked(t) /\ job[t] # "realloc")
           \/ Copy(t) \/ CheckOld(t) \/ Retire(t) \/ AskToLink(t) \/ LinkBlock(t) \/ LinkHead(t)
  BY <1>6 DEF ReturnNull, Copy, CheckOld, Retire, AskToLink, LinkBlock, LinkHead, LeaveLinked, program
<1>7. QED
  BY <1>1, <1>2, <1>3, <1>4, <1>5, <1>6 DEF Step

(* A granted block keeps its size.                                         *)
LEMMA SizesStay ==
  ASSUME Sane, Inv, NEW t \in Threads, Calling(t) \/ Step(t), NEW b \in held
  PROVE  ClassSize(ClassOfBlock(b))' = ClassSize(ClassOfBlock(b))
<1>1. b - Granule \in Stamped /\ b - Granule \notin Has(t)
  BY DEF Inv, Owned
<1>2. class'[b - Granule] = class[b - Granule]
  BY <1>1, ClassStays
<1>3. QED
  BY <1>2 DEF ClassOfBlock

(* Where the bytes of a stamped block's payload are.                       *)
LEMMA BytesOf ==
  ASSUME Sane, Inv, NEW b \in Addresses, b - Granule \in Stamped
  PROVE  /\ ClassOfBlock(b) \in Classes /\ ClassSize(ClassOfBlock(b)) \in Nat
         /\ ClassSize(ClassOfBlock(b)) > 0 /\ b \in Nat
         /\ b + ClassSize(ClassOfBlock(b)) = End(b - Granule)
         /\ b .. b + ClassSize(ClassOfBlock(b)) - 1 \subseteq Mapped
<1> DEFINE c == class[b - 16]
           n == ClassSize(c)
<1>1. b - 16 \in Stamped /\ b \in Nat
  BY Memory DEF Granule
<1>2. c \in Classes /\ base <= b - 16 /\ End(b - 16) <= end
  BY <1>1 DEF Inv, Geometry
<1>3. n \in Nat /\ n > 0 /\ b + n = End(b - 16)
  BY <1>1, <1>2, Rooms DEF End
<1>4. base \in Arenas /\ end = base + ArenaBytes /\ base \in Nat /\ ArenaBytes \in Nat
  BY <1>1, Payloads, Memory DEF Inv, Reservation
<1>5. b .. b + n - 1 \subseteq base .. base + ArenaBytes - 1
  <2> HIDE DEF n
  <2>1. base <= b /\ b + n <= base + ArenaBytes
    BY <1>1, <1>2, <1>3, <1>4
  <2>2. QED
    BY <1>1, <1>3, <1>4, <2>1
<1>6. base .. base + ArenaBytes - 1 \subseteq Mapped
  BY <1>4 DEF Mapped
<1>7. b .. b + n - 1 \subseteq Mapped
  BY <1>5, <1>6
<1>8. QED
  BY <1>1, <1>2, <1>3, <1>7 DEF ClassOfBlock, Granule

(* The bytes of two blocks are apart.                                      *)
LEMMA BytesApart ==
  ASSUME Sane, Inv, NEW a \in Addresses, a - Granule \in Stamped, NEW b \in Addresses, b - Granule \in Stamped, a # b
  PROVE  (a .. a + ClassSize(ClassOfBlock(a)) - 1) \cap (b .. b + ClassSize(ClassOfBlock(b)) - 1) = {}
<1> DEFINE m == ClassSize(ClassOfBlock(a))
           n == ClassSize(ClassOfBlock(b))
<1>1. a - Granule # b - Granule
  BY Memory DEF Granule
<1>2. End(a - Granule) <= b - Granule \/ End(b - Granule) <= a - Granule
  BY <1>1 DEF Inv, Geometry
<1>3. /\ m \in Nat /\ n \in Nat /\ a \in Nat /\ b \in Nat
      /\ a + m = End(a - Granule) /\ b + n = End(b - Granule)
  BY BytesOf
<1> HIDE DEF m, n
<1>4. a + m <= b \/ b + n <= a
  BY <1>2, <1>3 DEF Granule
<1>5. (a .. a + m - 1) \cap (b .. b + n - 1) = {}
  BY <1>3, <1>4
<1>6. QED
  BY <1>5 DEF m, n

(* Every step grants, takes back or does neither.                          *)
LEMMA StepKeepsPromise ==
  ASSUME Sane, Inv, NEW t \in Threads, Calling(t) \/ Step(t)
  PROVE  Promise!Next \/ Granted' = Granted
<1>1. \A b \in held : ClassSize(ClassOfBlock(b))' = ClassSize(ClassOfBlock(b))
  BY SizesStay
<1>2. DOMAIN Granted = held
  BY DEF Granted
<1>3. CASE held' = held
  BY <1>1, <1>3 DEF Granted
<1>4. ASSUME NEW b \in held, held' = held \ {b} PROVE Promise!Next
  <2>1. Granted' = [x \in held \ {b} |-> Granted[x]]
    BY <1>1, <1>4 DEF Granted
  <2>2. Promise!TakeBack(b)
    BY <1>2, <2>1 DEF Promise!TakeBack, Granted
  <2>3. QED
    BY <2>2 DEF Promise!Next
<1>5. ASSUME NEW b \in Addresses, held' = held \cup {b}, b \notin held, class' = class, b - Granule \in Stamped
      PROVE  Promise!Next
  <2> DEFINE n == ClassSize(ClassOfBlock(b))
  <2>1. /\ n \in {ClassSize(c) : c \in Classes} /\ n > 0
        /\ b .. b + n - 1 \subseteq Mapped
    BY <1>5, BytesOf
  <2>2. \A x \in held : (b .. b + n - 1) \cap (x .. x + Granted[x] - 1) = {}
    <3> SUFFICES ASSUME NEW x \in held PROVE (b .. b + n - 1) \cap (x .. x + Granted[x] - 1) = {}
      OBVIOUS
    <3>1. x \in Addresses /\ x - Granule \in Stamped /\ x # b
      BY <1>5, HeldBlock DEF Inv, Granule
    <3>2. Granted[x] = ClassSize(ClassOfBlock(x))
      BY DEF Granted
    <3>3. QED
      BY <1>5, <3>1, <3>2, BytesApart
  <2>3. Granted' = [x \in held \cup {b} |-> IF x = b THEN n ELSE Granted[x]]
    BY <1>1, <1>5 DEF Granted, ClassOfBlock
  <2>4. Promise!Grant(b, n)
    BY <1>2, <2>1, <2>2, <2>3 DEF Promise!Grant, Promise!Extent, Granted
  <2>5. QED
    BY <1>5, <2>1, <2>4 DEF Promise!Next
<1>6. QED
  BY <1>3, <1>4, <1>5, HeldChanges

(* The allocator keeps its promise: every block it grants lies in the      *)
(* arena apart from all the program has, and only the program gives back.  *)
THEOREM KeepsItsPromiseHolds == ASSUME Sane, BumpStays PROVE Spec => KeepsItsPromise
<1>1. Init => Promise!Init
  BY DEF Init, Promise!Init
<1>2. ASSUME Kept, [Next]_vars PROVE Promise!Next \/ Granted' = Granted
  <2>1. CASE UNCHANGED vars
    BY <2>1 DEF vars, memory, program, Granted, ClassOfBlock
  <2>2. CASE Next
    BY <1>2, <2>2, StepKeepsPromise DEF Next, Kept
  <2>3. QED
    BY <1>2, <2>1, <2>2
<1>3. Kept /\ [Next]_vars => [Promise!Next]_Granted
  BY <1>2
<1>4. QED
  BY <1>1, <1>3, InvariantHolds, PTL DEF Spec, KeepsItsPromise, Promise!Spec, Granted
=============================================================================
