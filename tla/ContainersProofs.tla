--------------------------- MODULE ContainersProofs --------------------------
(***************************************************************************)
(* That the vector, the map, the deque and the list py2bin writes out are  *)
(* what C++ says they are, for any keys, values and number of objects, for *)
(* every sequence of calls and whatever room they start with.  The calls   *)
(* are those C++ allows but two, which are known to go wrong and which the *)
(* instances leave out: m[k] read for a key that is not there (ReadsMake)  *)
(* and push_front on a deque that has been nowhere yet (FrontFirst).       *)
(***************************************************************************)
EXTENDS MCContainers, SequenceTheorems, FiniteSetTheorems, WellFoundedInduction, TLAPS

(* Induction over the naturals, with a set for what is shown.              *)
LEMMA SetInduction ==
  ASSUME NEW S, 0 \in S, \A n \in Nat : n \in S => n + 1 \in S
  PROVE  Nat \subseteq S
<1> DEFINE Out == Nat \ S
           Less == OpToRel(<, Nat)
<1>1. SUFFICES ASSUME Out # {} PROVE FALSE
  OBVIOUS
<1>2. IsWellFoundedOn(Less, Nat)
  BY NatLessThanWellFounded
<1>3. PICK m \in Out : \A k \in Out : ~(<<k, m>> \in Less)
  <2> HIDE DEF Out, Less
  <2> QED BY <1>1, <1>2, WFMin DEF Out
<1>4. \A k \in Out : ~(k < m)
  BY <1>3 DEF OpToRel
<1>5. m \in Nat /\ m # 0 /\ m - 1 \in Nat
  OBVIOUS
<1>6. m - 1 \in S
  BY <1>4, <1>5
<1>7. m \in S
  <2>1. (m - 1) + 1 \in S
    BY <1>5, <1>6
  <2> QED BY <1>5, <2>1
<1>8. QED
  BY <1>7

(* A sequence of length n, as a function.                                  *)
Numbered(s, n) == n \in Nat /\ s = [i \in 1 .. n |-> s[i]]

(* Such a function is a sequence of what its cells hold.                   *)
LEMMA NumberedIs ==
  ASSUME NEW s, NEW n, Numbered(s, n), NEW X, \A i \in 1 .. n : s[i] \in X
  PROVE  s \in Seq(X) /\ Len(s) = n
<1>1. s \in [1 .. n -> X] /\ n \in Nat
  BY DEF Numbered
<1>2. QED
  BY <1>1

(* A sequence is the function of its cells.                                *)
LEMMA SeqIsNumbered ==
  ASSUME NEW X, NEW s \in Seq(X), NEW n, Len(s) = n
  PROVE  Numbered(s, n)
BY LenProperties DEF Numbered

(* What Append, \o, SubSeq and Tail make of it, cell by cell.              *)
LEMMA AppendIs ==
  ASSUME NEW s, NEW n, Numbered(s, n), NEW x
  PROVE  Append(s, x) = [i \in 1 .. n + 1 |-> IF i <= n THEN s[i] ELSE x]
<1> DEFINE X == {s[i] : i \in 1 .. n} \cup {x}
           t == Append(s, x)
<1>1. s \in Seq(X) /\ Len(s) = n
  BY NumberedIs
<1>2. x \in X
  OBVIOUS
<1> HIDE DEF X
<1>3. t \in Seq(X) /\ Len(t) = n + 1 /\ (\A i \in 1 .. n : t[i] = s[i]) /\ t[n + 1] = x
  BY <1>1, <1>2, AppendProperties
<1> HIDE DEF t
<1>4. Numbered(t, n + 1)
  BY <1>3, SeqIsNumbered
<1>5. \A i \in 1 .. n + 1 : t[i] = IF i <= n THEN s[i] ELSE x
  BY <1>3 DEF Numbered
<1>6. t = [i \in 1 .. n + 1 |-> IF i <= n THEN s[i] ELSE x]
  BY <1>4, <1>5 DEF Numbered
<1>7. QED
  BY <1>6 DEF t

(* What joining, prepending, cutting and Tail make of such sequences.      *)
LEMMA ConcatIs ==
  ASSUME NEW s, NEW m, Numbered(s, m), NEW t, NEW n, Numbered(t, n)
  PROVE  s \o t = [i \in 1 .. m + n |-> IF i <= m THEN s[i] ELSE t[i - m]]
<1> DEFINE X == {s[i] : i \in 1 .. m} \cup {t[i] : i \in 1 .. n}
           u == s \o t
<1>0. (\A i \in 1 .. m : s[i] \in X) /\ \A i \in 1 .. n : t[i] \in X
  OBVIOUS
<1> HIDE DEF X
<1>1. s \in Seq(X) /\ Len(s) = m
  BY <1>0, NumberedIs
<1>2. t \in Seq(X) /\ Len(t) = n
  BY <1>0, NumberedIs
<1>3. u \in Seq(X) /\ Len(u) = m + n /\ \A i \in 1 .. m + n : u[i] = IF i <= m THEN s[i] ELSE t[i - m]
  BY <1>1, <1>2, ConcatProperties
<1> HIDE DEF u
<1>4. Numbered(u, m + n)
  BY <1>3, SeqIsNumbered
<1>6. u = [i \in 1 .. m + n |-> IF i <= m THEN s[i] ELSE t[i - m]]
  BY <1>3, <1>4 DEF Numbered
<1>7. QED
  BY <1>6 DEF u

(* One element in front.                                                   *)
LEMMA PrependIs ==
  ASSUME NEW s, NEW n, Numbered(s, n), NEW x
  PROVE  <<x>> \o s = [i \in 1 .. n + 1 |-> IF i = 1 THEN x ELSE s[i - 1]]
<1>1. Numbered(<<x>>, 1) /\ <<x>>[1] = x
  BY DEF Numbered
<1>2. n \in Nat
  BY DEF Numbered
<1> DEFINE t == <<x>>
<1>a. Numbered(t, 1)
  BY <1>1
<1> HIDE DEF t
<1>b. t \o s = [i \in 1 .. 1 + n |-> IF i <= 1 THEN t[i] ELSE s[i - 1]]
  BY <1>a, ConcatIs
<1>3. <<x>> \o s = [i \in 1 .. 1 + n |-> IF i <= 1 THEN <<x>>[i] ELSE s[i - 1]]
  BY <1>b DEF t
<1>4. [i \in 1 .. 1 + n |-> IF i <= 1 THEN <<x>>[i] ELSE s[i - 1]]
      = [i \in 1 .. n + 1 |-> IF i = 1 THEN x ELSE s[i - 1]]
  BY <1>1, <1>2
<1>5. QED
  BY <1>3, <1>4

(* A part of a sequence, empty when it ends before it begins.              *)
LEMMA SubSeqIs ==
  ASSUME NEW s, NEW n, Numbered(s, n), NEW a \in 1 .. n + 1, NEW b \in 0 .. n
  PROVE  SubSeq(s, a, b) = [i \in 1 .. (IF a <= b THEN b - a + 1 ELSE 0) |-> s[a + i - 1]]
<1> DEFINE X == {s[i] : i \in 1 .. n}
           u == SubSeq(s, a, b)
           m == IF a <= b THEN b - a + 1 ELSE 0
<1>0. n \in Nat /\ a \in Int /\ b \in Int /\ m \in Nat
  BY DEF Numbered
<1>1. \A i \in a .. b : s[i] \in X
  BY <1>0
<1> HIDE DEF X
<1>3. u \in Seq(X) /\ Len(u) = m /\ \A i \in 1 .. b - a + 1 : u[i] = s[a + i - 1]
  BY <1>0, <1>1, SubSeqProperties
<1> HIDE DEF u
<1>4. Numbered(u, m)
  BY <1>3, SeqIsNumbered
<1>5. \A i \in 1 .. m : u[i] = s[a + i - 1]
  BY <1>0, <1>3
<1> HIDE DEF m
<1>6. u = [i \in 1 .. m |-> s[a + i - 1]]
  BY <1>4, <1>5 DEF Numbered
<1>7. QED
  BY <1>6 DEF u, m

(* All but the first.                                                      *)
LEMMA TailIs ==
  ASSUME NEW s, NEW n, Numbered(s, n), n > 0
  PROVE  Tail(s) = [i \in 1 .. n - 1 |-> s[i + 1]]
<1> DEFINE X == {s[i] : i \in 1 .. n}
           u == Tail(s)
<1>0. n \in Nat
  BY DEF Numbered
<1>a. \A i \in 1 .. n : s[i] \in X
  OBVIOUS
<1> HIDE DEF X
<1>1. s \in Seq(X) /\ Len(s) = n
  BY <1>a, NumberedIs
<1>2. s # <<>>
  BY <1>0, <1>1
<1>3. u \in Seq(X) /\ Len(u) = n - 1 /\ \A i \in 1 .. Len(u) : u[i] = s[i + 1]
  BY <1>1, <1>2, HeadTailProperties
<1> HIDE DEF u
<1>4. Numbered(u, n - 1)
  BY <1>0, <1>3, SeqIsNumbered
<1>6. u = [i \in 1 .. n - 1 |-> s[i + 1]]
  BY <1>3, <1>4 DEF Numbered
<1>7. QED
  BY <1>6 DEF u

-----------------------------------------------------------------------------
(* A set of naturals has a least one.                                      *)
LEMMA LeastOf ==
  ASSUME NEW S \in SUBSET Nat, S # {}
  PROVE  \E m \in S : \A k \in S : m <= k
<1> DEFINE Less == OpToRel(<, Nat)
<1>1. IsWellFoundedOn(Less, Nat)
  BY NatLessThanWellFounded
<1>2. PICK m \in S : \A k \in S : ~(<<k, m>> \in Less)
  <2> HIDE DEF Less
  <2> QED BY <1>1, WFMin
<1>3. \A k \in S : ~(k < m)
  BY <1>2 DEF OpToRel
<1>4. QED
  BY <1>3

(* What the storage of a map holds, and the calls of a map.                *)
Entries == [first : Int, second : Scores]
Calling == [op : {"write", "insert"}, k : Keys, v : Scores]
           \cup [op : {"read", "erase"}, k : Keys] \cup [op : {"clear"}]

MapTypes == /\ entries \in Seq(Entries)
            /\ used \in 0 .. Map!Room
            /\ \A i \in 1 .. used : entries[i].first \in Keys
            /\ mcall \in Calling \cup {Idle}

ReadsFind == mcall \in Calling /\ mcall.op = "read" => FALSE \/ Map!Has(mcall.k)

MapInv == MapTypes /\ Map!WalksInOrder /\ ReadsFind

\* The invariant without the call
Sorted == /\ entries \in Seq(Entries)
          /\ used \in 0 .. Map!Room
          /\ \A i \in 1 .. used : entries[i].first \in Keys
          /\ Map!WalksInOrder

Got == {entries[i].first : i \in 1 .. used}

(* The cells of the storage, the used ones among them.                     *)
LEMMA CellTyped ==
  ASSUME Sorted
  PROVE  /\ Map!Room \in Nat /\ used \in Nat /\ used <= Map!Room /\ DOMAIN entries = 1 .. Map!Room
         /\ \A i \in 1 .. Map!Room : entries[i] \in Entries /\ entries[i].first \in Int /\ entries[i].second \in Scores
         /\ \A i \in 1 .. used : i \in 1 .. Map!Room
<1>1. /\ Map!Room \in Nat /\ used \in Nat /\ used <= Map!Room /\ DOMAIN entries = 1 .. Map!Room
      /\ \A i \in 1 .. Map!Room : entries[i] \in Entries
  BY DEF Sorted, Map!Room
<1>2. \A x \in Entries : x.first \in Int /\ x.second \in Scores
  BY DEF Entries
<1>3. QED
  BY <1>1, <1>2

(* find: where a key is in the sorted array, if it is there at all.        *)
LEMMA FindIs ==
  ASSUME Sorted, NEW k
  PROVE  /\ Map!Find(k) \in 1 .. used + 1
         /\ Map!Has(k) <=> k \in Got
         /\ Map!Has(k) => Map!Find(k) \in 1 .. used /\ entries[Map!Find(k)].first = k
         /\ \A i \in 1 .. used : entries[i].first = k => Map!Find(k) = i
<1> DEFINE Is(i) == /\ i <= used => entries[i].first = k
                    /\ \A j \in 1 .. i - 1 : entries[j].first # k
<1>0. used \in Nat /\ \A i, j \in 1 .. used : i < j => entries[i].first < entries[j].first
  BY CellTyped DEF Sorted, Map!WalksInOrder
<1>1. \A i \in 1 .. used : entries[i].first \in Int
  BY CellTyped
<1>2. ASSUME NEW i \in 1 .. used, entries[i].first = k
      PROVE  Is(i) /\ \A h \in 1 .. used + 1 : Is(h) => h = i
  BY <1>0, <1>1, <1>2
<1>3. ASSUME \A i \in 1 .. used : entries[i].first # k
      PROVE  Is(used + 1) /\ \A h \in 1 .. used + 1 : Is(h) => h = used + 1
  BY <1>0, <1>3
<1>4. Map!Find(k) = CHOOSE i \in 1 .. used + 1 : Is(i)
  BY DEF Map!Find
<1>5. \E i \in 1 .. used + 1 : Is(i)
  <2>1. used + 1 \in 1 .. used + 1 /\ \A i \in 1 .. used : i \in 1 .. used + 1
    BY <1>0
  <2> HIDE DEF Is
  <2> QED BY <1>2, <1>3, <2>1
<1>6. Map!Find(k) \in 1 .. used + 1 /\ Is(Map!Find(k))
  <2> HIDE DEF Is
  <2> QED BY <1>4, <1>5
<1>7. \A i \in 1 .. used : entries[i].first = k => Map!Find(k) = i
  BY <1>2, <1>6
<1>8. QED
  BY <1>0, <1>6, <1>7 DEF Map!Has, Got

(* A new key's place is between the lower and the greater ones.            *)
LEMMA PlaceIs ==
  ASSUME Sorted, NEW k \in Keys, ~Map!Has(k)
  PROVE  /\ Map!Place(k) \in 1 .. used + 1
         /\ \A i \in 1 .. used : i < Map!Place(k) => entries[i].first < k
         /\ \A i \in 1 .. used : i >= Map!Place(k) => k < entries[i].first
<1> DEFINE Is(i) == /\ i <= used => k < entries[i].first
                    /\ \A j \in 1 .. i - 1 : ~(k < entries[j].first)
           Past == {i \in 1 .. used + 1 : i <= used => k < entries[i].first}
<1>0. used \in Nat /\ (\A i, j \in 1 .. used : i < j => entries[i].first < entries[j].first)
      /\ (\A i \in 1 .. used : entries[i].first \in Int) /\ k \in Int
  BY CellTyped, MapAssumption DEF Sorted, Map!WalksInOrder
<1>1. PICK m \in Past : \A i \in Past : m <= i
  <2>1. Past \in SUBSET Nat /\ used + 1 \in Past
    BY <1>0
  <2> HIDE DEF Past
  <2> QED BY <2>1, LeastOf
<1>2. m \in 1 .. used + 1 /\ Is(m)
  BY <1>0, <1>1
<1>3. Map!Place(k) = CHOOSE i \in 1 .. used + 1 : Is(i)
  BY DEF Map!Place
<1>4. Map!Place(k) \in 1 .. used + 1 /\ Is(Map!Place(k))
  <2> HIDE DEF Is
  <2> QED BY <1>2, <1>3
<1>5. \A i \in 1 .. used : entries[i].first # k
  BY FindIs DEF Got
<1>6. ASSUME NEW i \in 1 .. used, i < Map!Place(k) PROVE entries[i].first < k
  BY <1>0, <1>4, <1>5, <1>6
<1>7. ASSUME NEW i \in 1 .. used, i >= Map!Place(k) PROVE k < entries[i].first
  <2>1. k < entries[Map!Place(k)].first /\ Map!Place(k) \in 1 .. used
    BY <1>0, <1>4, <1>7
  <2> QED BY <1>0, <1>7, <2>1
<1>8. QED
  BY <1>4, <1>6, <1>7

(* The room a new key is given keeps the entries, and has a cell to spare. *)
LEMMA RoomyIs ==
  ASSUME Sorted
  PROVE  /\ Map!Roomy \in Seq(Entries)
         /\ used + 1 <= Len(Map!Roomy)
         /\ \A i \in 1 .. used : Map!Roomy[i] = entries[i]
<1>0. LeastRoom \in Nat /\ LeastRoom > 0 /\ Map!Raw \in Entries
  BY MapAssumption DEF Map!Raw, Entries
<1>1. /\ Map!Room \in Nat /\ used \in Nat /\ used <= Map!Room
      /\ \A i \in 1 .. Map!Room : entries[i] \in Entries
  BY CellTyped
<1>2. CASE used < Map!Room
  BY <1>1, <1>2 DEF Map!Roomy, Map!Room, Sorted
<1>3. CASE ~(used < Map!Room)
  <2> DEFINE n == IF Map!Room = 0 THEN LeastRoom ELSE 2 * Map!Room
  <2>1. Map!Roomy = Map!Reserved(entries, n)
    BY <1>3 DEF Map!Roomy
  <2>2. n \in Nat /\ used + 1 <= n
    BY <1>0, <1>1, <1>3
  <2> HIDE DEF n
  <2>3. Map!Roomy = [i \in 1 .. n |-> IF i <= used THEN entries[i] ELSE Map!Raw]
    BY <2>1 DEF Map!Reserved
  <2>4. \A i \in 1 .. n : (IF i <= used THEN entries[i] ELSE Map!Raw) \in Entries
    BY <1>0, <1>1
  <2> QED BY <1>1, <2>2, <2>3, <2>4
<1>4. QED
  BY <1>2, <1>3

(* What __slot leaves: sorted cells, among them one with the key, and the  *)
(* same keys with the same values otherwise.                               *)
Ordered(es, n) == /\ es \in Seq(Entries)
                  /\ n \in 0 .. Len(es)
                  /\ \A i \in 1 .. n : es[i].first \in Keys
                  /\ \A i, j \in 1 .. n : i < j => es[i].first < es[j].first

(* __slot: the array with a cell for the key, in order, the others kept.   *)
LEMMA SlotIs ==
  ASSUME Sorted, NEW k \in Keys
  PROVE  LET s == Map!Slot(k)
         IN  /\ Ordered(s.cells, s.used)
             /\ s.at \in 1 .. s.used /\ s.cells[s.at].first = k
             /\ \A i \in 1 .. used : \E j \in 1 .. s.used : s.cells[j] = entries[i]
             /\ \A j \in 1 .. s.used : j # s.at => \E i \in 1 .. used : entries[i] = s.cells[j]
             /\ Map!Has(k) => s.cells = entries /\ s.used = used
<1>0. /\ Map!Room \in Nat /\ used \in Nat /\ used <= Map!Room
      /\ \A i \in 1 .. used : entries[i] \in Entries /\ entries[i].first \in Keys /\ entries[i].first \in Int
  BY CellTyped DEF Sorted
<1>1. CASE Map!Has(k)
  BY <1>0, <1>1, FindIs DEF Map!Slot, Ordered, Sorted, Map!Room, Map!WalksInOrder
<1>2. CASE ~Map!Has(k)
  <2> DEFINE p == Map!Place(k)
             r == Map!Roomy
             c == Map!Opened(k)
  <2>1. /\ p \in 1 .. used + 1
        /\ \A i \in 1 .. used : i < p => entries[i].first < k
        /\ \A i \in 1 .. used : i >= p => k < entries[i].first
    BY <1>2, PlaceIs
  <2>2. /\ r \in Seq(Entries) /\ used + 1 <= Len(r) /\ \A i \in 1 .. used : r[i] = entries[i]
    BY RoomyIs
  <2>3. c = [i \in DOMAIN r |-> CASE i = p -> [r[i] EXCEPT !.first = k]
                                  [] i > p /\ i <= used + 1 -> r[i - 1]
                                  [] OTHER -> r[i]]
    BY DEF Map!Opened
  <2>4. Map!Slot(k) = [cells |-> c, at |-> p, used |-> used + 1]
    BY <1>2 DEF Map!Slot
  <2> HIDE DEF p, r, c
  <2>5. /\ Len(r) \in Nat /\ DOMAIN r = 1 .. Len(r) /\ \A i \in 1 .. Len(r) : r[i] \in Entries
        /\ k \in Int
    BY <2>2, MapAssumption
  <2>6. /\ DOMAIN c = 1 .. Len(r)
        /\ \A i \in 1 .. used + 1 : /\ i < p => c[i] = entries[i] /\ i \in 1 .. used
                                    /\ i > p => c[i] = entries[i - 1] /\ i - 1 \in 1 .. used
        /\ c[p].first = k
    <3>1. p \in 1 .. Len(r) /\ r[p] \in Entries
      BY <1>0, <2>1, <2>2, <2>5
    <3>2. c[p] = [r[p] EXCEPT !.first = k]
      BY <2>3, <2>5, <3>1
    <3>3. c[p].first = k
      BY <3>1, <3>2 DEF Entries
    <3>4. ASSUME NEW i \in 1 .. used + 1, i < p PROVE c[i] = entries[i] /\ i \in 1 .. used
      BY <1>0, <2>1, <2>2, <2>3, <2>5, <3>4
    <3>5. ASSUME NEW i \in 1 .. used + 1, i > p PROVE c[i] = entries[i - 1] /\ i - 1 \in 1 .. used
      BY <1>0, <2>1, <2>2, <2>3, <2>5, <3>5
    <3> QED BY <2>3, <2>5, <3>3, <3>4, <3>5
  <2>7. c \in Seq(Entries) /\ Len(c) = Len(r)
    <3>1. \A i \in 1 .. Len(r) : c[i] \in Entries
      <4> SUFFICES ASSUME NEW i \in 1 .. Len(r) PROVE c[i] \in Entries
        OBVIOUS
      <4>1. CASE i = p
        BY <2>3, <2>5, <4>1 DEF Entries
      <4>2. CASE i > p /\ i <= used + 1
        <5>1. i - 1 \in 1 .. Len(r)
          BY <1>0, <2>1, <2>5, <4>2
        <5>2. c[i] = r[i - 1]
          BY <2>3, <2>5, <4>2, <2>1
        <5> QED BY <2>5, <5>1, <5>2
      <4>3. CASE i # p /\ ~(i > p /\ i <= used + 1)
        <5>1. c[i] = r[i]
          BY <2>3, <2>5, <4>3
        <5> QED BY <2>5, <5>1
      <4> QED BY <4>1, <4>2, <4>3
    <3>2. c = [i \in 1 .. Len(r) |-> c[i]]
      BY <2>3, <2>5
    <3> QED BY <2>5, <3>1, <3>2
  <2>8. \A i \in 1 .. used + 1 : c[i].first \in Keys
    <3> SUFFICES ASSUME NEW i \in 1 .. used + 1 PROVE c[i].first \in Keys
      OBVIOUS
    <3> QED BY <1>0, <2>1, <2>6
  <2>9. ASSUME NEW i \in 1 .. used + 1, NEW j \in 1 .. used + 1, i < j
        PROVE  c[i].first < c[j].first
    <3>1. \A a, b \in 1 .. used : a < b => entries[a].first < entries[b].first
      BY DEF Sorted, Map!WalksInOrder
    <3>2. CASE i = p
      <4>1. c[j] = entries[j - 1] /\ j - 1 \in 1 .. used /\ j - 1 >= p
        BY <1>0, <2>1, <2>6, <2>9, <3>2
      <4> QED BY <2>1, <2>6, <3>2, <4>1
    <3>3. CASE j = p
      <4>1. c[i] = entries[i] /\ i \in 1 .. used /\ i < p
        BY <1>0, <2>1, <2>6, <2>9, <3>3
      <4> QED BY <2>1, <2>6, <3>3, <4>1
    <3>4. CASE j < p
      <4>1. c[i] = entries[i] /\ c[j] = entries[j] /\ i \in 1 .. used /\ j \in 1 .. used
        BY <1>0, <2>1, <2>6, <2>9, <3>4
      <4> QED BY <2>9, <3>1, <4>1
    <3>5. CASE i > p
      <4>1. c[i] = entries[i - 1] /\ c[j] = entries[j - 1] /\ i - 1 \in 1 .. used /\ j - 1 \in 1 .. used
        BY <1>0, <2>1, <2>6, <2>9, <3>5
      <4> QED BY <1>0, <2>9, <3>1, <4>1
    <3>6. CASE i < p /\ j > p
      <4>1. /\ c[i] = entries[i] /\ c[j] = entries[j - 1] /\ i \in 1 .. used /\ j - 1 \in 1 .. used
            /\ i < j - 1
        BY <1>0, <2>1, <2>6, <2>9, <3>6
      <4> QED BY <3>1, <4>1
    <3> QED BY <1>0, <2>1, <3>2, <3>3, <3>4, <3>5, <3>6
  <2>10. \A i \in 1 .. used : \E j \in 1 .. used + 1 : c[j] = entries[i]
    <3> SUFFICES ASSUME NEW i \in 1 .. used PROVE \E j \in 1 .. used + 1 : c[j] = entries[i]
      OBVIOUS
    <3>1. CASE i < p
      BY <1>0, <2>6, <3>1
    <3>2. CASE i >= p
      <4>1. i + 1 \in 1 .. used + 1 /\ i + 1 > p /\ (i + 1) - 1 = i
        BY <1>0, <2>1, <3>2
      <4>2. c[i + 1] = entries[i]
        BY <2>6, <4>1
      <4> QED BY <4>1, <4>2
    <3> QED BY <1>0, <2>1, <3>1, <3>2
  <2>11. \A j \in 1 .. used + 1 : j # p => \E i \in 1 .. used : entries[i] = c[j]
    BY <1>0, <2>1, <2>6
  <2>12. Ordered(c, used + 1)
    BY <1>0, <2>2, <2>5, <2>7, <2>8, <2>9 DEF Ordered
  <2> QED BY <1>2, <2>1, <2>4, <2>6, <2>10, <2>11, <2>12
<1>3. QED
  BY <1>1, <1>2

(* Sorted and Ordered say the same of this state.                          *)
LEMMA SortedIs == Sorted <=> Ordered(entries, used)
  BY DEF Sorted, Ordered, Map!Room, Map!WalksInOrder

(* The same of the next state.                                             *)
LEMMA SortedThen == Sorted' <=> Ordered(entries', used')
  BY DEF Sorted, Ordered, Map!Room, Map!WalksInOrder

(* The map as a function: its keys, and the value of each.                 *)
LEMMA HeldIs ==
  Sorted => /\ DOMAIN Map!Held = Got
            /\ Map!Held = [k \in Got |-> Map!Held[k]]
            /\ \A i \in 1 .. used : entries[i].first \in Got /\ Map!Held[entries[i].first] = entries[i].second
<1> SUFFICES ASSUME Sorted
             PROVE  /\ DOMAIN Map!Held = Got
                    /\ Map!Held = [k \in Got |-> Map!Held[k]]
                    /\ \A i \in 1 .. used : entries[i].first \in Got /\ Map!Held[entries[i].first] = entries[i].second
  OBVIOUS
<1>1. Map!Held = [k \in Got |-> entries[Map!Find(k)].second]
  BY DEF Map!Held, Got
<1>2. ASSUME NEW i \in 1 .. used PROVE entries[i].first \in Got /\ Map!Find(entries[i].first) = i
  BY FindIs DEF Got
<1>3. QED
  BY <1>1, <1>2

(* The same of the next state.                                             *)
LEMMA HeldThen ==
  Sorted' => /\ DOMAIN Map!Held' = Got'
             /\ Map!Held' = [k \in Got' |-> Map!Held'[k]]
             /\ \A i \in 1 .. used' : entries'[i].first \in Got' /\ Map!Held'[entries'[i].first] = entries'[i].second
<1>1. (Sorted => /\ DOMAIN Map!Held = Got
            /\ Map!Held = [k \in Got |-> Map!Held[k]]
            /\ \A i \in 1 .. used : entries[i].first \in Got /\ Map!Held[entries[i].first] = entries[i].second)'
  BY HeldIs, PTL
<1>2. QED
  BY <1>1

(* Cells that are moved about keep their keys' values, but for one key.    *)
LEMMA OneChanged ==
  ASSUME Sorted, Sorted', NEW k,
         \A i \in 1 .. used : entries[i].first # k => \E j \in 1 .. used' : entries'[j] = entries[i],
         \A j \in 1 .. used' : entries'[j].first # k => \E i \in 1 .. used : entries[i] = entries'[j]
  PROVE  Got' \ {k} = Got \ {k} /\ \A x \in Got \ {k} : Map!Held'[x] = Map!Held[x]
<1>1. Got' = {entries'[i].first : i \in 1 .. used'} /\ Got = {entries[i].first : i \in 1 .. used}
  BY DEF Got
<1>2. ASSUME NEW x \in Got \ {k} PROVE x \in Got' /\ Map!Held'[x] = Map!Held[x]
  <2>1. PICK i \in 1 .. used : entries[i].first = x
    BY <1>1
  <2>2. PICK j \in 1 .. used' : entries'[j] = entries[i]
    BY <2>1
  <2> QED BY <2>1, <2>2, HeldIs, HeldThen
<1>3. ASSUME NEW x \in Got' \ {k} PROVE x \in Got
  <2>1. PICK j \in 1 .. used' : entries'[j].first = x
    BY <1>1
  <2>2. PICK i \in 1 .. used : entries[i] = entries'[j]
    BY <2>1
  <2> QED BY <1>1, <2>1, <2>2
<1>4. QED
  BY <1>2, <1>3

(* The parts of a call.                                                    *)
LEMMA CallIs ==
  ASSUME mcall \in Calling
  PROVE  /\ mcall.op \in {"write", "insert", "read", "erase", "clear"}
         /\ mcall.op \in {"write", "insert", "read", "erase"} => mcall.k \in Keys
         /\ mcall.op \in {"write", "insert"} => mcall.v \in Scores
  BY DEF Calling

(* m[k] = v.                                                               *)
LEMMA StoredIs ==
  ASSUME Sorted, NEW k \in Keys, NEW v \in Scores, Map!Stored(Map!Slot(k), v)
  PROVE  /\ Sorted'
         /\ Got' = Got \cup {k} /\ Map!Held'[k] = v
         /\ \A x \in Got \ {k} : Map!Held'[x] = Map!Held[x]
<1> DEFINE c == Map!Slot(k).cells
           p == Map!Slot(k).at
           n == Map!Slot(k).used
<1>1. /\ Ordered(c, n) /\ p \in 1 .. n /\ c[p].first = k
      /\ \A i \in 1 .. used : \E j \in 1 .. n : c[j] = entries[i]
      /\ \A j \in 1 .. n : j # p => \E i \in 1 .. used : entries[i] = c[j]
      /\ Map!Has(k) => c = entries /\ n = used
  BY SlotIs
<1>2. entries' = [c EXCEPT ![p].second = v] /\ used' = n
  BY DEF Map!Stored
<1> HIDE DEF c, p, n
<1>3. /\ n \in Nat /\ n <= Len(c) /\ Len(c) \in Nat /\ p \in 1 .. Len(c) /\ DOMAIN c = 1 .. Len(c)
      /\ \A i \in 1 .. Len(c) : c[i] \in Entries
      /\ c \in Seq(Entries)
  BY <1>1 DEF Ordered
<1>4. [c[p] EXCEPT !.second = v] \in Entries /\ [c[p] EXCEPT !.second = v].first = k
      /\ [c[p] EXCEPT !.second = v].second = v
  BY <1>1, <1>3 DEF Entries
<1>5. /\ entries'[p] = [c[p] EXCEPT !.second = v]
      /\ \A i \in 1 .. Len(c) : i # p => entries'[i] = c[i]
      /\ DOMAIN entries' = 1 .. Len(c)
  BY <1>2, <1>3
<1>6. entries' \in Seq(Entries) /\ Len(entries') = Len(c)
  <2>1. entries' = [i \in 1 .. Len(c) |-> entries'[i]]
    BY <1>2, <1>3
  <2>2. \A i \in 1 .. Len(c) : entries'[i] \in Entries
    BY <1>3, <1>4, <1>5
  <2> QED BY <1>3, <2>1, <2>2
<1>7. \A i \in 1 .. n : i \in 1 .. Len(c) /\ entries'[i].first = c[i].first
  <2> SUFFICES ASSUME NEW i \in 1 .. n PROVE i \in 1 .. Len(c) /\ entries'[i].first = c[i].first
    OBVIOUS
  <2>1. i \in 1 .. Len(c)
    BY <1>3
  <2>2. CASE i = p
    BY <1>1, <1>4, <1>5, <2>1, <2>2
  <2>3. CASE i # p
    BY <1>5, <2>1, <2>3
  <2> QED BY <2>1, <2>2, <2>3
<1>8. Sorted'
  <2>1. Ordered(entries', used')
    BY <1>1, <1>2, <1>6, <1>7 DEF Ordered
  <2> QED BY <2>1, SortedThen
<1>9. entries'[p].first = k /\ entries'[p].second = v /\ p \in 1 .. used'
  BY <1>1, <1>2, <1>4, <1>5
<1>10. k \in Got' /\ Map!Held'[k] = v
  BY <1>8, <1>9, HeldThen
<1>11. \A i \in 1 .. used : entries[i].first # k => \E j \in 1 .. used' : entries'[j] = entries[i]
  BY <1>1, <1>2, <1>5, <1>7
<1>12. \A j \in 1 .. used' : entries'[j].first # k => \E i \in 1 .. used : entries[i] = entries'[j]
  BY <1>1, <1>2, <1>5, <1>7, <1>9
<1>13. Got' \ {k} = Got \ {k} /\ \A x \in Got \ {k} : Map!Held'[x] = Map!Held[x]
  <2> HIDE DEF Got, Map!Held, Sorted
  <2> QED BY <1>8, <1>11, <1>12, OneChanged
<1>14. QED
  BY <1>8, <1>10, <1>13

(* erase: the entries after the key come down one; the others stay.        *)
LEMMA ErasedIs ==
  ASSUME Sorted, NEW k \in Keys, Map!Has(k),
         entries' = [i \in DOMAIN entries |-> IF i >= Map!Find(k) /\ i < used THEN entries[i + 1] ELSE entries[i]],
         used' = used - 1
  PROVE  /\ Sorted'
         /\ Got' = Got \ {k}
         /\ \A x \in Got \ {k} : Map!Held'[x] = Map!Held[x]
<1> DEFINE p == Map!Find(k)
<1>1. p \in 1 .. used /\ entries[p].first = k /\ \A i \in 1 .. used : entries[i].first = k => p = i
  BY FindIs
<1>2. /\ Map!Room \in Nat /\ used \in Nat /\ used <= Map!Room /\ DOMAIN entries = 1 .. Map!Room
      /\ Map!Room = Len(entries)
      /\ \A i \in 1 .. Map!Room : entries[i] \in Entries
      /\ \A i \in 1 .. used : entries[i].first \in Keys
      /\ \A i, j \in 1 .. used : i < j => entries[i].first < entries[j].first
  BY CellTyped DEF Sorted, Map!WalksInOrder, Map!Room
<1>3. entries' = [i \in 1 .. Map!Room |-> IF i >= p /\ i < used THEN entries[i + 1] ELSE entries[i]]
  BY <1>2
<1> HIDE DEF p
<1>4. \A i \in 1 .. Map!Room : entries'[i] = IF i >= p /\ i < used THEN entries[i + 1] ELSE entries[i]
  BY <1>3
<1>5. entries' \in Seq(Entries) /\ Len(entries') = Map!Room
  <2>1. \A i \in 1 .. Map!Room : (IF i >= p /\ i < used THEN entries[i + 1] ELSE entries[i]) \in Entries
    BY <1>1, <1>2
  <2> QED BY <1>2, <1>3, <2>1
<1>6. used' \in 0 .. Map!Room /\ \A i \in 1 .. used' : i \in 1 .. Map!Room /\ i \in 1 .. used /\ i + 1 \in 1 .. used
  BY <1>1, <1>2
<1>7. ASSUME NEW i \in 1 .. used'
      PROVE  entries'[i] = IF i < p THEN entries[i] ELSE entries[i + 1]
  BY <1>1, <1>2, <1>4, <1>6
<1>8. \A i \in 1 .. used' : entries'[i].first \in Keys
  BY <1>2, <1>6, <1>7
<1>9. ASSUME NEW i \in 1 .. used', NEW j \in 1 .. used', i < j
      PROVE  entries'[i].first < entries'[j].first
  <2>a. i \in 1 .. used /\ j \in 1 .. used /\ i + 1 \in 1 .. used /\ j + 1 \in 1 .. used
    BY <1>6
  <2>b. i \in Int /\ j \in Int /\ p \in Int
    BY <1>1, <1>2, <2>a
  <2>c. /\ entries'[i] = IF i < p THEN entries[i] ELSE entries[i + 1]
        /\ entries'[j] = IF j < p THEN entries[j] ELSE entries[j + 1]
    BY <1>7
  <2>0. /\ i \in 1 .. used /\ j \in 1 .. used /\ i + 1 \in 1 .. used /\ j + 1 \in 1 .. used
        /\ i \in Int /\ j \in Int /\ p \in Int
        /\ entries'[i] = IF i < p THEN entries[i] ELSE entries[i + 1]
        /\ entries'[j] = IF j < p THEN entries[j] ELSE entries[j + 1]
    BY <2>a, <2>b, <2>c
  <2>1. CASE j < p
    <3>1. i < p /\ entries'[i] = entries[i] /\ entries'[j] = entries[j]
      BY <1>9, <2>0, <2>1
    <3> QED BY <1>2, <1>9, <2>0, <3>1
  <2>2. CASE ~(i < p)
    <3>1. i + 1 < j + 1 /\ ~(j < p)
      BY <1>9, <2>0, <2>2
    <3>2. entries'[i] = entries[i + 1] /\ entries'[j] = entries[j + 1]
      BY <2>0, <2>2, <3>1
    <3> QED BY <1>2, <2>0, <3>1, <3>2
  <2>3. CASE i < p /\ ~(j < p)
    <3>1. i < j + 1 /\ entries'[i] = entries[i] /\ entries'[j] = entries[j + 1]
      BY <1>9, <2>0, <2>3
    <3> QED BY <1>2, <2>0, <3>1
  <2> QED BY <2>1, <2>2, <2>3
<1>10. Sorted'
  <2>1. Ordered(entries', used')
    BY <1>5, <1>6, <1>8, <1>9 DEF Ordered
  <2> QED BY <2>1, SortedThen
<1>11. \A i \in 1 .. used : entries[i].first # k => \E j \in 1 .. used' : entries'[j] = entries[i]
  <2> SUFFICES ASSUME NEW i \in 1 .. used, entries[i].first # k PROVE \E j \in 1 .. used' : entries'[j] = entries[i]
    OBVIOUS
  <2>1. i # p
    BY <1>1
  <2>2. CASE i < p
    <3>1. i \in 1 .. used'
      BY <1>1, <1>2, <2>2
    <3>2. entries'[i] = entries[i]
      BY <1>7, <2>2, <3>1
    <3> QED BY <3>1, <3>2
  <2>3. CASE i > p
    <3> DEFINE j == i - 1
    <3>1. j \in 1 .. used' /\ ~(j < p) /\ j + 1 = i
      BY <1>1, <1>2, <2>3
    <3>2. entries'[j] = entries[i]
      BY <1>7, <3>1
    <3> QED BY <3>1, <3>2
  <2> QED BY <1>1, <2>1, <2>2, <2>3
<1>12. \A j \in 1 .. used' : \E i \in 1 .. used : entries[i] = entries'[j] /\ i # p
  BY <1>1, <1>6, <1>7
<1>13. Got' \ {k} = Got \ {k} /\ \A x \in Got \ {k} : Map!Held'[x] = Map!Held[x]
  BY <1>10, <1>11, <1>12, OneChanged
<1>14. k \notin Got'
  <2>1. \A j \in 1 .. used' : entries'[j].first # k
    BY <1>1, <1>12
  <2> QED BY <2>1 DEF Got
<1>15. QED
  BY <1>10, <1>13, <1>14

(* The map is the function it was.                                         *)
Same == Sorted' /\ Got' = Got /\ \A x \in Got : Map!Held'[x] = Map!Held[x]

(* Storage that is left alone holds the same map.                          *)
LEMMA Unchanged == Sorted /\ UNCHANGED <<entries, used>> => Same /\ Map!Held' = Map!Held
<1> SUFFICES ASSUME Sorted, UNCHANGED <<entries, used>> PROVE Same /\ Map!Held' = Map!Held
  OBVIOUS
<1>1. Sorted'
  BY SortedIs, SortedThen
<1>2. Got' = Got /\ Map!Held' = Map!Held
  BY DEF Got, Map!Held, Map!Find
<1>3. QED
  BY <1>1, <1>2 DEF Same

(* A key is there still if the array is left alone.                        *)
LEMMA HasThen == UNCHANGED <<entries, used>> => \A k : Map!Has(k)' <=> Map!Has(k)
  BY DEF Map!Has, Map!Find

(* x = m[k] of a key that is there.                                        *)
LEMMA ReadIs ==
  ASSUME Sorted, mcall \in Calling, Map!read, ReadsFind
  PROVE  /\ UNCHANGED <<entries, used>> /\ mcall' = Idle
         /\ mcall.k \in Got /\ given' = Map!Held[mcall.k]
<1>1. Map!Has(mcall.k)
  BY DEF ReadsFind, Map!read, Map!Making
<1>2. Map!Slot(mcall.k) = [cells |-> entries, at |-> Map!Find(mcall.k), used |-> used]
  BY <1>1 DEF Map!Slot
<1>3. UNCHANGED <<entries, used>> /\ given' = entries[Map!Find(mcall.k)].second /\ mcall' = Idle
  BY <1>2 DEF Map!read
<1>4. mcall.k \in Got /\ Map!Held[mcall.k] = entries[Map!Find(mcall.k)].second
  <2>1. Map!Find(mcall.k) \in 1 .. used /\ entries[Map!Find(mcall.k)].first = mcall.k
    BY <1>1, FindIs
  <2> QED BY <2>1, HeldIs
<1>5. QED
  BY <1>3, <1>4

(* One step of the map keeps the invariant and is one of the dictionary's. *)
LEMMA MapStep ==
  ASSUME MapInv, [Map!Next]_(Map!vars)
  PROVE  MapInv' /\ [Map!Promise!Next]_(Map!Promise!vars)
<1> USE DEF Map!Promise!vars
<1>0. Sorted /\ mcall \in Calling \cup {Idle} /\ ReadsFind
  BY DEF MapInv, MapTypes, Sorted
<1>a. ASSUME Sorted', mcall' = Idle PROVE MapInv'
  <2>1. Idle \notin Calling
    BY MapAssumption DEF Calling
  <2> QED BY <1>a, <2>1 DEF MapInv, MapTypes, Sorted, ReadsFind
<1>1. CASE UNCHANGED Map!vars
  <2>1. Sorted' /\ Map!Held' = Map!Held
    BY <1>0, <1>1, Unchanged DEF Map!vars, Same
  <2>2. MapInv'
    BY <1>0, <1>1, <2>1, HasThen DEF Map!vars, MapInv, MapTypes, Sorted, ReadsFind
  <2> QED BY <1>1, <2>1, <2>2 DEF Map!vars
<1>2. CASE Map!Begin
  <2>1. Sorted' /\ Map!Held' = Map!Held
    BY <1>0, <1>2, Unchanged DEF Map!Begin, Same
  <2>2. mcall' \in Calling
    BY <1>2 DEF Map!Begin, Map!Calls, Calling
  <2>3. mcall'.op = "read" => Map!Has(mcall'.k)
    BY <1>2 DEF Map!Begin, Map!Calls
  <2>4. MapInv'
    BY <1>2, <2>1, <2>2, <2>3, HasThen DEF Map!Begin, MapInv, MapTypes, Sorted, ReadsFind
  <2>5. mcall' # Idle
    BY <2>2, MapAssumption DEF Calling
  <2>6. Map!Promise!Begin
    BY <1>2, <2>1, <2>5 DEF Map!Begin, Map!Promise!Begin
  <2> QED BY <2>4, <2>6 DEF Map!Promise!Next
<1>b. ASSUME ~Map!Begin, mcall # Idle
      PROVE  mcall \in Calling /\ mcall.op \in {"write", "insert", "read", "erase", "clear"}
  BY <1>0, <1>b, CallIs
<1>3. CASE Map!write
  <2>1. /\ mcall.op = "write" /\ mcall.k \in Keys /\ mcall.v \in Scores /\ mcall # Idle
        /\ Map!Stored(Map!Slot(mcall.k), mcall.v)
    BY <1>0, <1>3, CallIs DEF Map!write, Map!Making
  <2>2. /\ Sorted' /\ Got' = Got \cup {mcall.k} /\ Map!Held'[mcall.k] = mcall.v
        /\ \A x \in Got \ {mcall.k} : Map!Held'[x] = Map!Held[x]
    BY <1>0, <2>1, StoredIs
  <2>3. mcall' = Idle /\ given' = Idle
    BY <2>1 DEF Map!Stored
  <2>4. Map!Held' = Map!Promise!With(mcall.k, mcall.v)
    BY <1>0, <2>2, HeldIs, HeldThen DEF Map!Promise!With
  <2> QED BY <1>a, <2>1, <2>2, <2>3, <2>4 DEF Map!Promise!Next, Map!Promise!Perform, Map!Promise!Write
<1>4. CASE Map!insert /\ Map!Has(mcall.k)
  <2>1. /\ mcall.op = "insert" /\ mcall.k \in Keys /\ mcall # Idle /\ UNCHANGED <<entries, used>>
        /\ given' = Idle /\ mcall' = Idle
    BY <1>0, <1>4, CallIs DEF Map!insert, Map!Making
  <2>2. Sorted' /\ Map!Held' = Map!Held
    BY <1>0, <2>1, Unchanged DEF Same
  <2>3. mcall.k \in Got
    BY <1>0, <1>4, FindIs
  <2>4. Map!Held' = Map!Promise!Added(mcall.k, mcall.v)
    BY <1>0, <2>2, <2>3, HeldIs DEF Map!Promise!Added
  <2> QED BY <1>a, <2>1, <2>2, <2>4 DEF Map!Promise!Next, Map!Promise!Perform, Map!Promise!Insert
<1>5. CASE Map!insert /\ ~Map!Has(mcall.k)
  <2>1. /\ mcall.op = "insert" /\ mcall.k \in Keys /\ mcall.v \in Scores /\ mcall # Idle
        /\ Map!Stored(Map!Slot(mcall.k), mcall.v)
    BY <1>0, <1>5, CallIs DEF Map!insert, Map!Making
  <2>2. /\ Sorted' /\ Got' = Got \cup {mcall.k} /\ Map!Held'[mcall.k] = mcall.v
        /\ \A x \in Got \ {mcall.k} : Map!Held'[x] = Map!Held[x]
    BY <1>0, <2>1, StoredIs
  <2>3. mcall' = Idle /\ given' = Idle
    BY <2>1 DEF Map!Stored
  <2>4. mcall.k \notin Got
    BY <1>0, <1>5, FindIs
  <2>5. Map!Held' = Map!Promise!Added(mcall.k, mcall.v)
    BY <1>0, <2>2, <2>4, HeldIs, HeldThen DEF Map!Promise!Added, Map!Promise!With
  <2> QED BY <1>a, <2>1, <2>2, <2>3, <2>5 DEF Map!Promise!Next, Map!Promise!Perform, Map!Promise!Insert
<1>6. CASE Map!read
  <2>1. mcall.op = "read" /\ mcall # Idle /\ mcall \in Calling
    BY <1>0, <1>6 DEF Map!read, Map!Making
  <2>2. UNCHANGED <<entries, used>> /\ mcall' = Idle /\ mcall.k \in Got /\ given' = Map!Held[mcall.k]
    BY <1>0, <1>6, <2>1, ReadIs
  <2>3. Sorted' /\ Map!Held' = Map!Held
    BY <1>0, <2>2, Unchanged DEF Same
  <2>4. Map!Held' = Map!Promise!Added(mcall.k, NoScore)
    BY <1>0, <2>2, <2>3, HeldIs DEF Map!Promise!Added
  <2> QED BY <1>a, <2>1, <2>2, <2>3, <2>4 DEF Map!Promise!Next, Map!Promise!Perform, Map!Promise!Read
<1>7. CASE Map!erase /\ Map!Has(mcall.k)
  <2>1. mcall.op = "erase" /\ mcall.k \in Keys /\ mcall # Idle /\ given' = Idle /\ mcall' = Idle
    BY <1>0, <1>7, CallIs DEF Map!erase, Map!Making
  <2>2. /\ Sorted' /\ Got' = Got \ {mcall.k} /\ \A x \in Got \ {mcall.k} : Map!Held'[x] = Map!Held[x]
    BY <1>0, <1>7, <2>1, ErasedIs DEF Map!erase
  <2>3. Map!Held' = [k \in DOMAIN Map!Held \ {mcall.k} |-> Map!Held[k]]
    BY <1>0, <2>2, HeldIs, HeldThen
  <2> QED BY <1>a, <2>1, <2>2, <2>3 DEF Map!Promise!Next, Map!Promise!Perform, Map!Promise!Erase
<1>8. CASE Map!erase /\ ~Map!Has(mcall.k)
  <2>1. /\ mcall.op = "erase" /\ mcall # Idle /\ UNCHANGED <<entries, used>> /\ given' = Idle
        /\ mcall' = Idle
    BY <1>8 DEF Map!erase, Map!Making
  <2>2. Sorted' /\ Map!Held' = Map!Held
    BY <1>0, <2>1, Unchanged DEF Same
  <2>3. mcall.k \notin Got
    BY <1>0, <1>8, FindIs
  <2>4. Map!Held' = [k \in DOMAIN Map!Held \ {mcall.k} |-> Map!Held[k]]
    BY <1>0, <2>2, <2>3, HeldIs
  <2> QED BY <1>a, <2>1, <2>2, <2>4 DEF Map!Promise!Next, Map!Promise!Perform, Map!Promise!Erase
<1>9. CASE Map!clear
  <2>1. /\ mcall.op = "clear" /\ mcall # Idle /\ given' = Idle /\ mcall' = Idle
        /\ entries' = entries /\ used' = 0
    BY <1>9 DEF Map!clear, Map!Making
  <2>2. Sorted'
    <3>1. Ordered(entries', used')
      BY <1>0, <2>1 DEF Sorted, Ordered, Map!Room
    <3> QED BY <3>1, SortedThen
  <2>3. Map!Held' = <<>>
    <3>1. Map!Held' = [k \in Got' |-> Map!Held'[k]] /\ Got' = {}
      BY <2>1, <2>2, HeldThen DEF Got
    <3> QED BY <3>1
  <2> QED BY <1>a, <2>1, <2>2, <2>3 DEF Map!Promise!Next, Map!Promise!Perform, Map!Promise!Clear
<1>10. QED
  BY <1>1, <1>2, <1>3, <1>4, <1>5, <1>6, <1>7, <1>8, <1>9 DEF Map!Next

(* The first state of a map.                                               *)
LEMMA MapBegins == Map!Init => MapInv /\ Map!Promise!Init
<1> SUFFICES ASSUME Map!Init PROVE MapInv /\ Map!Promise!Init
  OBVIOUS
<1>1. entries = <<>> /\ used = 0 /\ mcall = Idle /\ given = Idle
  BY DEF Map!Init
<1>2. Sorted
  BY <1>1 DEF Sorted, Map!Room, Map!WalksInOrder
<1>3. MapInv
  <2>1. Idle \notin Calling
    BY MapAssumption DEF Calling
  <2> QED BY <1>1, <1>2, <2>1 DEF MapInv, MapTypes, Sorted, ReadsFind
<1>4. Map!Held = <<>>
  <2>1. Map!Held = [k \in Got |-> Map!Held[k]] /\ Got = {}
    BY <1>1, <1>2, HeldIs DEF Got
  <2> QED BY <2>1
<1>5. QED
  BY <1>1, <1>3, <1>4 DEF Map!Promise!Init

(* The keys of a map are in order, whatever calls are made on it (__slot,  *)
(* erase).                                                                 *)
THEOREM MapWalksInOrder == Map!Spec => []Map!WalksInOrder
<1>1. MapInv /\ [Map!Next]_(Map!vars) => MapInv'
  BY MapStep
<1>2. MapInv => Map!WalksInOrder
  BY DEF MapInv
<1>3. Map!Init => MapInv
  BY MapBegins
<1>4. QED
  BY <1>1, <1>2, <1>3, PTL DEF Map!Spec

(* Whatever cells its entries move through, a map is the function C++ says *)
(* it is.                                                                  *)
THEOREM MapIsADictionary == Map!Spec => Map!IsADictionary
<1>1. MapInv /\ [Map!Next]_(Map!vars) => MapInv' /\ [Map!Promise!Next]_(Map!Promise!vars)
  BY MapStep
<1>2. Map!Init => MapInv /\ Map!Promise!Init
  BY MapBegins
<1>3. QED
  BY <1>1, <1>2, PTL DEF Map!Spec, Map!IsADictionary, Map!Promise!Spec

-----------------------------------------------------------------------------
(* Cells from 0 to n - 1.                                                  *)
Cells(c, n) == n \in Nat /\ c = [i \in 0 .. n - 1 |-> c[i]] /\ (n = 0 => c = <<>>)

(* The room of an array of n cells is n.                                   *)
LEMMA RoomOfCells ==
  ASSUME NEW c, NEW n, Cells(c, n)
  PROVE  Deque!RoomOf(c) = n /\ DOMAIN c = 0 .. n - 1
<1>1. DOMAIN c = 0 .. n - 1 /\ n \in Nat
  BY DEF Cells
<1>2. CASE n = 0
  BY <1>1, <1>2 DEF Cells, Deque!RoomOf
<1>3. CASE n # 0
  <2>1. n - 1 \in DOMAIN c /\ (n - 1) + 1 \notin DOMAIN c
    BY <1>1, <1>3
  <2>2. \A i \in DOMAIN c : i + 1 \notin DOMAIN c => i = n - 1
    BY <1>1, <1>3
  <2>3. (CHOOSE i \in DOMAIN c : i + 1 \notin DOMAIN c) = n - 1
    BY <2>1, <2>2
  <2>4. c # <<>>
    <3>1. 0 \in DOMAIN c
      BY <1>1, <1>3
    <3> QED BY <3>1
  <2> DEFINE edge == CHOOSE i \in DOMAIN c : i + 1 \notin DOMAIN c
  <2>5. Deque!RoomOf(c) = 1 + edge
    BY <2>4, Zenon DEF Deque!RoomOf
  <2>6. edge = n - 1
    BY <2>3, Zenon
  <2> HIDE DEF edge
  <2> QED BY <1>1, <2>5, <2>6
<1>4. QED
  BY <1>2, <1>3

(* Moved down, cell by cell from the first: nothing is lost.               *)
LEMMA MovedDownIs ==
  ASSUME NEW c, NEW r, Cells(c, r), NEW by \in Nat, NEW n \in Nat, by + n <= r
  PROVE  /\ Cells(Deque!MovedDown(c, by, n), r)
         /\ \A i \in 0 .. n - 1 : Deque!MovedDown(c, by, n)[i] = c[by + i]
<1> DEFINE Follows(s) == s = [i \in 0 .. n |-> IF i = 0 THEN c ELSE [s[i - 1] EXCEPT ![i - 1] = s[i - 1][by + i - 1]]]
           After(i) == [j \in 0 .. r - 1 |-> IF j < i THEN c[by + j] ELSE c[j]]
           s == CHOOSE s : Follows(s)
<1>1. Deque!MovedDown(c, by, n) = s[n]
  BY DEF Deque!MovedDown
<1>2. c = [j \in 0 .. r - 1 |-> c[j]] /\ r \in Nat /\ (r = 0 => c = <<>>)
  BY DEF Cells
<1>3. \E f : Follows(f)
  <2> DEFINE f == [i \in 0 .. n |-> After(i)]
  <2>1. After(0) = c
    BY <1>2
  <2>2. ASSUME NEW i \in 0 .. n, i # 0
        PROVE  f[i] = [f[i - 1] EXCEPT ![i - 1] = f[i - 1][by + i - 1]]
    <3>1. i - 1 \in 0 .. n /\ i - 1 \in 0 .. r - 1 /\ by + i - 1 \in 0 .. r - 1 /\ by + i - 1 >= i - 1
      BY <1>2, <2>2
    <3>2. f[i - 1] = After(i - 1) /\ f[i] = After(i)
      BY <3>1
    <3>3. After(i - 1)[by + i - 1] = c[by + i - 1]
      BY <3>1
    <3>4. [After(i - 1) EXCEPT ![i - 1] = c[by + i - 1]] = After(i)
      <4>1. \A j \in 0 .. r - 1 : (IF j = i - 1 THEN c[by + i - 1] ELSE After(i - 1)[j]) = After(i)[j]
        BY <1>2, <3>1
      <4> QED BY <3>1, <4>1
    <3> QED BY <3>2, <3>3, <3>4
  <2>3. \A i \in 0 .. n : f[i] = IF i = 0 THEN c ELSE [f[i - 1] EXCEPT ![i - 1] = f[i - 1][by + i - 1]]
    <3>1. f[0] = After(0)
      OBVIOUS
    <3> HIDE DEF f, After
    <3> QED BY <2>1, <2>2, <3>1
  <2>4. f = [i \in 0 .. n |-> f[i]]
    OBVIOUS
  <2> HIDE DEF f
  <2>5. Follows(f)
    BY <2>3, <2>4
  <2> QED BY <2>5
<1>4. Follows(s)
  <2> HIDE DEF Follows
  <2> QED BY <1>3, Zenon
<1> HIDE DEF s
<1>5. \A i \in 0 .. n : s[i] = IF i = 0 THEN c ELSE [s[i - 1] EXCEPT ![i - 1] = s[i - 1][by + i - 1]]
  BY <1>4
<1> DEFINE S == {i \in Nat : i <= n => s[i] = After(i)}
<1>6. 0 \in S
  <2>1. After(0) = c
    BY <1>2
  <2>2. s[0] = c
    <3>1. 0 \in 0 .. n
      OBVIOUS
    <3> QED BY <1>5, <3>1
  <2> QED BY <2>1, <2>2
<1>7. ASSUME NEW k \in Nat, k \in S PROVE k + 1 \in S
  <2> SUFFICES ASSUME k + 1 <= n PROVE s[k + 1] = After(k + 1)
    BY <1>7
  <2>1. s[k] = After(k) /\ k \in 0 .. r - 1 /\ by + k \in 0 .. r - 1 /\ by + k >= k
    BY <1>2, <1>7
  <2>2. s[k + 1] = [s[k] EXCEPT ![k] = s[k][by + k]]
    <3>1. k + 1 \in 0 .. n /\ (k + 1) - 1 = k /\ by + (k + 1) - 1 = by + k /\ k + 1 # 0
      OBVIOUS
    <3> QED BY <1>5, <3>1
  <2>3. s[k][by + k] = c[by + k]
    BY <2>1
  <2>4. [After(k) EXCEPT ![k] = c[by + k]] = After(k + 1)
    <3>1. \A j \in 0 .. r - 1 : (IF j = k THEN c[by + k] ELSE After(k)[j]) = After(k + 1)[j]
      BY <1>2, <2>1
    <3> QED BY <2>1, <3>1
  <2> QED BY <2>1, <2>2, <2>3, <2>4
<1>8. s[n] = After(n)
  <2>1. n \in S
    <3> HIDE DEF S
    <3> QED BY <1>6, <1>7, SetInduction
  <2> QED BY <2>1
<1>9. Cells(After(n), r)
  <2>1. r = 0 => After(n) = <<>>
    BY <1>2
  <2> QED BY <1>2, <2>1 DEF Cells
<1>10. \A i \in 0 .. n - 1 : After(n)[i] = c[by + i]
  BY <1>2
<1>11. QED
  BY <1>1, <1>8, <1>9, <1>10

(* Moved up, from the last.                                                *)
LEMMA MovedUpIs ==
  ASSUME NEW c, NEW r, Cells(c, r), NEW by \in Nat, NEW n \in Nat, by + n <= r
  PROVE  /\ Cells(Deque!MovedUp(c, by, n), r)
         /\ \A i \in 0 .. n - 1 : Deque!MovedUp(c, by, n)[by + i] = c[i]
<1> DEFINE Follows(s) == s = [i \in 0 .. n |-> IF i = 0 THEN c ELSE [s[i - 1] EXCEPT ![n - i + by] = s[i - 1][n - i]]]
           After(i) == [j \in 0 .. r - 1 |-> IF j >= n - i + by /\ j < n + by THEN c[j - by] ELSE c[j]]
           s == CHOOSE s : Follows(s)
<1>1. Deque!MovedUp(c, by, n) = s[n]
  BY DEF Deque!MovedUp
<1>2. c = [j \in 0 .. r - 1 |-> c[j]] /\ r \in Nat /\ (r = 0 => c = <<>>)
  BY DEF Cells
<1>a. ASSUME NEW k \in Nat, k + 1 <= n
      PROVE  [After(k) EXCEPT ![n - (k + 1) + by] = After(k)[n - (k + 1)]] = After(k + 1)
  <2> DEFINE a == n - (k + 1)
  <2>1. a \in 0 .. r - 1 /\ a + by \in 0 .. r - 1 /\ a \in Nat /\ a < n - k + by /\ a + by < n - k + by
    BY <1>2, <1>a
  <2>2. After(k)[a] = c[a]
    BY <1>2, <2>1
  <2>3. \A j \in 0 .. r - 1 : (IF j = a + by THEN c[a] ELSE After(k)[j]) = After(k + 1)[j]
    BY <1>2, <2>1
  <2>4. [After(k) EXCEPT ![a + by] = c[a]] = After(k + 1)
    BY <2>1, <2>3
  <2> QED BY <2>2, <2>4
<1>b. After(0) = c
  BY <1>2
<1>3. \E f : Follows(f)
  <2> DEFINE f == [i \in 0 .. n |-> After(i)]
  <2>2. ASSUME NEW i \in 0 .. n, i # 0
        PROVE  f[i] = [f[i - 1] EXCEPT ![n - i + by] = f[i - 1][n - i]]
    <3> DEFINE k == i - 1
    <3>1. k \in 0 .. n /\ k \in Nat /\ k + 1 <= n /\ k + 1 = i
      BY <2>2
    <3>2. f[k] = After(k) /\ f[i] = After(k + 1)
      BY <3>1
    <3> QED BY <1>a, <3>1, <3>2
  <2>3. \A i \in 0 .. n : f[i] = IF i = 0 THEN c ELSE [f[i - 1] EXCEPT ![n - i + by] = f[i - 1][n - i]]
    BY <1>b, <2>2
  <2>4. f = [i \in 0 .. n |-> f[i]]
    OBVIOUS
  <2> HIDE DEF f
  <2>5. Follows(f)
    BY <2>3, <2>4
  <2> QED BY <2>5
<1>4. Follows(s)
  <2> HIDE DEF Follows
  <2> QED BY <1>3, Zenon
<1> HIDE DEF s
<1>5. \A i \in 0 .. n : s[i] = IF i = 0 THEN c ELSE [s[i - 1] EXCEPT ![n - i + by] = s[i - 1][n - i]]
  BY <1>4
<1> DEFINE S == {i \in Nat : i <= n => s[i] = After(i)}
<1>6. 0 \in S
  <2>2. s[0] = c
    <3>1. 0 \in 0 .. n
      OBVIOUS
    <3> QED BY <1>5, <3>1
  <2> QED BY <1>b, <2>2
<1>7. ASSUME NEW k \in Nat, k \in S PROVE k + 1 \in S
  <2> SUFFICES ASSUME k + 1 <= n PROVE s[k + 1] = After(k + 1)
    BY <1>7
  <2>1. s[k] = After(k)
    BY <1>7
  <2>2. s[k + 1] = [s[k] EXCEPT ![n - (k + 1) + by] = s[k][n - (k + 1)]]
    <3>1. k + 1 \in 0 .. n /\ (k + 1) - 1 = k /\ k + 1 # 0
      OBVIOUS
    <3> QED BY <1>5, <3>1
  <2> QED BY <1>a, <2>1, <2>2
<1>8. s[n] = After(n)
  <2>1. n \in S
    <3> HIDE DEF S
    <3> QED BY <1>6, <1>7, SetInduction
  <2> QED BY <2>1
<1>9. Cells(After(n), r)
  <2>1. r = 0 => After(n) = <<>>
    BY <1>2
  <2> QED BY <1>2, <2>1 DEF Cells
<1>10. \A i \in 0 .. n - 1 : After(n)[by + i] = c[i]
  BY <1>2
<1>11. QED
  BY <1>1, <1>8, <1>9, <1>10

(* The elements are in the array, the deque's start is in it or at its     *)
(* end, and a call that is being made is one that may be made.             *)
DequeTypes ==
  /\ first \in [Deques -> Nat] /\ length \in [Deques -> Nat]
  /\ cells = [o \in Deques |-> cells[o]]
  /\ \A o \in Deques : \E r : Cells(cells[o], r)

DequeAsked == dcall # Idle => \E o \in Deques : dcall \in Deque!Calls(o)

DequeInv == DequeTypes /\ Deque!StaysInside /\ DequeAsked

(* The array a deque has.                                                  *)
LEMMA RoomIs ==
  ASSUME DequeTypes, NEW o \in Deques
  PROVE  /\ Cells(cells[o], Deque!Room(o)) /\ Deque!Room(o) \in Nat
         /\ DOMAIN cells[o] = 0 .. Deque!Room(o) - 1
<1>1. PICK r : Cells(cells[o], r)
  BY DEF DequeTypes
<1>2. Deque!RoomOf(cells[o]) = r /\ DOMAIN cells[o] = 0 .. r - 1
  BY <1>1, RoomOfCells
<1>3. QED
  BY <1>1, <1>2 DEF Deque!Room, Cells

(* What a push finds ready holds the elements where the deque says, and has*)
(* a cell for one more.                                                    *)
LEMMA GrownIs ==
  ASSUME DequeInv, NEW o \in Deques, NEW want \in Nat \ {0}, want >= Deque!Room(o),
         length[o] > 0 => first[o] = 0
  PROVE  \E r \in Nat : /\ r >= want
                        /\ Cells(Deque!Grown(o, want), r)
                        /\ \A i \in 0 .. length[o] - 1 : Deque!Grown(o, want)[i] = cells[o][first[o] + i]
<1>1. /\ Cells(cells[o], Deque!Room(o)) /\ Deque!Room(o) \in Nat /\ length[o] \in Nat
      /\ first[o] \in Nat /\ first[o] + length[o] <= Deque!Room(o)
  BY RoomIs DEF DequeInv, DequeTypes, Deque!StaysInside
<1>2. CASE want <= Deque!Room(o)
  BY <1>1, <1>2 DEF Deque!Grown
<1>3. CASE ~(want <= Deque!Room(o))
  <2> DEFINE room == IF want < LeastRoom THEN LeastRoom ELSE want
             g == [i \in 0 .. room - 1 |-> IF i < length[o] THEN cells[o][first[o] + i] ELSE None]
  <2>1. Deque!Grown(o, want) = g
    BY <1>3 DEF Deque!Grown
  <2>2. room \in Nat /\ room >= want /\ room # 0
    BY DequeAssumption
  <2>3. Cells(g, room)
    BY <2>2 DEF Cells
  <2>4. \A i \in 0 .. length[o] - 1 : g[i] = cells[o][first[o] + i]
    BY <1>1, <1>3, <2>2
  <2> HIDE DEF g, room
  <2> QED BY <2>1, <2>2, <2>3, <2>4
<1>4. QED
  BY <1>2, <1>3

(* The room __grow is asked for.                                           *)
LEMMA WiderIs ==
  ASSUME DequeTypes, NEW o \in Deques
  PROVE  /\ Deque!Wider(o) \in Nat \ {0} /\ Deque!Wider(o) >= Deque!Room(o)
         /\ (Deque!Room(o) # 0 => Deque!Wider(o) = 2 * Deque!Room(o))
BY RoomIs, DequeAssumption DEF Deque!Wider

(* Where a push to either end may write: ready storage, its start, and how *)
(* it holds the elements.                                                  *)
Ready(o, w, r) ==
  /\ Cells(w.cells, r) /\ w.first \in Nat
  /\ \A i \in 0 .. length[o] - 1 : w.cells[w.first + i] = cells[o][first[o] + i]

(* push_back: room behind, elements moved down, or a larger array.         *)
LEMMA BackReadyIs ==
  ASSUME DequeInv, NEW o \in Deques
  PROVE  \E r \in Nat : Ready(o, Deque!BackReady(o), r) /\ Deque!BackReady(o).first + length[o] < r
<1>1. /\ Cells(cells[o], Deque!Room(o)) /\ Deque!Room(o) \in Nat /\ length[o] \in Nat
      /\ first[o] \in Nat /\ first[o] + length[o] <= Deque!Room(o)
  BY RoomIs DEF DequeInv, DequeTypes, Deque!StaysInside
<1>2. CASE ~Deque!Full(o)
  <2>1. first[o] + length[o] < Deque!Room(o)
    BY <1>1, <1>2 DEF Deque!Full
  <2> QED BY <1>1, <1>2, <2>1 DEF Deque!BackReady, Ready
<1>3. CASE Deque!Full(o) /\ first[o] > 0
  <2> DEFINE c == Deque!MovedDown(cells[o], first[o], length[o])
  <2>1. Cells(c, Deque!Room(o)) /\ \A i \in 0 .. length[o] - 1 : c[i] = cells[o][first[o] + i]
    BY <1>1, MovedDownIs
  <2>2. Deque!BackReady(o) = [cells |-> c, first |-> 0]
    BY <1>3 DEF Deque!BackReady
  <2>3. length[o] < Deque!Room(o)
    BY <1>1, <1>3
  <2> HIDE DEF c
  <2> QED BY <1>1, <2>1, <2>2, <2>3 DEF Ready
<1>4. CASE Deque!Full(o) /\ ~(first[o] > 0)
  <2> DEFINE c == Deque!Grown(o, Deque!Wider(o))
  <2>0. first[o] = 0 /\ length[o] = Deque!Room(o)
    BY <1>1, <1>4 DEF Deque!Full
  <2>a. DequeTypes
    BY DEF DequeInv
  <2>b. /\ Deque!Wider(o) \in Nat \ {0} /\ Deque!Wider(o) >= Deque!Room(o)
        /\ Deque!Wider(o) > Deque!Room(o)
    BY <1>1, <2>a, WiderIs
  <2>1. PICK r \in Nat : /\ r >= Deque!Wider(o) /\ Cells(c, r)
                         /\ \A i \in 0 .. length[o] - 1 : c[i] = cells[o][first[o] + i]
    BY <2>0, <2>b, GrownIs
  <2>2. Deque!BackReady(o) = [cells |-> c, first |-> 0]
    BY <1>4 DEF Deque!BackReady
  <2> HIDE DEF c
  <2>3. Ready(o, Deque!BackReady(o), r)
    BY <1>1, <2>1, <2>2 DEF Ready
  <2>4. Deque!BackReady(o).first + length[o] < r
    BY <2>0, <2>1, <2>2, <2>b, <1>1
  <2> QED BY <2>3, <2>4
<1>5. QED
  BY <1>2, <1>3, <1>4

(* push_front: room before, or elements moved up a larger array.           *)
LEMMA FrontReadyIs ==
  ASSUME DequeInv, NEW o \in Deques, length[o] > 0 \/ first[o] > 0
  PROVE  \E r \in Nat : /\ Ready(o, Deque!FrontReady(o), r) /\ Deque!FrontReady(o).first > 0
                        /\ Deque!FrontReady(o).first + length[o] <= r
<1>1. /\ Cells(cells[o], Deque!Room(o)) /\ Deque!Room(o) \in Nat /\ length[o] \in Nat
      /\ first[o] \in Nat /\ first[o] + length[o] <= Deque!Room(o)
  BY RoomIs DEF DequeInv, DequeTypes, Deque!StaysInside
<1>2. CASE first[o] # 0
  <2>1. Deque!FrontReady(o) = [cells |-> cells[o], first |-> first[o]]
    BY <1>2 DEF Deque!FrontReady
  <2> QED BY <1>1, <1>2, <2>1 DEF Ready
<1>3. CASE first[o] = 0
  <2> DEFINE g == Deque!Grown(o, Deque!Wider(o))
             c == Deque!MovedUp(g, length[o], length[o])
  <2>a. DequeTypes
    BY DEF DequeInv
  <2>0. length[o] > 0 /\ Deque!Room(o) # 0
    BY <1>1, <1>3
  <2>b. /\ Deque!Wider(o) \in Nat \ {0} /\ Deque!Wider(o) >= Deque!Room(o)
        /\ Deque!Wider(o) = 2 * Deque!Room(o)
    BY <2>0, <2>a, WiderIs
  <2>1. PICK r \in Nat : /\ r >= Deque!Wider(o) /\ Cells(g, r)
                         /\ \A i \in 0 .. length[o] - 1 : g[i] = cells[o][first[o] + i]
    BY <1>3, <2>b, GrownIs
  <2> HIDE DEF g
  <2>2. length[o] + length[o] <= r
    BY <1>1, <1>3, <2>1, <2>b
  <2>3. Cells(c, r) /\ \A i \in 0 .. length[o] - 1 : c[length[o] + i] = g[i]
    BY <1>1, <2>1, <2>2, MovedUpIs
  <2>4. Deque!FrontReady(o) = [cells |-> c, first |-> length[o]]
    BY <1>3 DEF Deque!FrontReady, g
  <2> HIDE DEF c
  <2>5. Ready(o, Deque!FrontReady(o), r)
    BY <1>1, <2>1, <2>3, <2>4 DEF Ready
  <2> QED BY <2>0, <2>2, <2>4, <2>5
<1>4. QED
  BY <1>2, <1>3

(* The first state of the deques.                                          *)
LEMMA DequeStarts == Deque!Init => DequeInv
<1> SUFFICES ASSUME Deque!Init PROVE DequeInv
  OBVIOUS
<1>1. Cells(<<>>, 0)
  BY DEF Cells
<1>2. Deque!RoomOf(<<>>) = 0
  BY DEF Deque!RoomOf
<1>3. DequeTypes
  BY <1>1 DEF Deque!Init, DequeTypes
<1>4. Deque!StaysInside
  BY <1>2 DEF Deque!Init, Deque!StaysInside, Deque!Room
<1>5. DequeAsked
  BY DEF Deque!Init, DequeAsked
<1>6. QED
  BY <1>3, <1>4, <1>5 DEF DequeInv

(* What a call may be.                                                     *)
LEMMA DequeAskedIs ==
  ASSUME NEW o \in Deques, NEW q \in Deque!Calls(o)
  PROVE  /\ q # Idle /\ q.on = o
         /\ q.op \in {"push_back", "push_front"} => q.ref.at = -1 /\ q.ref.value \in Values
         /\ q.op \in {"pop_back", "pop_front"} => length[o] > 0
         /\ q.op = "push_front" => ~(length[o] = 0 /\ first[o] = 0)
         /\ q.op \in {"push_back", "push_front", "pop_back", "pop_front", "clear"}
<1>1. q # Idle
  <2>1. q \in [op : {"push_back", "push_front"}, on : Deques, ref : [at : {-1}, value : Values]]
              \cup [op : {"pop_front", "pop_back", "clear"}, on : Deques]
    BY DEF Deque!Calls, Deque!Elsewhere
  <2> QED BY <2>1, DequeAssumption
<1>2. QED
  BY <1>1, DequeAssumption DEF Deque!Calls, Deque!Elsewhere

(* The object of the call that is being made.                              *)
LEMMA DequeOn ==
  ASSUME DequeInv, dcall # Idle
  PROVE  /\ dcall.on \in Deques
         /\ dcall.op \in {"push_back", "push_front"} => dcall.ref.at = -1 /\ dcall.ref.value \in Values
         /\ dcall.op \in {"pop_back", "pop_front"} => length[dcall.on] > 0
         /\ dcall.op = "push_front" => length[dcall.on] > 0 \/ first[dcall.on] > 0
<1>1. PICK o \in Deques : dcall \in Deque!Calls(o)
  BY DEF DequeInv, DequeAsked
<1>2. first[o] \in Nat /\ length[o] \in Nat
  BY DEF DequeInv, DequeTypes
<1>3. QED
  BY <1>1, <1>2, DequeAskedIs

(* Making a call disturbs nothing.                                         *)
LEMMA BeginKeeps == DequeInv /\ Deque!Begin => DequeInv'
<1> SUFFICES ASSUME DequeInv, Deque!Begin PROVE DequeInv'
  OBVIOUS
<1>1. UNCHANGED <<cells, first, length, inside>>
  BY DEF Deque!Begin
<1>2. DequeTypes'
  BY <1>1 DEF DequeInv, DequeTypes
<1>3. Deque!StaysInside'
  BY <1>1 DEF DequeInv, Deque!StaysInside, Deque!Room
<1>4. PICK o \in Deques : dcall' \in Deque!Calls(o)
  BY DEF Deque!Begin
<1>5. Deque!Calls(o)' = Deque!Calls(o)
  BY <1>1 DEF Deque!Calls, Deque!Full, Deque!Wider, Deque!Room
<1>6. DequeAsked'
  BY <1>4, <1>5 DEF DequeAsked
<1>7. QED
  BY <1>2, <1>3, <1>6 DEF DequeInv

(* A push that writes at cell i, which the ready storage has.              *)
LEMMA WrittenKeeps ==
  ASSUME DequeInv, NEW o \in Deques, NEW w, NEW r \in Nat, Ready(o, w, r),
         NEW i \in 0 .. r - 1, NEW from \in Nat, from + length[o] + 1 <= r,
         Deque!Written(o, w, i, from)
  PROVE  DequeInv' /\ cells' = [cells EXCEPT ![o] = [w.cells EXCEPT ![i] = dcall.ref.value]]
<1> DEFINE c == [w.cells EXCEPT ![i] = dcall.ref.value]
<1>1. DOMAIN w.cells = 0 .. r - 1 /\ w.cells = [j \in 0 .. r - 1 |-> w.cells[j]]
  BY DEF Ready, Cells
<1>0. i \in DOMAIN w.cells
  BY <1>1
<1>2. cells' = [cells EXCEPT ![o] = c] /\ inside' = inside
  <2>1. /\ cells' = [cells EXCEPT ![o] = IF i \in DOMAIN w.cells THEN c ELSE w.cells]
        /\ inside' = (inside /\ i \in DOMAIN w.cells)
    BY DEF Deque!Written
  <2>2. inside
    BY DEF DequeInv, Deque!StaysInside
  <2> HIDE DEF c
  <2>3. (IF i \in DOMAIN w.cells THEN c ELSE w.cells) = c
    BY <1>0
  <2>4. inside' = inside
    BY <1>0, <2>1, <2>2, Zenon
  <2> QED BY <2>1, <2>3, <2>4
<1>3. Cells(c, r)
  <2>1. c = [j \in 0 .. r - 1 |-> IF j = i THEN dcall.ref.value ELSE w.cells[j]]
    BY <1>1
  <2> HIDE DEF c
  <2> QED BY <2>1 DEF Cells
<1> HIDE DEF c
<1>4. Deque!RoomOf(c) = r
  BY <1>3, RoomOfCells
<1>5. \A k \in Deques : cells'[k] = IF k = o THEN c ELSE cells[k]
  BY <1>2 DEF DequeInv, DequeTypes
<1>6. /\ first' = [first EXCEPT ![o] = from] /\ length' = [length EXCEPT ![o] = @ + 1] /\ dcall' = Idle
  BY DEF Deque!Written
<1>7. DequeTypes'
  <2>1. first' \in [Deques -> Nat] /\ length' \in [Deques -> Nat]
    BY <1>6 DEF DequeInv, DequeTypes
  <2>2. cells' = [k \in Deques |-> cells'[k]]
    BY <1>2 DEF DequeInv, DequeTypes
  <2>3. ASSUME NEW k \in Deques PROVE \E n : Cells(cells'[k], n)
    BY <1>3, <1>5 DEF DequeInv, DequeTypes
  <2> QED BY <2>1, <2>2, <2>3 DEF DequeTypes
<1>8. Deque!StaysInside'
  <2>1. ASSUME NEW k \in Deques
        PROVE  first'[k] >= 0 /\ first'[k] + length'[k] <= Deque!RoomOf(cells'[k])
    BY <1>4, <1>5, <1>6 DEF DequeInv, DequeTypes, Deque!StaysInside, Deque!Room
  <2>2. inside'
    BY <1>2 DEF DequeInv, Deque!StaysInside
  <2> QED BY <2>1, <2>2 DEF Deque!StaysInside, Deque!Room
<1>9. DequeAsked'
  BY <1>6 DEF DequeAsked
<1>10. QED
  BY <1>2, <1>7, <1>8, <1>9 DEF DequeInv, c

(* Popping and clearing take elements off the ends, and write nothing.     *)
LEMMA LeftKeeps ==
  ASSUME DequeInv, NEW o \in Deques, NEW start \in Nat, NEW n \in Nat, start + n <= first[o] + length[o],
         Deque!Left(o, start, n)
  PROVE  DequeInv'
<1>1. DequeTypes'
  BY DEF DequeInv, DequeTypes, Deque!Left
<1>2. Deque!StaysInside'
  <2>0. DequeTypes
    BY DEF DequeInv
  <2>1. \A k \in Deques : Deque!Room(k) \in Nat
    BY <2>0, RoomIs
  <2> QED BY <2>1 DEF DequeInv, DequeTypes, Deque!StaysInside, Deque!Room, Deque!Left
<1>3. DequeAsked'
  BY DEF DequeAsked, Deque!Left
<1>4. QED
  BY <1>1, <1>2, <1>3 DEF DequeInv

(* What C++ says of each call.                                             *)
LEMMA DequeMeanings ==
  ASSUME NEW q
  PROVE  /\ q.op = "push_back" /\ q.ref.at = -1 => Deque!Promise!Meaning(q) = Append(Deque!Contents[q.on], q.ref.value)
         /\ q.op = "push_front" /\ q.ref.at = -1 => Deque!Promise!Meaning(q) = <<q.ref.value>> \o Deque!Contents[q.on]
         /\ q.op = "pop_back" => Deque!Promise!Meaning(q) = SubSeq(Deque!Contents[q.on], 1, Len(Deque!Contents[q.on]) - 1)
         /\ q.op = "pop_front" => Deque!Promise!Meaning(q) = Tail(Deque!Contents[q.on])
         /\ q.op = "clear" => Deque!Promise!Meaning(q) = <<>>
<1> HIDE DEF Deque!Contents
<1>1. ASSUME q.op = "push_back", q.ref.at = -1
      PROVE  Deque!Promise!Meaning(q) = Append(Deque!Contents[q.on], q.ref.value)
  BY <1>1 DEF Deque!Promise!Meaning, Deque!Promise!Named
<1>2. ASSUME q.op = "push_front", q.ref.at = -1
      PROVE  Deque!Promise!Meaning(q) = <<q.ref.value>> \o Deque!Contents[q.on]
  BY <1>2 DEF Deque!Promise!Meaning, Deque!Promise!Named
<1>3. ASSUME q.op = "pop_back"
      PROVE  Deque!Promise!Meaning(q) = SubSeq(Deque!Contents[q.on], 1, Len(Deque!Contents[q.on]) - 1)
  BY <1>3 DEF Deque!Promise!Meaning, Deque!Promise!Before
<1>4. ASSUME q.op = "pop_front" PROVE Deque!Promise!Meaning(q) = Tail(Deque!Contents[q.on])
  BY <1>4 DEF Deque!Promise!Meaning
<1>5. ASSUME q.op = "clear" PROVE Deque!Promise!Meaning(q) = <<>>
  BY <1>5 DEF Deque!Promise!Meaning
<1>6. QED
  BY <1>1, <1>2, <1>3, <1>4, <1>5

(* The sequence a deque holds, cell by cell.                               *)
LEMMA ContentsAre ==
  ASSUME DequeTypes, NEW o \in Deques
  PROVE  /\ Numbered(Deque!Contents[o], length[o])
         /\ \A i \in 1 .. length[o] : Deque!Contents[o][i] = cells[o][first[o] + i - 1]
BY DEF DequeTypes, Deque!Contents, Numbered

(* A step that changes one deque, and to what the call means.              *)
LEMMA Performs ==
  ASSUME DequeInv, dcall # Idle, dcall' = Idle,
         \A k \in Deques \ {dcall.on} : Deque!Contents'[k] = Deque!Contents[k],
         Deque!Contents'[dcall.on] = Deque!Promise!Meaning(dcall)
  PROVE  Deque!Promise!Next
<1>1. dcall.op # "swap"
  <2>1. PICK o \in Deques : dcall \in Deque!Calls(o)
    BY DEF DequeInv, DequeAsked
  <2> QED BY <2>1, DequeAskedIs
<1>2. Deque!Contents' = [k \in Deques |-> Deque!Contents'[k]]
  BY DEF Deque!Contents
<1>3. dcall.on \in Deques
  BY DequeOn
<1> HIDE DEF Deque!Contents
<1>4. Deque!Promise!Perform
  <2> DEFINE after == [k \in Deques |-> IF k = dcall.on THEN Deque!Promise!Meaning(dcall)
                                        ELSE IF dcall.op = "swap" /\ k = dcall.from THEN Deque!Contents[dcall.on]
                                        ELSE Deque!Contents[k]]
  <2>1. \A k \in Deques : Deque!Contents'[k] = after[k]
    BY <1>1, <1>3
  <2>2. Deque!Contents' = after
    <3> HIDE DEF Deque!Promise!Meaning
    <3>1. after = [k \in Deques |-> after[k]]
      OBVIOUS
    <3> HIDE DEF after
    <3> QED BY <1>2, <2>1, <3>1
  <2> QED BY <2>2, Zenon DEF Deque!Promise!Perform
<1>5. QED
  BY <1>4 DEF Deque!Promise!Next

(* push_back appends.                                                      *)
LEMMA DequePushBack == ASSUME DequeInv, Deque!push_back PROVE DequeInv' /\ Deque!Promise!Next
<1> DEFINE o == dcall.on
           w == Deque!BackReady(o)
           x == dcall.ref.value
<1>1. dcall # Idle /\ dcall.op = "push_back" /\ Deque!Written(o, w, w.first + length[o], w.first)
  BY DEF Deque!push_back, Deque!Making
<1>2. o \in Deques /\ dcall.ref.at = -1
  BY <1>1, DequeOn
<1> HIDE DEF o
<1>3. PICK r \in Nat : Ready(o, w, r) /\ w.first + length[o] < r
  BY <1>2, BackReadyIs
<1> HIDE DEF w
<1>4. w.first \in Nat /\ length[o] \in Nat
  BY <1>2, <1>3 DEF Ready, DequeInv, DequeTypes
<1>5. DequeInv' /\ cells' = [cells EXCEPT ![o] = [w.cells EXCEPT ![w.first + length[o]] = x]]
  <2> DEFINE i == w.first + length[o]
  <2>1. i \in 0 .. r - 1 /\ w.first + length[o] + 1 <= r
    BY <1>3, <1>4
  <2>2. Deque!Written(o, w, i, w.first)
    BY <1>1
  <2> HIDE DEF i
  <2>3. DequeInv' /\ cells' = [cells EXCEPT ![o] = [w.cells EXCEPT ![i] = x]]
    BY <1>2, <1>3, <1>4, <2>1, <2>2, WrittenKeeps
  <2> QED BY <2>3 DEF i
<1>6. first' = [first EXCEPT ![o] = w.first] /\ length' = [length EXCEPT ![o] = @ + 1] /\ dcall' = Idle
  BY <1>1 DEF Deque!Written
<1>7. /\ first'[o] = w.first /\ length'[o] = length[o] + 1
      /\ cells'[o] = [w.cells EXCEPT ![w.first + length[o]] = x]
  BY <1>2, <1>5, <1>6 DEF DequeInv, DequeTypes
<1>8. \A k \in Deques \ {o} : first'[k] = first[k] /\ length'[k] = length[k] /\ cells'[k] = cells[k]
  BY <1>2, <1>5, <1>6 DEF DequeInv, DequeTypes
<1>9. \A k \in Deques \ {o} : Deque!Contents'[k] = Deque!Contents[k]
  BY <1>8 DEF Deque!Contents
<1>10. Deque!Contents'[o] = Append(Deque!Contents[o], x)
  <2>1. Deque!Contents'[o] = [i \in 1 .. length[o] + 1 |-> [w.cells EXCEPT ![w.first + length[o]] = x][w.first + i - 1]]
    BY <1>2, <1>7 DEF Deque!Contents
  <2>2. DequeTypes
    BY DEF DequeInv
  <2>3. Append(Deque!Contents[o], x) = [i \in 1 .. length[o] + 1 |-> IF i <= length[o] THEN Deque!Contents[o][i] ELSE x]
    <3> DEFINE s == Deque!Contents[o]
               n == length[o]
    <3>1. Numbered(s, n)
      BY <1>2, <2>2, ContentsAre
    <3> HIDE DEF s, n
    <3>2. \A y : Append(s, y) = [i \in 1 .. n + 1 |-> IF i <= n THEN s[i] ELSE y]
      BY <3>1, AppendIs
    <3> HIDE DEF x
    <3>3. Append(s, x) = [i \in 1 .. n + 1 |-> IF i <= n THEN s[i] ELSE x]
      BY <3>2
    <3> QED BY <3>3 DEF s, n
  <2>4. DOMAIN w.cells = 0 .. r - 1
    BY <1>3 DEF Ready, Cells
  <2>5. ASSUME NEW i \in 1 .. length[o] + 1
        PROVE  [w.cells EXCEPT ![w.first + length[o]] = x][w.first + i - 1] = IF i <= length[o] THEN Deque!Contents[o][i] ELSE x
    <3>1. /\ w.first + i - 1 \in 0 .. r - 1
          /\ (w.first + i - 1 = w.first + length[o] <=> i = length[o] + 1)
      BY <1>3, <1>4
    <3>2. CASE i = length[o] + 1
      BY <1>4, <2>4, <3>1, <3>2
    <3>3. CASE i # length[o] + 1
      <4>1. i \in 1 .. length[o] /\ i - 1 \in 0 .. length[o] - 1
        BY <1>4, <3>3
      <4>2. Deque!Contents[o][i] = cells[o][first[o] + i - 1]
        BY <1>2, <2>2, <4>1, ContentsAre
      <4>3. w.cells[w.first + (i - 1)] = cells[o][first[o] + (i - 1)]
        BY <1>3, <4>1 DEF Ready
      <4>4. [w.cells EXCEPT ![w.first + length[o]] = x][w.first + i - 1] = w.cells[w.first + i - 1]
        BY <2>4, <3>1, <3>3
      <4>5. w.first + (i - 1) = w.first + i - 1 /\ first[o] + (i - 1) = first[o] + i - 1
        BY <1>2, <1>4 DEF DequeInv, DequeTypes
      <4> QED BY <4>1, <4>2, <4>3, <4>4, <4>5
    <3> QED BY <3>2, <3>3
  <2> QED BY <2>1, <2>3, <2>5
<1>11. Deque!Promise!Meaning(dcall) = Append(Deque!Contents[o], x)
  BY <1>1, <1>2, DequeMeanings DEF o
<1>12. QED
  <2> HIDE DEF Deque!Contents, Deque!Promise!Meaning
  <2>1. Deque!Promise!Next
    BY <1>1, <1>6, <1>9, <1>10, <1>11, Performs DEF o
  <2> QED BY <1>5, <2>1

(* push_front puts the value before the others.                            *)
LEMMA DequePushFront == ASSUME DequeInv, Deque!push_front PROVE DequeInv' /\ Deque!Promise!Next
<1> DEFINE o == dcall.on
           w == Deque!FrontReady(o)
           x == dcall.ref.value
           a == w.first - 1
<1>1. dcall # Idle /\ dcall.op = "push_front" /\ Deque!Written(o, w, a, a)
  BY DEF Deque!push_front, Deque!Making
<1>2. o \in Deques /\ dcall.ref.at = -1 /\ (length[o] > 0 \/ first[o] > 0)
  BY <1>1, DequeOn
<1> HIDE DEF o
<1>3. PICK r \in Nat : Ready(o, w, r) /\ w.first > 0 /\ w.first + length[o] <= r
  BY <1>2, FrontReadyIs
<1> HIDE DEF w
<1>4. w.first \in Nat /\ length[o] \in Nat
  BY <1>2, <1>3 DEF Ready, DequeInv, DequeTypes
<1>a. a \in Nat /\ a \in 0 .. r - 1 /\ a + length[o] + 1 <= r /\ w.first = a + 1
  BY <1>3, <1>4
<1> HIDE DEF a
<1>5. DequeInv' /\ cells' = [cells EXCEPT ![o] = [w.cells EXCEPT ![a] = x]]
  BY <1>1, <1>2, <1>3, <1>a, WrittenKeeps
<1>6. first' = [first EXCEPT ![o] = a] /\ length' = [length EXCEPT ![o] = @ + 1] /\ dcall' = Idle
  BY <1>1 DEF Deque!Written
<1>7. first'[o] = a /\ length'[o] = length[o] + 1 /\ cells'[o] = [w.cells EXCEPT ![a] = x]
  BY <1>2, <1>5, <1>6 DEF DequeInv, DequeTypes
<1>8. \A k \in Deques \ {o} : first'[k] = first[k] /\ length'[k] = length[k] /\ cells'[k] = cells[k]
  BY <1>2, <1>5, <1>6 DEF DequeInv, DequeTypes
<1>9. \A k \in Deques \ {o} : Deque!Contents'[k] = Deque!Contents[k]
  BY <1>8 DEF Deque!Contents
<1>10. Deque!Contents'[o] = <<x>> \o Deque!Contents[o]
  <2>1. Deque!Contents'[o] = [i \in 1 .. length[o] + 1 |-> [w.cells EXCEPT ![a] = x][a + i - 1]]
    BY <1>2, <1>7 DEF Deque!Contents
  <2>2. DequeTypes
    BY DEF DequeInv
  <2>3. <<x>> \o Deque!Contents[o] = [i \in 1 .. length[o] + 1 |-> IF i = 1 THEN x ELSE Deque!Contents[o][i - 1]]
    <3> DEFINE s == Deque!Contents[o]
    <3>1. Numbered(s, length[o])
      BY <1>2, <2>2, ContentsAre
    <3> HIDE DEF s
    <3>2. <<x>> \o s = [i \in 1 .. length[o] + 1 |-> IF i = 1 THEN x ELSE s[i - 1]]
      BY <3>1, PrependIs
    <3> QED BY <3>2 DEF s
  <2>4. DOMAIN w.cells = 0 .. r - 1
    BY <1>3 DEF Ready, Cells
  <2>5. ASSUME NEW i \in 1 .. length[o] + 1
        PROVE  [w.cells EXCEPT ![a] = x][a + i - 1] = IF i = 1 THEN x ELSE Deque!Contents[o][i - 1]
    <3>1. a + i - 1 \in 0 .. r - 1 /\ (a + i - 1 = a <=> i = 1)
      BY <1>a, <1>4
    <3>2. CASE i = 1
      BY <1>4, <2>4, <3>1, <3>2
    <3>3. CASE i # 1
      <4>1. i - 1 \in 1 .. length[o] /\ i - 2 \in 0 .. length[o] - 1
        BY <1>4, <3>3
      <4>2. Deque!Contents[o][i - 1] = cells[o][first[o] + (i - 1) - 1]
        BY <1>2, <2>2, <4>1, ContentsAre
      <4>3. w.cells[w.first + (i - 2)] = cells[o][first[o] + (i - 2)]
        BY <1>3, <4>1 DEF Ready
      <4>4. [w.cells EXCEPT ![a] = x][a + i - 1] = w.cells[a + i - 1]
        BY <2>4, <3>1, <3>3
      <4>5. w.first + (i - 2) = a + i - 1 /\ first[o] + (i - 1) - 1 = first[o] + (i - 2)
        BY <1>2, <1>4, <1>a DEF DequeInv, DequeTypes
      <4> QED BY <3>3, <4>2, <4>3, <4>4, <4>5
    <3> QED BY <3>2, <3>3
  <2>6. [i \in 1 .. length[o] + 1 |-> [w.cells EXCEPT ![a] = x][a + i - 1]]
        = [i \in 1 .. length[o] + 1 |-> IF i = 1 THEN x ELSE Deque!Contents[o][i - 1]]
    BY <2>5, Zenon
  <2> QED BY <2>1, <2>3, <2>6, Zenon
<1>11. Deque!Promise!Meaning(dcall) = <<x>> \o Deque!Contents[o]
  BY <1>1, <1>2, DequeMeanings DEF o
<1>12. QED
  <2> HIDE DEF Deque!Contents, Deque!Promise!Meaning
  <2>1. Deque!Promise!Next
    BY <1>1, <1>6, <1>9, <1>10, <1>11, Performs DEF o
  <2> QED BY <1>5, <2>1

(* What is left between two places is what the call means.                 *)
LEMMA Leaves ==
  ASSUME DequeInv, dcall # Idle, NEW start \in Nat, NEW n \in Nat, Deque!Left(dcall.on, start, n),
         start + n <= first[dcall.on] + length[dcall.on],
         Deque!Promise!Meaning(dcall) = [i \in 1 .. n |-> cells[dcall.on][start + i - 1]]
  PROVE  DequeInv' /\ Deque!Promise!Next
<1> DEFINE o == dcall.on
<1>1. o \in Deques
  BY DequeOn
<1> HIDE DEF o
<1>2. DequeInv'
  BY <1>1, LeftKeeps DEF o
<1>3. /\ first' = [first EXCEPT ![o] = start] /\ length' = [length EXCEPT ![o] = n]
      /\ dcall' = Idle /\ cells' = cells
  BY DEF Deque!Left, o
<1>4. \A k \in Deques \ {o} : Deque!Contents'[k] = Deque!Contents[k]
  BY <1>3 DEF Deque!Contents, DequeInv, DequeTypes
<1>5. Deque!Contents'[o] = [i \in 1 .. n |-> cells[o][start + i - 1]]
  BY <1>1, <1>3 DEF Deque!Contents, DequeInv, DequeTypes
<1>6. Deque!Promise!Next
  <2> HIDE DEF Deque!Contents, Deque!Promise!Meaning
  <2> QED BY <1>3, <1>4, <1>5, Performs DEF o
<1>7. QED
  BY <1>2, <1>6

(* pop_front, pop_back and clear.                                          *)
LEMMA Pops == ASSUME DequeInv, Deque!pop_front \/ Deque!pop_back \/ Deque!clear PROVE DequeInv' /\ Deque!Promise!Next
<1> DEFINE o == dcall.on
           s == Deque!Contents[o]
<1>1. dcall # Idle
  BY DEF Deque!pop_front, Deque!pop_back, Deque!clear, Deque!Making
<1>2. o \in Deques
  BY <1>1, DequeOn
<1>3. length[o] \in Nat /\ first[o] \in Nat
  BY <1>2 DEF DequeInv, DequeTypes
<1>4. Numbered(s, length[o]) /\ \A i \in 1 .. length[o] : s[i] = cells[o][first[o] + i - 1]
  BY <1>2, ContentsAre DEF DequeInv
<1>a. Len(s) = length[o]
  <2> DEFINE X == {s[j] : j \in 1 .. length[o]}
  <2>1. \A i \in 1 .. length[o] : s[i] \in X
    OBVIOUS
  <2> HIDE DEF s, X
  <2> QED BY <1>4, <2>1, NumberedIs
<1>5. CASE Deque!pop_front
  <2>1. dcall.op = "pop_front" /\ Deque!Left(o, first[o] + 1, length[o] - 1)
    BY <1>5 DEF Deque!pop_front, Deque!Making
  <2>2. length[o] > 0
    BY <1>1, <2>1, DequeOn
  <2>3. Deque!Promise!Meaning(dcall) = Tail(s)
    BY <2>1, DequeMeanings
  <2> HIDE DEF s
  <2>4. Tail(s) = [i \in 1 .. length[o] - 1 |-> s[i + 1]]
    BY <1>4, <2>2, TailIs
  <2>5. \A i \in 1 .. length[o] - 1 : s[i + 1] = cells[o][first[o] + 1 + i - 1]
    <3> TAKE i \in 1 .. length[o] - 1
    <3>1. i + 1 \in 1 .. length[o] /\ first[o] + (i + 1) - 1 = first[o] + 1 + i - 1
      BY <1>3
    <3> QED BY <1>4, <3>1
  <2>6. Deque!Promise!Meaning(dcall) = [i \in 1 .. length[o] - 1 |-> cells[o][first[o] + 1 + i - 1]]
    BY <2>3, <2>4, <2>5
  <2>7. /\ first[o] + 1 \in Nat /\ length[o] - 1 \in Nat
        /\ (first[o] + 1) + (length[o] - 1) <= first[o] + length[o]
    BY <1>3, <2>2
  <2> QED BY <1>1, <2>1, <2>6, <2>7, Leaves
<1>6. CASE Deque!pop_back
  <2>1. dcall.op = "pop_back" /\ Deque!Left(o, first[o], length[o] - 1)
    BY <1>6 DEF Deque!pop_back, Deque!Making
  <2>2. length[o] > 0
    BY <1>1, <2>1, DequeOn
  <2>3. Deque!Promise!Meaning(dcall) = SubSeq(s, 1, length[o] - 1)
    BY <1>a, <2>1, DequeMeanings
  <2> HIDE DEF s
  <2> DEFINE m == length[o] - 1
  <2>4. SubSeq(s, 1, m) = [i \in 1 .. (IF 1 <= m THEN m - 1 + 1 ELSE 0) |-> s[1 + i - 1]]
    <3>1. 1 \in 1 .. length[o] + 1 /\ m \in 0 .. length[o]
      BY <1>3, <2>2
    <3> QED BY <1>4, <3>1, SubSeqIs
  <2>5. (IF 1 <= m THEN m - 1 + 1 ELSE 0) = m
    BY <1>3, <2>2
  <2>6. \A i \in 1 .. m : s[1 + i - 1] = cells[o][first[o] + i - 1]
    <3> TAKE i \in 1 .. m
    <3>1. i \in 1 .. length[o] /\ 1 + i - 1 = i
      BY <1>3
    <3> QED BY <1>4, <3>1
  <2>7. Deque!Promise!Meaning(dcall) = [i \in 1 .. m |-> cells[o][first[o] + i - 1]]
    BY <2>3, <2>4, <2>5, <2>6
  <2>8. m \in Nat /\ first[o] + m <= first[o] + length[o]
    BY <1>3, <2>2
  <2> QED BY <1>1, <1>3, <2>1, <2>7, <2>8, Leaves
<1>7. CASE Deque!clear
  <2>1. dcall.op = "clear" /\ Deque!Left(o, 0, 0)
    BY <1>7 DEF Deque!clear, Deque!Making
  <2>2. Deque!Promise!Meaning(dcall) = <<>>
    BY <2>1, DequeMeanings
  <2>3. <<>> = [i \in 1 .. 0 |-> cells[o][0 + i - 1]]
    OBVIOUS
  <2>4. 0 + 0 <= first[o] + length[o]
    BY <1>3
  <2> HIDE DEF o
  <2> QED BY <1>1, <2>1, <2>2, <2>3, <2>4, Leaves DEF o
<1>8. QED
  BY <1>5, <1>6, <1>7

(* To the deque as C++ sees it, making a call changes nothing.             *)
LEMMA DequeBegins == DequeInv /\ Deque!Begin => Deque!Promise!Next
<1> SUFFICES ASSUME DequeInv, Deque!Begin PROVE Deque!Promise!Next
  OBVIOUS
<1>1. PICK o \in Deques : dcall' \in Deque!Calls(o)
  BY DEF Deque!Begin
<1>2. dcall' # Idle
  BY <1>1, DequeAskedIs
<1>3. Deque!Contents' = Deque!Contents
  BY DEF Deque!Begin, Deque!Contents
<1>4. QED
  BY <1>2, <1>3 DEF Deque!Begin, Deque!Promise!Next, Deque!Promise!Begin

(* Every step of a deque, and what C++ sees of it.                         *)
LEMMA DequeSteps == DequeInv /\ [Deque!Next]_(Deque!vars) => DequeInv' /\ [Deque!Promise!Next]_(Deque!Promise!vars)
<1> SUFFICES ASSUME DequeInv, [Deque!Next]_(Deque!vars) PROVE DequeInv' /\ [Deque!Promise!Next]_(Deque!Promise!vars)
  OBVIOUS
<1>1. CASE UNCHANGED Deque!vars
  <2>1. DequeInv'
    BY <1>1 DEF Deque!vars, DequeInv, DequeTypes, Deque!StaysInside, DequeAsked, Deque!Room, Deque!Calls, Deque!Full, Deque!Wider
  <2>2. UNCHANGED Deque!Promise!vars
    BY <1>1 DEF Deque!vars, Deque!Promise!vars, Deque!Contents
  <2> QED BY <2>1, <2>2
<1>2. CASE Deque!Begin
  BY <1>2, BeginKeeps, DequeBegins
<1>3. CASE Deque!push_back
  BY <1>3, DequePushBack
<1>4. CASE Deque!push_front
  BY <1>4, DequePushFront
<1>5. CASE Deque!pop_front \/ Deque!pop_back \/ Deque!clear
  BY <1>5, Pops
<1>6. QED
  BY <1>1, <1>2, <1>3, <1>4, <1>5 DEF Deque!Next

(* Nothing is written outside the array of a deque (push_back,             *)
(* push_front).                                                            *)
THEOREM DequeStaysInside == Deque!Spec => []Deque!StaysInside
<1>1. DequeInv => Deque!StaysInside
  BY DEF DequeInv
<1>2. QED
  BY <1>1, DequeStarts, DequeSteps, PTL DEF Deque!Spec

(* Wherever its start is, a deque is the sequence C++ says it is.          *)
THEOREM DequeIsASequence == Deque!Spec => Deque!IsASequence
<1>1. Deque!Init => Deque!Promise!Init
  BY DEF Deque!Init, Deque!Promise!Init, Deque!Contents
<1>2. Deque!Spec => [][Deque!Promise!Next]_(Deque!Promise!vars)
  BY DequeStarts, DequeSteps, PTL DEF Deque!Spec
<1>3. QED
  BY <1>1, <1>2, PTL DEF Deque!Spec, Deque!IsASequence, Deque!Promise!Spec

-----------------------------------------------------------------------------
(* A pool of nodes, and a list in it: the nodes c, first to last.          *)
Links == Nodes \cup {Null}
Pool(p) == DOMAIN p \subseteq Nodes /\ p \in [DOMAIN p -> [value : Values, next : Links, prev : Links]]

Linked(p, h, t, n, c) ==
  /\ Numbered(c, n)
  /\ \A i \in 1 .. n : c[i] \in DOMAIN p
  /\ \A i, j \in 1 .. n : c[i] = c[j] => i = j
  /\ \A i \in 1 .. n - 1 : p[c[i]].next = c[i + 1] /\ p[c[i + 1]].prev = c[i]
  /\ n = 0 => h = Null /\ t = Null
  /\ n > 0 => h = c[1] /\ t = c[n] /\ p[c[1]].prev = Null /\ p[c[n]].next = Null

(* A list is what it was in a pool that has its nodes as they were.        *)
LEMMA StillLinked ==
  ASSUME NEW p, NEW h, NEW t, NEW n, NEW c, Linked(p, h, t, n, c),
         NEW q, \A i \in 1 .. n : c[i] \in DOMAIN q /\ q[c[i]] = p[c[i]]
  PROVE  Linked(q, h, t, n, c)
<1>0. n \in Nat
  BY DEF Linked, Numbered
<1>1. ASSUME NEW i \in 1 .. n - 1 PROVE q[c[i]].next = c[i + 1] /\ q[c[i + 1]].prev = c[i]
  <2>1. i \in 1 .. n /\ i + 1 \in 1 .. n
    BY <1>0
  <2> QED BY <2>1 DEF Linked
<1>2. n > 0 => q[c[1]].prev = Null /\ q[c[n]].next = Null
  <2>1. n > 0 => 1 \in 1 .. n /\ n \in 1 .. n
    BY <1>0
  <2> QED BY <2>1 DEF Linked
<1>3. QED
  BY <1>1, <1>2 DEF Linked

(* Telling a node of its new neighbour changes that link alone.            *)
LEMMA ToldIs ==
  ASSUME NEW p, Pool(p), NEW n \in DOMAIN p, NEW to \in Links
  PROVE  /\ Pool(List!Told(p, n, "next", to)) /\ DOMAIN List!Told(p, n, "next", to) = DOMAIN p
         /\ Pool(List!Told(p, n, "prev", to)) /\ DOMAIN List!Told(p, n, "prev", to) = DOMAIN p
         /\ \A m \in DOMAIN p : m # n => List!Told(p, n, "next", to)[m] = p[m] /\ List!Told(p, n, "prev", to)[m] = p[m]
         /\ List!Told(p, n, "next", to)[n].next = to /\ List!Told(p, n, "next", to)[n].prev = p[n].prev
         /\ List!Told(p, n, "next", to)[n].value = p[n].value
         /\ List!Told(p, n, "prev", to)[n].prev = to /\ List!Told(p, n, "prev", to)[n].next = p[n].next
         /\ List!Told(p, n, "prev", to)[n].value = p[n].value
<1>1. n # Null
  BY ListAssumption DEF Pool
<1>2. /\ List!Told(p, n, "next", to) = [p EXCEPT ![n]["next"] = to]
      /\ List!Told(p, n, "prev", to) = [p EXCEPT ![n]["prev"] = to]
  BY <1>1 DEF List!Told
<1>3. QED
  BY <1>2 DEF Pool

(* There is nobody to tell at the end of a list.                           *)
LEMMA ToldNull == \A p, side, to : List!Told(p, Null, side, to) = p
BY DEF List!Told

(* A node that is deleted leaves the rest of the pool as it was.           *)
LEMMA WithoutIs ==
  ASSUME NEW p, Pool(p), NEW n
  PROVE  Pool(List!Without(p, n)) /\ DOMAIN List!Without(p, n) = DOMAIN p \ {n}
         /\ \A m \in DOMAIN p \ {n} : List!Without(p, n)[m] = p[m]
BY DEF Pool, List!Without

(* A list one node shorter: the first is gone from the pool, and the rest  *)
(* of the pool is as it was but for the second's link to it.               *)
LEMMA PopFrontIs ==
  ASSUME NEW p, Pool(p), NEW h, NEW t, NEW n, NEW c, Linked(p, h, t, n, c), n > 0,
         NEW l, l = [pool |-> p, head |-> h, tail |-> t, count |-> n]
  PROVE  LET d == [i \in 1 .. n - 1 |-> c[i + 1]]
             m == List!PopFront(l)
         IN  /\ m = [pool |-> m.pool, head |-> m.head, tail |-> m.tail, count |-> n - 1]
             /\ Pool(m.pool)
             /\ Linked(m.pool, m.head, m.tail, n - 1, d)
             /\ DOMAIN m.pool = DOMAIN p \ {c[1]}
             /\ \A x \in DOMAIN m.pool : m.pool[x].value = p[x].value
             /\ \A x \in DOMAIN m.pool : (\A i \in 1 .. n : x # c[i]) => m.pool[x] = p[x]
<1> DEFINE d == [i \in 1 .. n - 1 |-> c[i + 1]]
           next == p[c[1]].next
           told == List!Told(p, next, "prev", Null)
           q == List!Without(told, c[1])
<1>1. n \in Nat /\ 1 \in 1 .. n /\ n \in 1 .. n /\ h = c[1] /\ t = c[n] /\ c[1] \in DOMAIN p
  BY DEF Linked, Numbered
<1>2. h # Null
  BY <1>1, ListAssumption DEF Pool
<1>3. List!PopFront(l) = [pool |-> q, head |-> next, tail |-> IF next = Null THEN Null ELSE t, count |-> n - 1]
  BY <1>1, <1>2 DEF List!PopFront
<1>4. CASE n = 1
  <2>1. next = Null
    BY <1>1, <1>4 DEF Linked
  <2>2. told = p
    BY <2>1, ToldNull
  <2> HIDE DEF told
  <2>3. Pool(q) /\ DOMAIN q = DOMAIN p \ {c[1]} /\ \A m \in DOMAIN p \ {c[1]} : q[m] = p[m]
    BY <2>2, WithoutIs
  <2> HIDE DEF q
  <2>4. Linked(q, next, Null, n - 1, d)
    BY <1>4, <2>1 DEF Linked, Numbered
  <2> HIDE DEF d, next
  <2> QED BY <1>3, <2>1, <2>3, <2>4 DEF d
<1>5. CASE n > 1
  <2>1. next = c[2] /\ 2 \in 1 .. n /\ c[2] \in DOMAIN p /\ c[2] # c[1] /\ c[2] # Null
    <3>1. 1 \in 1 .. n - 1 /\ 2 \in 1 .. n
      BY <1>1, <1>5
    <3> QED BY <1>1, <3>1, ListAssumption DEF Linked, Pool
  <2>a. Null \in Links
    BY DEF Links
  <2>2. /\ Pool(told) /\ DOMAIN told = DOMAIN p
        /\ \A m \in DOMAIN p : m # c[2] => told[m] = p[m]
        /\ told[c[2]].prev = Null /\ told[c[2]].next = p[c[2]].next /\ told[c[2]].value = p[c[2]].value
    <3> HIDE DEF next
    <3>1. next \in DOMAIN p
      BY <2>1
    <3>2. /\ Pool(told) /\ DOMAIN told = DOMAIN p
          /\ \A m \in DOMAIN p : m # next => told[m] = p[m]
          /\ told[next].prev = Null /\ told[next].next = p[next].next
          /\ told[next].value = p[next].value
      BY <2>a, <3>1, ToldIs
    <3> QED BY <2>1, <3>2
  <2> HIDE DEF told
  <2>3. Pool(q) /\ DOMAIN q = DOMAIN p \ {c[1]} /\ \A m \in DOMAIN p \ {c[1]} : q[m] = told[m]
    <3>1. Pool(told) /\ DOMAIN told = DOMAIN p
      BY <2>2
    <3>2. Pool(q) /\ DOMAIN q = DOMAIN told \ {c[1]} /\ \A m \in DOMAIN told \ {c[1]} : q[m] = told[m]
      BY <3>1, WithoutIs
    <3> QED BY <3>1, <3>2
  <2> HIDE DEF q
  <2>4. Linked(q, next, t, n - 1, d)
    <3>1. Numbered(d, n - 1)
      BY <1>1, <1>5 DEF Numbered
    <3>2. ASSUME NEW i \in 1 .. n - 1
          PROVE  d[i] = c[i + 1] /\ i + 1 \in 1 .. n /\ d[i] \in DOMAIN q /\ q[d[i]] = told[d[i]]
      <4>1. i + 1 \in 1 .. n /\ i + 1 # 1
        BY <1>1
      <4>2. c[i + 1] # c[1] /\ c[i + 1] \in DOMAIN p
        BY <1>1, <4>1 DEF Linked
      <4> QED BY <2>3, <4>1, <4>2
    <3>3. ASSUME NEW i \in 1 .. n - 1, NEW j \in 1 .. n - 1, d[i] = d[j] PROVE i = j
      <4>1. c[i + 1] = c[j + 1] /\ i + 1 \in 1 .. n /\ j + 1 \in 1 .. n
        BY <3>2, <3>3
      <4>2. i + 1 = j + 1
        BY <4>1 DEF Linked
      <4> QED BY <4>2
    <3>4. ASSUME NEW i \in 1 .. (n - 1) - 1 PROVE q[d[i]].next = d[i + 1] /\ q[d[i + 1]].prev = d[i]
      <4>1. /\ i \in 1 .. n - 1 /\ i + 1 \in 1 .. n - 1 /\ i + 1 \in 1 .. n /\ i + 2 \in 1 .. n
            /\ i + 1 + 1 = i + 2
        BY <1>1
      <4>2. d[i] = c[i + 1] /\ d[i + 1] = c[i + 2]
        BY <4>1
      <4>3. q[d[i]] = told[c[i + 1]] /\ q[d[i + 1]] = told[c[i + 2]]
        BY <3>2, <4>1, <4>2
      <4>4. p[c[i + 1]].next = c[i + 2] /\ p[c[i + 2]].prev = c[i + 1]
        BY <4>1 DEF Linked
      <4>5. c[i + 2] # c[2]
        <5>1. i + 2 # 2
          BY <1>1
        <5> QED BY <2>1, <4>1, <5>1 DEF Linked
      <4>6. told[c[i + 2]] = p[c[i + 2]] /\ told[c[i + 1]].next = p[c[i + 1]].next
        BY <2>2, <4>1, <4>5 DEF Linked
      <4> QED BY <4>2, <4>3, <4>4, <4>6
    <3>5. next = d[1] /\ t = d[n - 1] /\ q[d[1]].prev = Null /\ q[d[n - 1]].next = Null
      <4>1. 1 \in 1 .. n - 1 /\ n - 1 \in 1 .. n - 1 /\ (n - 1) + 1 = n /\ n \in 1 .. n
        BY <1>1, <1>5
      <4>2. d[1] = c[2] /\ d[n - 1] = c[n]
        BY <4>1
      <4>3. q[d[1]] = told[c[2]] /\ q[d[n - 1]] = told[c[n]]
        BY <3>2, <4>1, <4>2
      <4>4. told[c[n]].next = p[c[n]].next
        BY <2>2, <4>1 DEF Linked
      <4>5. p[c[n]].next = Null
        BY <1>5 DEF Linked
      <4> QED BY <1>1, <2>1, <2>2, <4>2, <4>3, <4>4, <4>5
    <3>6. n - 1 > 0
      BY <1>1, <1>5
    <3> HIDE DEF d, next
    <3> QED BY <3>1, <3>2, <3>3, <3>4, <3>5, <3>6 DEF Linked
  <2>5. \A x \in DOMAIN q : q[x].value = p[x].value
    BY <2>2, <2>3
  <2>6. ASSUME NEW x \in DOMAIN q, \A i \in 1 .. n : x # c[i] PROVE q[x] = p[x]
    BY <2>1, <2>2, <2>3, <2>6
  <2>7. next # Null
    BY <2>1
  <2> HIDE DEF d, next
  <2> QED BY <1>3, <2>3, <2>4, <2>5, <2>6, <2>7 DEF d
<1>6. QED
  BY <1>1, <1>4, <1>5

(* The same from the other end.                                            *)
LEMMA PopBackIs ==
  ASSUME NEW p, Pool(p), NEW h, NEW t, NEW n, NEW c, Linked(p, h, t, n, c), n > 0,
         NEW l, l = [pool |-> p, head |-> h, tail |-> t, count |-> n]
  PROVE  LET d == [i \in 1 .. n - 1 |-> c[i]]
             m == List!PopBack(l)
         IN  /\ m = [pool |-> m.pool, head |-> m.head, tail |-> m.tail, count |-> n - 1]
             /\ Pool(m.pool)
             /\ Linked(m.pool, m.head, m.tail, n - 1, d)
             /\ DOMAIN m.pool = DOMAIN p \ {c[n]}
             /\ \A x \in DOMAIN m.pool : m.pool[x].value = p[x].value
             /\ \A x \in DOMAIN m.pool : (\A i \in 1 .. n : x # c[i]) => m.pool[x] = p[x]
<1> DEFINE d == [i \in 1 .. n - 1 |-> c[i]]
           prev == p[c[n]].prev
           told == List!Told(p, prev, "next", Null)
           q == List!Without(told, c[n])
<1>1. n \in Nat /\ 1 \in 1 .. n /\ n \in 1 .. n /\ h = c[1] /\ t = c[n] /\ c[n] \in DOMAIN p
  BY DEF Linked, Numbered
<1>2. t # Null
  BY <1>1, ListAssumption DEF Pool
<1>3. List!PopBack(l) = [pool |-> q, head |-> IF prev = Null THEN Null ELSE h, tail |-> prev, count |-> n - 1]
  BY <1>1, <1>2 DEF List!PopBack
<1>4. CASE n = 1
  <2>1. prev = Null
    BY <1>1, <1>4 DEF Linked
  <2>2. told = p
    BY <2>1, ToldNull
  <2> HIDE DEF told
  <2>3. Pool(q) /\ DOMAIN q = DOMAIN p \ {c[n]} /\ \A m \in DOMAIN p \ {c[n]} : q[m] = p[m]
    BY <2>2, WithoutIs
  <2> HIDE DEF q
  <2>4. Linked(q, Null, prev, n - 1, d)
    BY <1>4, <2>1 DEF Linked, Numbered
  <2> HIDE DEF d, prev
  <2> QED BY <1>3, <2>1, <2>3, <2>4 DEF d
<1>5. CASE n > 1
  <2> DEFINE k == n - 1
  <2>1. /\ prev = c[k] /\ k \in 1 .. n /\ k \in Nat /\ k > 0 /\ n = k + 1 /\ c[k] \in DOMAIN p
        /\ c[k] # c[n] /\ c[k] # Null
    <3>1. k \in 1 .. n - 1 /\ k \in 1 .. n /\ k + 1 = n /\ k # n /\ k \in Nat /\ k > 0
      BY <1>1, <1>5
    <3> HIDE DEF k
    <3> QED BY <1>1, <3>1, ListAssumption DEF Linked, Pool
  <2> HIDE DEF k
  <2>a. Null \in Links
    BY DEF Links
  <2>2. /\ Pool(told) /\ DOMAIN told = DOMAIN p
        /\ \A m \in DOMAIN p : m # c[k] => told[m] = p[m]
        /\ told[c[k]].next = Null /\ told[c[k]].prev = p[c[k]].prev /\ told[c[k]].value = p[c[k]].value
    <3> HIDE DEF prev
    <3>1. prev \in DOMAIN p
      BY <2>1
    <3>2. /\ Pool(told) /\ DOMAIN told = DOMAIN p
          /\ \A m \in DOMAIN p : m # prev => told[m] = p[m]
          /\ told[prev].next = Null /\ told[prev].prev = p[prev].prev
          /\ told[prev].value = p[prev].value
      BY <2>a, <3>1, ToldIs
    <3> QED BY <2>1, <3>2
  <2> HIDE DEF told
  <2>3. Pool(q) /\ DOMAIN q = DOMAIN p \ {c[n]} /\ \A m \in DOMAIN p \ {c[n]} : q[m] = told[m]
    <3>1. Pool(told) /\ DOMAIN told = DOMAIN p
      BY <2>2
    <3>2. Pool(q) /\ DOMAIN q = DOMAIN told \ {c[n]} /\ \A m \in DOMAIN told \ {c[n]} : q[m] = told[m]
      BY <3>1, WithoutIs
    <3> QED BY <3>1, <3>2
  <2> HIDE DEF q
  <2>4. Linked(q, h, prev, n - 1, d)
    <3>1. Numbered(d, n - 1)
      BY <1>1, <1>5 DEF Numbered
    <3>2. ASSUME NEW i \in 1 .. n - 1
          PROVE  d[i] = c[i] /\ i \in 1 .. n /\ d[i] \in DOMAIN q /\ q[d[i]] = told[d[i]]
      <4>1. i \in 1 .. n /\ i # n
        BY <1>1
      <4>2. c[i] # c[n] /\ c[i] \in DOMAIN p
        BY <1>1, <4>1 DEF Linked
      <4> QED BY <2>3, <4>1, <4>2
    <3>3. ASSUME NEW i \in 1 .. n - 1, NEW j \in 1 .. n - 1, d[i] = d[j] PROVE i = j
      <4>1. c[i] = c[j] /\ i \in 1 .. n /\ j \in 1 .. n
        BY <3>2, <3>3
      <4> QED BY <4>1 DEF Linked
    <3>4. ASSUME NEW i \in 1 .. (n - 1) - 1 PROVE q[d[i]].next = d[i + 1] /\ q[d[i + 1]].prev = d[i]
      <4>1. i \in 1 .. n - 1 /\ i + 1 \in 1 .. n - 1 /\ i + 1 \in 1 .. n /\ i \in 1 .. n /\ i # k
        BY <1>1, <2>1
      <4>2. d[i] = c[i] /\ d[i + 1] = c[i + 1]
        BY <4>1
      <4>3. q[d[i]] = told[c[i]] /\ q[d[i + 1]] = told[c[i + 1]]
        BY <3>2, <4>1, <4>2
      <4>4. p[c[i]].next = c[i + 1] /\ p[c[i + 1]].prev = c[i]
        BY <4>1 DEF Linked
      <4>5. c[i] # c[k]
        BY <2>1, <4>1 DEF Linked
      <4>6. told[c[i]] = p[c[i]] /\ told[c[i + 1]].prev = p[c[i + 1]].prev
        BY <2>2, <4>1, <4>5 DEF Linked
      <4> QED BY <4>2, <4>3, <4>4, <4>6
    <3>5. h = d[1] /\ prev = d[n - 1] /\ q[d[1]].prev = Null /\ q[d[n - 1]].next = Null
      <4>1. 1 \in 1 .. n - 1 /\ k \in 1 .. n - 1 /\ n - 1 = k
        BY <1>1, <1>5, <2>1
      <4>2. d[1] = c[1] /\ d[k] = c[k]
        BY <4>1
      <4>3. q[d[1]] = told[c[1]] /\ q[d[k]] = told[c[k]]
        BY <3>2, <4>1, <4>2
      <4>4. told[c[1]].prev = p[c[1]].prev
        BY <1>1, <2>2, <4>1 DEF Linked
      <4>5. p[c[1]].prev = Null
        BY <1>5 DEF Linked
      <4> QED BY <1>1, <2>1, <2>2, <4>1, <4>2, <4>3, <4>4, <4>5
    <3>6. n - 1 > 0
      BY <1>1, <1>5
    <3> HIDE DEF d, prev
    <3> QED BY <3>1, <3>2, <3>3, <3>4, <3>5, <3>6 DEF Linked
  <2>5. \A x \in DOMAIN q : q[x].value = p[x].value
    BY <2>2, <2>3
  <2>6. ASSUME NEW x \in DOMAIN q, \A i \in 1 .. n : x # c[i] PROVE q[x] = p[x]
    BY <2>1, <2>2, <2>3, <2>6
  <2>7. prev # Null
    BY <2>1
  <2> HIDE DEF d, prev
  <2> QED BY <1>3, <2>3, <2>4, <2>5, <2>6, <2>7 DEF d
<1>6. QED
  BY <1>1, <1>4, <1>5

(* A node that is made leaves the rest of the pool as it was.              *)
LEMMA WithIs ==
  ASSUME NEW p, Pool(p), NEW n \in Nodes, NEW made \in [value : Values, next : Links, prev : Links]
  PROVE  Pool(List!With(p, n, made)) /\ DOMAIN List!With(p, n, made) = DOMAIN p \cup {n}
         /\ List!With(p, n, made)[n] = made
         /\ \A m \in DOMAIN p \ {n} : List!With(p, n, made)[m] = p[m]
BY DEF Pool, List!With

(* A list one node longer, whose last is new to the pool.                  *)
Longer(c, n, made) == [i \in 1 .. n + 1 |-> IF i <= n THEN c[i] ELSE made]
Behind(p, t, made, x) == List!With(List!Told(p, t, "next", made), made, [value |-> x, next |-> Null, prev |-> t])

(* What push_back and push_front leave of the pool and of the chain.       *)
MadeLast(p, h, t, n, c, made, x) ==
  LET q == Behind(p, t, made, x)
  IN  /\ Pool(q)
      /\ Linked(q, IF t = Null THEN made ELSE h, made, n + 1, Longer(c, n, made))
      /\ DOMAIN q = DOMAIN p \cup {made}
      /\ q[made].value = x /\ \A m \in DOMAIN p : q[m].value = p[m].value
      /\ \A m \in DOMAIN p : (\A i \in 1 .. n : m # c[i]) => q[m] = p[m]

(* push_back in a pool: the chain with the new node behind it.             *)
LEMMA PushBackIs ==
  ASSUME NEW p, Pool(p), NEW h, NEW t, NEW n, NEW c, Linked(p, h, t, n, c),
         NEW made \in Nodes \ DOMAIN p, NEW x \in Values
  PROVE  MadeLast(p, h, t, n, c, made, x)
<1> USE DEF MadeLast
<1> DEFINE d == [i \in 1 .. n + 1 |-> IF i <= n THEN c[i] ELSE made]
           told == List!Told(p, t, "next", made)
           new == [value |-> x, next |-> Null, prev |-> t]
           q == List!With(told, made, new)
<1>e. Longer(c, n, made) = d /\ Behind(p, t, made, x) = q
  BY DEF Longer, Behind
<1>1. n \in Nat /\ made \in Nodes /\ made \notin DOMAIN p
  BY DEF Linked, Numbered
<1>2. CASE n = 0
  <2>1. t = Null
    BY <1>2 DEF Linked
  <2>2. told = p
    BY <2>1, ToldNull
  <2>3. /\ new \in [value : Values, next : Links, prev : Links] /\ new.next = Null
        /\ new.prev = Null /\ new.value = x
    BY <2>1 DEF Links
  <2> HIDE DEF told, new
  <2>4. /\ Pool(q) /\ DOMAIN q = DOMAIN p \cup {made} /\ q[made] = new
        /\ \A m \in DOMAIN p \ {made} : q[m] = p[m]
    BY <1>1, <2>2, <2>3, WithIs
  <2> HIDE DEF q
  <2>5. Linked(q, made, made, n + 1, d)
    <3>1. n + 1 = 1 /\ d = [i \in 1 .. 1 |-> made]
      BY <1>2
    <3> QED BY <2>3, <2>4, <3>1 DEF Linked, Numbered
  <2>6. q[made].value = x /\ \A m \in DOMAIN p : q[m] = p[m]
    BY <1>1, <2>3, <2>4
  <2> HIDE DEF d
  <2> QED BY <1>e, <2>1, <2>4, <2>5, <2>6
<1>3. CASE n > 0
  <2>1. /\ n \in 1 .. n /\ t = c[n] /\ t \in DOMAIN p /\ t # Null /\ t \in Links /\ made # t
        /\ made \in Links
    <3>1. n \in 1 .. n
      BY <1>1, <1>3
    <3>2. t = c[n] /\ t \in DOMAIN p
      BY <1>3, <3>1 DEF Linked
    <3> QED BY <1>1, <3>1, <3>2, ListAssumption DEF Pool, Links
  <2>2. /\ Pool(told) /\ DOMAIN told = DOMAIN p
        /\ \A m \in DOMAIN p : m # t => told[m] = p[m]
        /\ told[t].next = made /\ told[t].prev = p[t].prev /\ told[t].value = p[t].value
    BY <2>1, ToldIs
  <2>3. /\ new \in [value : Values, next : Links, prev : Links] /\ new.next = Null /\ new.prev = t
        /\ new.value = x
    BY <2>1 DEF Links
  <2> HIDE DEF told, new
  <2>4. /\ Pool(q) /\ DOMAIN q = DOMAIN p \cup {made} /\ q[made] = new
        /\ \A m \in DOMAIN p \ {made} : q[m] = told[m]
    <3>1. Pool(told) /\ DOMAIN told = DOMAIN p
      BY <2>2
    <3>2. /\ Pool(q) /\ DOMAIN q = DOMAIN told \cup {made} /\ q[made] = new
          /\ \A m \in DOMAIN told \ {made} : q[m] = told[m]
      BY <1>1, <2>3, <3>1, WithIs
    <3> QED BY <3>1, <3>2
  <2> HIDE DEF q
  <2>5. Linked(q, h, made, n + 1, d)
    <3>1. Numbered(d, n + 1)
      BY <1>1 DEF Numbered
    <3>2. d[n + 1] = made /\ n + 1 \in 1 .. n + 1
      BY <1>1
    <3>3. ASSUME NEW i \in 1 .. n
          PROVE  d[i] = c[i] /\ c[i] \in DOMAIN p /\ c[i] # made /\ q[d[i]] = told[c[i]] /\ i \in 1 .. n + 1
      <4>1. d[i] = c[i] /\ i \in 1 .. n + 1
        BY <1>1
      <4>2. c[i] \in DOMAIN p
        BY DEF Linked
      <4> QED BY <1>1, <2>4, <4>1, <4>2
    <3>4. \A i \in 1 .. n + 1 : i \in 1 .. n \/ i = n + 1
      BY <1>1
    <3>5. \A i \in 1 .. n + 1 : d[i] \in DOMAIN q
      BY <2>4, <3>2, <3>3, <3>4
    <3>6. ASSUME NEW i \in 1 .. n + 1, NEW j \in 1 .. n + 1, d[i] = d[j] PROVE i = j
      <4>1. CASE i \in 1 .. n /\ j \in 1 .. n
        BY <3>3, <3>6, <4>1 DEF Linked
      <4>2. CASE i = n + 1 \/ j = n + 1
        BY <3>2, <3>3, <3>4, <3>6, <4>2
      <4> QED BY <3>4, <4>1, <4>2
    <3>7. ASSUME NEW i \in 1 .. (n + 1) - 1 PROVE q[d[i]].next = d[i + 1] /\ q[d[i + 1]].prev = d[i]
      <4>1. CASE i = n
        BY <2>1, <2>2, <2>3, <2>4, <3>2, <3>3, <4>1
      <4>2. CASE i # n
        <5>1. i \in 1 .. n - 1 /\ i \in 1 .. n /\ i + 1 \in 1 .. n /\ i # n
          BY <1>1, <4>2
        <5>2. p[c[i]].next = c[i + 1] /\ p[c[i + 1]].prev = c[i] /\ c[i] # c[n]
          BY <2>1, <5>1 DEF Linked
        <5>3. told[c[i]] = p[c[i]] /\ told[c[i + 1]].prev = p[c[i + 1]].prev
          BY <2>1, <2>2, <3>3, <5>1, <5>2
        <5> QED BY <3>3, <5>1, <5>2, <5>3
      <4> QED BY <4>1, <4>2
    <3>8. h = d[1] /\ made = d[n + 1] /\ q[d[1]].prev = Null /\ q[d[n + 1]].next = Null
      <4>1. 1 \in 1 .. n
        BY <1>1, <1>3
      <4>2. h = c[1] /\ p[c[1]].prev = Null
        BY <1>3 DEF Linked
      <4>3. told[c[1]].prev = p[c[1]].prev
        BY <2>2, <3>3, <4>1
      <4> QED BY <2>3, <2>4, <3>2, <3>3, <4>1, <4>2, <4>3
    <3>9. n + 1 > 0
      BY <1>1
    <3> HIDE DEF d
    <3> QED BY <3>1, <3>5, <3>6, <3>7, <3>8, <3>9 DEF Linked
  <2>6. q[made].value = x /\ \A m \in DOMAIN p : q[m].value = p[m].value
    BY <1>1, <2>2, <2>3, <2>4
  <2>7. ASSUME NEW m \in DOMAIN p, \A i \in 1 .. n : m # c[i] PROVE q[m] = p[m]
    BY <1>1, <2>1, <2>2, <2>4, <2>7
  <2> HIDE DEF d
  <2> QED BY <1>e, <2>1, <2>4, <2>5, <2>6, <2>7
<1>4. QED
  BY <1>1, <1>2, <1>3

(* The same at the other end.                                              *)
Preceded(c, n, made) == [i \in 1 .. n + 1 |-> IF i = 1 THEN made ELSE c[i - 1]]
InFront(p, h, made, x) == List!With(List!Told(p, h, "prev", made), made, [value |-> x, next |-> h, prev |-> Null])

MadeFirst(p, h, t, n, c, made, x) ==
  LET q == InFront(p, h, made, x)
  IN  /\ Pool(q)
      /\ Linked(q, made, IF h = Null THEN made ELSE t, n + 1, Preceded(c, n, made))
      /\ DOMAIN q = DOMAIN p \cup {made}
      /\ q[made].value = x /\ \A m \in DOMAIN p : q[m].value = p[m].value
      /\ \A m \in DOMAIN p : (\A i \in 1 .. n : m # c[i]) => q[m] = p[m]

(* push_front in a pool: the chain with the new node before it.            *)
LEMMA PushFrontIs ==
  ASSUME NEW p, Pool(p), NEW h, NEW t, NEW n, NEW c, Linked(p, h, t, n, c),
         NEW made \in Nodes \ DOMAIN p, NEW x \in Values
  PROVE  MadeFirst(p, h, t, n, c, made, x)
<1> USE DEF MadeFirst
<1> DEFINE d == [i \in 1 .. n + 1 |-> IF i = 1 THEN made ELSE c[i - 1]]
           told == List!Told(p, h, "prev", made)
           new == [value |-> x, next |-> h, prev |-> Null]
           q == List!With(told, made, new)
<1>e. Preceded(c, n, made) = d /\ InFront(p, h, made, x) = q
  BY DEF Preceded, InFront
<1>1. n \in Nat /\ made \in Nodes /\ made \notin DOMAIN p
  BY DEF Linked, Numbered
<1>2. CASE n = 0
  <2>1. h = Null
    BY <1>2 DEF Linked
  <2>2. told = p
    BY <2>1, ToldNull
  <2>3. /\ new \in [value : Values, next : Links, prev : Links] /\ new.next = Null
        /\ new.prev = Null /\ new.value = x
    BY <2>1 DEF Links
  <2> HIDE DEF told, new
  <2>4. /\ Pool(q) /\ DOMAIN q = DOMAIN p \cup {made} /\ q[made] = new
        /\ \A m \in DOMAIN p \ {made} : q[m] = p[m]
    BY <1>1, <2>2, <2>3, WithIs
  <2> HIDE DEF q
  <2>5. Linked(q, made, made, n + 1, d)
    <3>1. n + 1 = 1 /\ d = [i \in 1 .. 1 |-> made]
      BY <1>2
    <3> QED BY <2>3, <2>4, <3>1 DEF Linked, Numbered
  <2>6. q[made].value = x /\ \A m \in DOMAIN p : q[m] = p[m]
    BY <1>1, <2>3, <2>4
  <2> HIDE DEF d
  <2> QED BY <1>e, <2>1, <2>4, <2>5, <2>6
<1>3. CASE n > 0
  <2>1. /\ 1 \in 1 .. n /\ h = c[1] /\ h \in DOMAIN p /\ h # Null /\ h \in Links /\ made # h
        /\ made \in Links
    <3>1. 1 \in 1 .. n
      BY <1>1, <1>3
    <3>2. h = c[1] /\ h \in DOMAIN p
      BY <1>3, <3>1 DEF Linked
    <3> QED BY <1>1, <3>1, <3>2, ListAssumption DEF Pool, Links
  <2>2. /\ Pool(told) /\ DOMAIN told = DOMAIN p
        /\ \A m \in DOMAIN p : m # h => told[m] = p[m]
        /\ told[h].prev = made /\ told[h].next = p[h].next /\ told[h].value = p[h].value
    BY <2>1, ToldIs
  <2>3. /\ new \in [value : Values, next : Links, prev : Links] /\ new.next = h /\ new.prev = Null
        /\ new.value = x
    BY <2>1 DEF Links
  <2> HIDE DEF told, new
  <2>4. /\ Pool(q) /\ DOMAIN q = DOMAIN p \cup {made} /\ q[made] = new
        /\ \A m \in DOMAIN p \ {made} : q[m] = told[m]
    <3>1. Pool(told) /\ DOMAIN told = DOMAIN p
      BY <2>2
    <3>2. /\ Pool(q) /\ DOMAIN q = DOMAIN told \cup {made} /\ q[made] = new
          /\ \A m \in DOMAIN told \ {made} : q[m] = told[m]
      BY <1>1, <2>3, <3>1, WithIs
    <3> QED BY <3>1, <3>2
  <2> HIDE DEF q
  <2>5. Linked(q, made, t, n + 1, d)
    <3>1. Numbered(d, n + 1)
      BY <1>1 DEF Numbered
    <3>2. d[1] = made /\ 1 \in 1 .. n + 1
      BY <1>1
    <3>3. ASSUME NEW i \in 1 .. n
          PROVE  /\ d[i + 1] = c[i] /\ c[i] \in DOMAIN p /\ c[i] # made /\ q[d[i + 1]] = told[c[i]]
                 /\ i + 1 \in 1 .. n + 1
      <4>1. d[i + 1] = c[i] /\ i + 1 \in 1 .. n + 1
        BY <1>1
      <4>2. c[i] \in DOMAIN p
        BY DEF Linked
      <4> QED BY <1>1, <2>4, <4>1, <4>2
    <3>4. \A i \in 1 .. n + 1 : i = 1 \/ (i - 1 \in 1 .. n /\ i = (i - 1) + 1)
      BY <1>1
    <3>5. \A i \in 1 .. n + 1 : d[i] \in DOMAIN q
      <4> TAKE i \in 1 .. n + 1
      <4>1. CASE i = 1
        BY <2>4, <3>2, <4>1
      <4>2. CASE i - 1 \in 1 .. n /\ i = (i - 1) + 1
        BY <2>4, <3>3, <4>2
      <4> QED BY <3>4, <4>1, <4>2
    <3>6. ASSUME NEW i \in 1 .. n + 1, NEW j \in 1 .. n + 1, d[i] = d[j] PROVE i = j
      <4>1. CASE i = 1 /\ j = 1
        BY <4>1
      <4>2. CASE i # 1 /\ j # 1
        <5>1. i - 1 \in 1 .. n /\ j - 1 \in 1 .. n /\ c[i - 1] = c[j - 1]
          BY <1>1, <3>6, <4>2
        <5>2. i - 1 = j - 1
          BY <5>1 DEF Linked
        <5> QED BY <1>1, <5>2
      <4>3. CASE i = 1 /\ j # 1
        <5>1. j - 1 \in 1 .. n /\ j = (j - 1) + 1
          BY <3>4, <4>3
        <5>2. d[j] # made
          BY <3>3, <5>1
        <5> QED BY <3>2, <3>6, <4>3, <5>2
      <4>4. CASE i # 1 /\ j = 1
        <5>1. i - 1 \in 1 .. n /\ i = (i - 1) + 1
          BY <3>4, <4>4
        <5>2. d[i] # made
          BY <3>3, <5>1
        <5> QED BY <3>2, <3>6, <4>4, <5>2
      <4> QED BY <4>1, <4>2, <4>3, <4>4
    <3>7. ASSUME NEW i \in 1 .. (n + 1) - 1 PROVE q[d[i]].next = d[i + 1] /\ q[d[i + 1]].prev = d[i]
      <4>1. CASE i = 1
        BY <2>1, <2>2, <2>3, <2>4, <3>2, <3>3, <4>1
      <4>2. CASE i # 1
        <5> DEFINE j == i - 1
        <5>1. j \in 1 .. n - 1 /\ j \in 1 .. n /\ j + 1 \in 1 .. n /\ j + 1 = i /\ j + 1 # 1
          BY <1>1, <4>2
        <5> HIDE DEF j
        <5>2. p[c[j]].next = c[j + 1] /\ p[c[j + 1]].prev = c[j] /\ c[j + 1] # c[1]
          BY <2>1, <5>1 DEF Linked
        <5>3. told[c[j]].next = p[c[j]].next /\ told[c[j + 1]] = p[c[j + 1]]
          BY <2>1, <2>2, <3>3, <5>1, <5>2
        <5>4. /\ d[j + 1] = c[j] /\ d[(j + 1) + 1] = c[j + 1] /\ q[d[j + 1]] = told[c[j]]
              /\ q[d[(j + 1) + 1]] = told[c[j + 1]]
          BY <3>3, <5>1
        <5> QED BY <5>1, <5>2, <5>3, <5>4
      <4> QED BY <4>1, <4>2
    <3>8. made = d[1] /\ t = d[n + 1] /\ q[d[1]].prev = Null /\ q[d[n + 1]].next = Null
      <4>1. n \in 1 .. n
        BY <1>1, <1>3
      <4>2. t = c[n] /\ p[c[n]].next = Null
        BY <1>3 DEF Linked
      <4>3. told[c[n]].next = p[c[n]].next
        BY <2>2, <3>3, <4>1
      <4> QED BY <2>3, <2>4, <3>2, <3>3, <4>1, <4>2, <4>3
    <3>9. n + 1 > 0
      BY <1>1
    <3> HIDE DEF d
    <3> QED BY <3>1, <3>5, <3>6, <3>7, <3>8, <3>9 DEF Linked
  <2>6. q[made].value = x /\ \A m \in DOMAIN p : q[m].value = p[m].value
    BY <1>1, <2>2, <2>3, <2>4
  <2>7. ASSUME NEW m \in DOMAIN p, \A i \in 1 .. n : m # c[i] PROVE q[m] = p[m]
    BY <1>1, <2>1, <2>2, <2>4, <2>7
  <2> HIDE DEF d
  <2> QED BY <1>e, <2>1, <2>4, <2>5, <2>6, <2>7
<1>4. QED
  BY <1>1, <1>2, <1>3

(* while (count > 0) pop_front(): the list is empty, its nodes are gone    *)
(* from the pool, and nothing else in it has changed.                      *)
LEMMA ClearedIs ==
  ASSUME NEW p, Pool(p), NEW h, NEW t, NEW n, NEW c, Linked(p, h, t, n, c),
         NEW l, l = [pool |-> p, head |-> h, tail |-> t, count |-> n]
  PROVE  LET m == List!Cleared(l)
         IN  /\ m = [pool |-> m.pool, head |-> m.head, tail |-> m.tail, count |-> 0]
             /\ Pool(m.pool)
             /\ Linked(m.pool, m.head, m.tail, 0, <<>>)
             /\ DOMAIN m.pool = DOMAIN p \ {c[i] : i \in 1 .. n}
             /\ \A x \in DOMAIN m.pool : m.pool[x] = p[x]
<1> DEFINE Popping(f, m) == f = [i \in 0 .. m |-> f[i]] /\ f[0] = l /\ \A i \in 1 .. m : f[i] = List!PopFront(f[i - 1])
           S == {m \in Nat : \E f : Popping(f, m)}
           Follows(g) == g = [k \in 0 .. n |-> IF k = n THEN l ELSE List!PopFront(g[k + 1])]
           left == CHOOSE g : Follows(g)
<1>1. n \in Nat /\ l.count = n
  BY DEF Linked, Numbered
<1>2. List!Cleared(l) = left[0]
  BY <1>1 DEF List!Cleared
<1>3. n \in S
  <2>1. 0 \in S
    <3> DEFINE f == [i \in 0 .. 0 |-> l]
    <3>1. Popping(f, 0)
      OBVIOUS
    <3> QED BY <3>1
  <2>2. ASSUME NEW m \in Nat, m \in S PROVE m + 1 \in S
    <3>1. PICK f : Popping(f, m)
      BY <2>2
    <3> DEFINE g == [i \in 0 .. m + 1 |-> IF i <= m THEN f[i] ELSE List!PopFront(f[m])]
    <3>2. g[0] = l
      BY <3>1
    <3>3. ASSUME NEW i \in 1 .. m + 1 PROVE g[i] = List!PopFront(g[i - 1])
      <4>1. CASE i = m + 1
        BY <4>1
      <4>2. CASE i # m + 1
        <5>1. i \in 1 .. m /\ i \in 0 .. m + 1 /\ i - 1 \in 0 .. m + 1 /\ i <= m /\ i - 1 <= m
          BY <4>2
        <5>2. g[i] = f[i] /\ g[i - 1] = f[i - 1]
          BY <5>1
        <5> QED BY <3>1, <5>1, <5>2
      <4> QED BY <4>1, <4>2
    <3>4. g = [i \in 0 .. m + 1 |-> g[i]]
      OBVIOUS
    <3> HIDE DEF g
    <3>5. Popping(g, m + 1)
      BY <3>2, <3>3, <3>4
    <3> HIDE DEF Popping
    <3> QED BY <3>5
  <2> HIDE DEF S
  <2>3. Nat \subseteq S
    BY <2>1, <2>2, SetInduction
  <2> QED BY <1>1, <2>3
<1>4. Follows(left)
  <2>1. PICK f : Popping(f, n)
    BY <1>3
  <2> DEFINE g == [k \in 0 .. n |-> f[n - k]]
  <2>2. ASSUME NEW k \in 0 .. n PROVE g[k] = IF k = n THEN l ELSE List!PopFront(g[k + 1])
    <3>1. CASE k = n
      <4>1. g[k] = f[0]
        BY <1>1, <3>1
      <4> QED BY <2>1, <3>1, <4>1
    <3>2. CASE k # n
      <4>1. k + 1 \in 0 .. n /\ n - k \in 1 .. n /\ n - (k + 1) = (n - k) - 1
        BY <1>1, <3>2
      <4>2. g[k] = f[n - k] /\ g[k + 1] = f[(n - k) - 1]
        BY <4>1
      <4>3. f[n - k] = List!PopFront(f[(n - k) - 1])
        BY <2>1, <4>1
      <4> QED BY <3>2, <4>2, <4>3
    <3> QED BY <3>1, <3>2
  <2>3. g = [k \in 0 .. n |-> g[k]]
    OBVIOUS
  <2> HIDE DEF g
  <2>4. Follows(g)
    BY <2>2, <2>3
  <2> HIDE DEF Follows
  <2> QED BY <2>4, Zenon
<1> HIDE DEF left
<1>5. \A k \in 0 .. n : left[k] = IF k = n THEN l ELSE List!PopFront(left[k + 1])
  BY <1>4
<1> DEFINE After(m, j) ==
             /\ m = [pool |-> m.pool, head |-> m.head, tail |-> m.tail, count |-> n - j]
             /\ Pool(m.pool)
             /\ Linked(m.pool, m.head, m.tail, n - j, [i \in 1 .. n - j |-> c[i + j]])
             /\ DOMAIN m.pool = DOMAIN p \ {c[i] : i \in 1 .. j}
             /\ \A x \in DOMAIN m.pool : (\A i \in 1 .. n : x # c[i]) => m.pool[x] = p[x]
           T == {j \in Nat : j <= n => After(left[n - j], j)}
<1>6. 0 \in T
  <2>1. left[n - 0] = l
    <3>1. n \in 0 .. n /\ n - 0 = n
      BY <1>1
    <3> QED BY <1>5, <3>1
  <2>2. [i \in 1 .. n - 0 |-> c[i + 0]] = c
    BY <1>1 DEF Linked, Numbered
  <2>3. n - 0 = n /\ {c[i] : i \in 1 .. 0} = {}
    BY <1>1
  <2>4. After(l, 0)
    BY <2>2, <2>3
  <2> HIDE DEF After
  <2> QED BY <2>1, <2>4
<1>7. ASSUME NEW j \in Nat, j \in T PROVE j + 1 \in T
  <2> SUFFICES ASSUME j + 1 <= n PROVE After(left[n - (j + 1)], j + 1)
    BY <1>7
  <2> DEFINE m == left[n - j]
             q == m.pool
             d == [i \in 1 .. n - j |-> c[i + j]]
             e == [i \in 1 .. n - (j + 1) |-> c[i + (j + 1)]]
             b == left[n - (j + 1)]
  <2>1. After(m, j)
    BY <1>1, <1>7
  <2>2. b = List!PopFront(m)
    <3>1. n - (j + 1) \in 0 .. n /\ n - (j + 1) # n /\ (n - (j + 1)) + 1 = n - j
      BY <1>1
    <3> QED BY <1>5, <3>1
  <2> HIDE DEF m, b, d
  <2>3. /\ Linked(q, m.head, m.tail, n - j, d) /\ Pool(q)
        /\ m = [pool |-> q, head |-> m.head, tail |-> m.tail, count |-> n - j]
    BY <2>1 DEF d
  <2>4. n - j > 0 /\ (n - j) - 1 = n - (j + 1)
    BY <1>1
  <2> DEFINE dd == [i \in 1 .. (n - j) - 1 |-> d[i + 1]]
  <2>5. /\ b = [pool |-> b.pool, head |-> b.head, tail |-> b.tail, count |-> (n - j) - 1]
        /\ Pool(b.pool)
        /\ Linked(b.pool, b.head, b.tail, (n - j) - 1, dd)
        /\ DOMAIN b.pool = DOMAIN q \ {d[1]}
        /\ \A x \in DOMAIN b.pool : (\A i \in 1 .. n - j : x # d[i]) => b.pool[x] = q[x]
    <3> HIDE DEF dd
    <3> QED BY <2>2, <2>3, <2>4, PopFrontIs DEF dd
  <2>6. dd = e
    <3>1. ASSUME NEW i \in 1 .. n - (j + 1) PROVE d[i + 1] = c[i + (j + 1)]
      <4>1. i + 1 \in 1 .. n - j /\ (i + 1) + j = i + (j + 1)
        BY <1>1
      <4> QED BY <4>1 DEF d
    <3> QED BY <2>4, <3>1
  <2>7. d[1] = c[j + 1]
    <3>1. 1 \in 1 .. n - j /\ 1 + j = j + 1
      BY <1>1
    <3> QED BY <3>1 DEF d
  <2>8. DOMAIN b.pool = DOMAIN p \ {c[i] : i \in 1 .. j + 1}
    <3>1. DOMAIN q = DOMAIN p \ {c[i] : i \in 1 .. j}
      BY <2>1
    <3>2. {c[i] : i \in 1 .. j + 1} = {c[i] : i \in 1 .. j} \cup {c[j + 1]}
      <4>1. 1 .. j + 1 = (1 .. j) \cup {j + 1}
        OBVIOUS
      <4> QED BY <4>1
    <3> QED BY <2>5, <2>7, <3>1, <3>2
  <2>9. ASSUME NEW x \in DOMAIN b.pool, \A i \in 1 .. n : x # c[i] PROVE b.pool[x] = p[x]
    <3>1. x \in DOMAIN q
      BY <2>5
    <3>2. q[x] = p[x]
      BY <2>1, <2>9, <3>1
    <3>3. \A i \in 1 .. n - j : x # d[i]
      <4> TAKE i \in 1 .. n - j
      <4>1. i + j \in 1 .. n /\ d[i] = c[i + j]
        BY <1>1 DEF d
      <4> QED BY <2>9, <4>1
    <3> QED BY <2>5, <3>2, <3>3
  <2> HIDE DEF dd, e
  <2>10. /\ b = [pool |-> b.pool, head |-> b.head, tail |-> b.tail, count |-> n - (j + 1)]
         /\ Linked(b.pool, b.head, b.tail, n - (j + 1), e)
    BY <2>4, <2>5, <2>6
  <2>11. After(b, j + 1)
    BY <2>5, <2>8, <2>9, <2>10 DEF e
  <2> HIDE DEF After
  <2> QED BY <2>11 DEF b
<1>8. After(left[0], n)
  <2>1. n \in T
    <3> HIDE DEF T
    <3> QED BY <1>1, <1>6, <1>7, SetInduction
  <2>2. n - n = 0 /\ n <= n
    BY <1>1
  <2> HIDE DEF After
  <2> QED BY <2>1, <2>2
<1> DEFINE m == left[0]
<1>9. n - n = 0 /\ [i \in 1 .. n - n |-> c[i + n]] = <<>>
  BY <1>1
<1>10. \A x \in DOMAIN m.pool : m.pool[x] = p[x]
  <2> TAKE x \in DOMAIN m.pool
  <2>1. \A i \in 1 .. n : x # c[i]
    BY <1>8
  <2> QED BY <1>8, <2>1
<1>11. QED
  BY <1>2, <1>8, <1>9, <1>10

ListAsked == lcall # Idle => \E o \in Lists : lcall \in List!Calls(o)

(* Every list is linked, as c says of each; no node is in two, and none of *)
(* the pool is in no list.                                                 *)
Chains(c) ==
  /\ Pool(node)
  /\ head = [o \in Lists |-> head[o]] /\ tail = [o \in Lists |-> tail[o]]
  /\ size \in [Lists -> Nat]
  /\ \A o \in Lists : Linked(node, head[o], tail[o], size[o], c[o])
  /\ \A o, p \in Lists : \A i \in 1 .. size[o], j \in 1 .. size[p] : c[o][i] = c[p][j] => o = p
  /\ \A x \in DOMAIN node : \E o \in Lists : \E i \in 1 .. size[o] : c[o][i] = x

ListInv == ListAsked /\ \E c : Chains(c)

(* A walk that goes where the links lead.                                  *)
LEMMA WalkIs ==
  ASSUME NEW w, NEW n, Numbered(w, n), NEW start, n > 0 => w[1] = start,
         NEW side, \A i \in 1 .. n - 1 : node[w[i]][side] = w[i + 1]
  PROVE  List!Walk(start, side, n) = w
<1> DEFINE Follows(f) == f = [i \in 1 .. n |-> IF i = 1 THEN start ELSE node[f[i - 1]][side]]
           at == CHOOSE f : Follows(f)
<1>0. n \in Nat /\ w = [i \in 1 .. n |-> w[i]]
  BY DEF Numbered
<1>1. List!Walk(start, side, n) = at
  BY DEF List!Walk
<1>2. Follows(w)
  <2>1. ASSUME NEW i \in 1 .. n PROVE w[i] = IF i = 1 THEN start ELSE node[w[i - 1]][side]
    <3>1. CASE i = 1
      BY <1>0, <3>1
    <3>2. CASE i # 1
      <4>1. i - 1 \in 1 .. n - 1 /\ (i - 1) + 1 = i
        BY <1>0, <3>2
      <4>2. node[w[i - 1]][side] = w[(i - 1) + 1]
        BY <4>1
      <4> QED BY <3>2, <4>1, <4>2
    <3> QED BY <3>1, <3>2
  <2> QED BY <1>0, <2>1
<1>3. Follows(at)
  <2> HIDE DEF Follows
  <2> QED BY <1>2, Zenon
<1> HIDE DEF at
<1>4. \A i \in 1 .. n : at[i] = IF i = 1 THEN start ELSE node[at[i - 1]][side]
  BY <1>3
<1> DEFINE S == {k \in Nat : k + 1 \in 1 .. n => at[k + 1] = w[k + 1]}
<1>5. 0 \in S
  <2> SUFFICES ASSUME 0 + 1 \in 1 .. n PROVE at[0 + 1] = w[0 + 1]
    OBVIOUS
  <2>1. 0 + 1 = 1 /\ 1 \in 1 .. n /\ n > 0
    BY <1>0
  <2> QED BY <1>4, <2>1
<1>6. ASSUME NEW k \in Nat, k \in S PROVE k + 1 \in S
  <2> DEFINE j == k + 1
  <2> SUFFICES ASSUME j + 1 \in 1 .. n PROVE at[j + 1] = w[j + 1]
    OBVIOUS
  <2>1. j \in 1 .. n - 1 /\ j \in 1 .. n /\ (j + 1) - 1 = j /\ j + 1 # 1
    BY <1>0
  <2>2. at[j] = w[j]
    BY <1>6, <2>1
  <2> HIDE DEF j
  <2>3. at[j + 1] = node[at[j]][side]
    <3>1. at[j + 1] = node[at[(j + 1) - 1]][side]
      BY <1>4, <2>1
    <3> QED BY <2>1, <3>1
  <2>4. node[w[j]][side] = w[j + 1]
    BY <2>1
  <2> QED BY <2>2, <2>3, <2>4
<1>7. \A i \in 1 .. n : at[i] = w[i]
  <2> TAKE i \in 1 .. n
  <2>1. i - 1 \in Nat /\ (i - 1) + 1 = i
    BY <1>0
  <2>2. i - 1 \in S
    <3> HIDE DEF S
    <3> QED BY <1>5, <1>6, <2>1, SetInduction
  <2> QED BY <2>1, <2>2
<1>8. at = [i \in 1 .. n |-> at[i]]
  BY <1>3
<1>9. QED
  BY <1>0, <1>1, <1>7, <1>8

(* Walked either way a list is its chain, or its chain reversed.           *)
LEMMA BothWays ==
  ASSUME NEW o \in Lists, NEW c, Linked(node, head[o], tail[o], size[o], c)
  PROVE  List!Forward(o) = c /\ List!Backward(o) = [i \in 1 .. size[o] |-> c[size[o] + 1 - i]]
<1> DEFINE n == size[o]
           w == [i \in 1 .. n |-> c[n + 1 - i]]
<1>0. n \in Nat /\ Numbered(c, n)
  BY DEF Linked, Numbered
<1> HIDE DEF n
<1>1. List!Forward(o) = c
  <2>1. n > 0 => c[1] = head[o]
    BY DEF Linked, n
  <2>2. ASSUME NEW i \in 1 .. n - 1 PROVE node[c[i]]["next"] = c[i + 1]
    <3>1. node[c[i]].next = c[i + 1]
      BY DEF Linked, n
    <3> QED BY <3>1
  <2>3. List!Walk(head[o], "next", n) = c
    BY <1>0, <2>1, <2>2, WalkIs
  <2> QED BY <2>3 DEF List!Forward, n
<1>2. List!Backward(o) = w
  <2>1. Numbered(w, n)
    BY <1>0 DEF Numbered
  <2>2. n > 0 => w[1] = tail[o]
    <3> HAVE n > 0
    <3>1. 1 \in 1 .. n /\ n + 1 - 1 = n
      BY <1>0
    <3>2. tail[o] = c[n]
      BY DEF Linked, n
    <3> QED BY <3>1, <3>2
  <2>3. ASSUME NEW i \in 1 .. n - 1 PROVE node[w[i]]["prev"] = w[i + 1]
    <3> DEFINE j == n - i
    <3>1. /\ i \in 1 .. n /\ i + 1 \in 1 .. n /\ j \in 1 .. n - 1 /\ n + 1 - i = j + 1
          /\ n + 1 - (i + 1) = j
      BY <1>0
    <3>2. w[i] = c[j + 1] /\ w[i + 1] = c[j]
      BY <3>1
    <3> HIDE DEF j
    <3>3. node[c[j + 1]].prev = c[j]
      BY <3>1 DEF Linked, n
    <3> QED BY <3>2, <3>3
  <2> HIDE DEF w
  <2>4. List!Walk(tail[o], "prev", n) = w
    BY <2>1, <2>2, <2>3, WalkIs
  <2> QED BY <2>4 DEF List!Backward, n
<1>3. QED
  BY <1>1, <1>2 DEF n

\* What the lists hold is what is in their chains.
ContentsFollow ==
  \A s : Chains(s) => List!Contents = [p \in Lists |-> [i \in 1 .. size[p] |-> node[s[p][i]].value]]

(* What the lists hold, by their chains.                                   *)
LEMMA ContentsIs == ContentsFollow
<1> SUFFICES ASSUME NEW c, Chains(c)
             PROVE  List!Contents = [o \in Lists |-> [i \in 1 .. size[o] |-> node[c[o][i]].value]]
  BY DEF ContentsFollow
<1>1. ASSUME NEW o \in Lists PROVE List!Forward(o) = c[o]
  BY BothWays DEF Chains
<1>2. QED
  BY <1>1 DEF List!Contents

(* A list has no more elements than there are nodes.                       *)
LEMMA CountIs ==
  ASSUME NEW c, Chains(c), NEW o \in Lists
  PROVE  size[o] <= Cardinality(Nodes) /\ Cardinality(Nodes) \in Nat
<1> DEFINE n == size[o]
           f == c[o]
<1>1. n \in Nat /\ Linked(node, head[o], tail[o], n, f) /\ DOMAIN node \subseteq Nodes
  BY DEF Chains, Pool
<1>2. f \in [1 .. n -> Nodes] /\ \A i, j \in 1 .. n : f[i] = f[j] => i = j
  BY <1>1 DEF Linked, Numbered
<1>3. f \in Injection(1 .. n, Nodes)
  BY <1>2 DEF Injection, IsInjective
<1>4. Cardinality(1 .. n) <= Cardinality(Nodes)
  BY <1>3, ListAssumption, FS_Injection
<1>5. Cardinality(1 .. n) = n
  BY <1>1, FS_Interval
<1>6. QED
  BY <1>4, <1>5, ListAssumption, FS_CardinalityType

(* Chains that share no node, and have every node, are linked both ways.   *)
LEMMA ListsLinked == ASSUME NEW c, Chains(c) PROVE List!LinkedBothWays
<1>1. ASSUME NEW o \in Lists
      PROVE  /\ \A i \in 1 .. size[o] : List!Forward(o)[i] = List!Backward(o)[size[o] + 1 - i]
             /\ IF size[o] = 0 THEN head[o] = Null /\ tail[o] = Null
                ELSE node[tail[o]].next = Null /\ node[head[o]].prev = Null
  <2> DEFINE n == size[o]
  <2>1. n \in Nat /\ Linked(node, head[o], tail[o], n, c[o])
    BY DEF Chains
  <2>2. List!Forward(o) = c[o] /\ List!Backward(o) = [i \in 1 .. n |-> c[o][n + 1 - i]]
    BY <2>1, BothWays
  <2>3. ASSUME NEW i \in 1 .. n PROVE List!Forward(o)[i] = List!Backward(o)[n + 1 - i]
    <3>1. n + 1 - i \in 1 .. n /\ n + 1 - (n + 1 - i) = i
      BY <2>1
    <3> QED BY <2>2, <3>1
  <2>4. IF n = 0 THEN head[o] = Null /\ tail[o] = Null
        ELSE node[tail[o]].next = Null /\ node[head[o]].prev = Null
    BY <2>1 DEF Linked
  <2> QED BY <2>3, <2>4
<1>2. ASSUME NEW x \in DOMAIN node
      PROVE  Cardinality({oi \in Lists \X (1 .. Cardinality(Nodes)) :
                           oi[2] <= size[oi[1]] /\ List!Forward(oi[1])[oi[2]] = x}) = 1
  <2> DEFINE At == {oi \in Lists \X (1 .. Cardinality(Nodes)) :
                           oi[2] <= size[oi[1]] /\ List!Forward(oi[1])[oi[2]] = x}
  <2>1. PICK o \in Lists : \E i \in 1 .. size[o] : c[o][i] = x
    BY DEF Chains
  <2>2. PICK i \in 1 .. size[o] : c[o][i] = x
    BY <2>1
  <2>3. \A p \in Lists : List!Forward(p) = c[p]
    BY BothWays DEF Chains
  <2>4. <<o, i>> \in At
    <3>1. size[o] <= Cardinality(Nodes) /\ Cardinality(Nodes) \in Nat /\ size[o] \in Nat
      BY CountIs DEF Chains
    <3>2. i \in 1 .. Cardinality(Nodes) /\ i <= size[o]
      BY <3>1
    <3> QED BY <2>2, <2>3, <3>2
  <2>5. ASSUME NEW oi \in At PROVE oi = <<o, i>>
    <3>1. PICK p \in Lists, j \in 1 .. Cardinality(Nodes) : oi = <<p, j>>
      OBVIOUS
    <3>2. size[p] \in Nat /\ j <= size[p] /\ c[p][j] = x
      BY <2>3, <3>1 DEF Chains
    <3>3. j \in 1 .. size[p]
      BY <3>2
    <3>4. p = o
      BY <2>2, <3>2, <3>3 DEF Chains
    <3>5. j = i
      BY <2>2, <3>2, <3>3, <3>4 DEF Chains, Linked
    <3> QED BY <3>1, <3>4, <3>5
  <2> HIDE DEF At
  <2>6. At = {<<o, i>>}
    BY <2>4, <2>5
  <2>7. Cardinality(At) = 1
    BY <2>6, FS_Singleton
  <2> QED BY <2>7 DEF At
<1>3. QED
  <2>1. \A S : List!Cardinality(S) = Cardinality(S)
    BY Zenon DEF List!Cardinality, Cardinality
  <2>2. \A x \in DOMAIN node : List!Cardinality({oi \in Lists \X (1 .. List!Cardinality(Nodes)) :
                                   oi[2] <= size[oi[1]] /\ List!Forward(oi[1])[oi[2]] = x}) = 1
    BY <1>2, <2>1
  <2> QED BY <1>1, <2>2, Zenon DEF List!LinkedBothWays

(* A call that may be made is a call.                                      *)
LEMMA ListAskedIs ==
  ASSUME NEW o \in Lists, NEW q \in List!Calls(o)
  PROVE  /\ q # Idle /\ q.on = o
         /\ q.op \in {"push_back", "push_front"} => q.ref.at = -1 /\ q.ref.value \in Values
         /\ q.op \in {"pop_back", "pop_front"} => size[o] > 0
         /\ q.op \in {"push_back", "push_front", "pop_back", "pop_front", "clear"}
<1>1. q # Idle
  <2>1. q \in [op : {"push_back", "push_front"}, on : Lists, ref : [at : {-1}, value : Values]]
              \cup [op : {"pop_front", "pop_back", "clear"}, on : Lists]
    BY DEF List!Calls, List!Elsewhere
  <2> QED BY <2>1, ListAssumption
<1>2. QED
  BY <1>1, ListAssumption DEF List!Calls, List!Elsewhere

(* The object of the call that is being made.                              *)
LEMMA ListOn ==
  ASSUME ListAsked, lcall # Idle
  PROVE  /\ lcall.on \in Lists
         /\ lcall.op \in {"push_back", "push_front"} => lcall.ref.at = -1 /\ lcall.ref.value \in Values
         /\ lcall.op \in {"pop_back", "pop_front"} => size[lcall.on] > 0
         /\ lcall.op # "swap"
<1>1. PICK o \in Lists : lcall \in List!Calls(o)
  BY DEF ListAsked
<1>2. QED
  BY <1>1, ListAskedIs

(* In a pool of which list o has become the chain d, the others are what   *)
(* they were, and there is nothing else.                                   *)
Others(c, o, pool, n, d) ==
  /\ \A p \in Lists \ {o} : \A i \in 1 .. size[p] :
       /\ c[p][i] \in DOMAIN pool
       /\ pool[c[p][i]] = node[c[p][i]]
       /\ \A j \in 1 .. n : d[j] # c[p][i]
  /\ \A x \in DOMAIN pool : \/ \E i \in 1 .. n : d[i] = x
                            \/ \E p \in Lists \ {o} : \E i \in 1 .. size[p] : c[p][i] = x

(* The values along a chain; and the step that makes it the list.          *)
Held(pool, n, d) == [i \in 1 .. n |-> pool[d[i]].value]

Becomes(o, m, n) == /\ node' = m.pool
                    /\ head' = [head EXCEPT ![o] = m.head]
                    /\ tail' = [tail EXCEPT ![o] = m.tail]
                    /\ size' = [size EXCEPT ![o] = n]
                    /\ lcall' = Idle

(* A step that makes of one list the chain d.                              *)
LEMMA Changes ==
  ASSUME NEW c, Chains(c), ListAsked, lcall # Idle, NEW o, o = lcall.on,
         NEW m, NEW n \in Nat, NEW d,
         Pool(m.pool), Linked(m.pool, m.head, m.tail, n, d),
         Others(c, o, m.pool, n, d),
         Becomes(o, m, n), List!Promise!Meaning(lcall) = Held(m.pool, n, d)
  PROVE  ListInv' /\ List!Promise!Next
<1> USE DEF Others, Becomes, Held
<1> DEFINE e == [p \in Lists |-> IF p = o THEN d ELSE c[p]]
<1>1. o \in Lists /\ lcall.op # "swap"
  BY ListOn
<1>2. e[o] = d /\ \A p \in Lists \ {o} : e[p] = c[p]
  BY <1>1
<1> HIDE DEF e
<1>3. /\ head'[o] = m.head /\ tail'[o] = m.tail /\ size'[o] = n
      /\ \A p \in Lists \ {o} : head'[p] = head[p] /\ tail'[p] = tail[p] /\ size'[p] = size[p]
      /\ size' \in [Lists -> Nat]
      /\ head' = [p \in Lists |-> head'[p]] /\ tail' = [p \in Lists |-> tail'[p]]
  <2>1. head = [p \in Lists |-> head[p]] /\ tail = [p \in Lists |-> tail[p]] /\ size \in [Lists -> Nat]
    BY DEF Chains
  <2>2. head'[o] = m.head /\ (\A p \in Lists \ {o} : head'[p] = head[p]) /\ head' = [p \in Lists |-> head'[p]]
    BY <1>1, <2>1
  <2>3. tail'[o] = m.tail /\ (\A p \in Lists \ {o} : tail'[p] = tail[p]) /\ tail' = [p \in Lists |-> tail'[p]]
    BY <1>1, <2>1
  <2>4. size'[o] = n /\ (\A p \in Lists \ {o} : size'[p] = size[p]) /\ size' \in [Lists -> Nat]
    BY <1>1, <2>1
  <2> QED BY <2>2, <2>3, <2>4
<1>4. ASSUME NEW p \in Lists PROVE Linked(node', head'[p], tail'[p], size'[p], e[p])
  <2>1. CASE p = o
    BY <1>2, <1>3, <2>1
  <2>2. CASE p # o
    <3>1. Linked(node, head[p], tail[p], size[p], c[p])
      BY DEF Chains
    <3>2. Linked(node', head[p], tail[p], size[p], c[p])
      BY <2>2, <3>1, StillLinked
    <3> QED BY <1>2, <1>3, <2>2, <3>2
  <2> QED BY <2>1, <2>2
<1>5. ASSUME NEW p \in Lists, NEW q \in Lists, NEW i \in 1 .. size'[p], NEW j \in 1 .. size'[q], e[p][i] = e[q][j]
      PROVE  p = q
  <2>1. CASE p = o /\ q = o
    BY <2>1
  <2>2. CASE p = o /\ q # o
    BY <1>2, <1>3, <1>5, <2>2
  <2>3. CASE p # o /\ q = o
    BY <1>2, <1>3, <1>5, <2>3
  <2>4. CASE p # o /\ q # o
    <3>1. i \in 1 .. size[p] /\ j \in 1 .. size[q] /\ c[p][i] = c[q][j]
      BY <1>2, <1>3, <1>5, <2>4
    <3> QED BY <3>1 DEF Chains
  <2> QED BY <2>1, <2>2, <2>3, <2>4
<1>6. ASSUME NEW x \in DOMAIN node' PROVE \E p \in Lists : \E i \in 1 .. size'[p] : e[p][i] = x
  <2>1. CASE \E i \in 1 .. n : d[i] = x
    BY <1>1, <1>2, <1>3, <2>1
  <2>2. CASE \E p \in Lists \ {o} : \E i \in 1 .. size[p] : c[p][i] = x
    BY <1>2, <1>3, <2>2
  <2> QED BY <2>1, <2>2
<1>7. Chains(e)'
  BY <1>3, <1>4, <1>5, <1>6 DEF Chains
<1>8. ListAsked'
  BY DEF ListAsked
<1>9. ListInv'
  BY <1>7, <1>8 DEF ListInv
<1>10. List!Contents' = [p \in Lists |-> [i \in 1 .. size'[p] |-> node'[e[p][i]].value]]
  <2>1. ContentsFollow'
    BY ContentsIs, PTL
  <2> QED BY <1>7, <2>1 DEF ContentsFollow
<1>11. List!Contents = [p \in Lists |-> [i \in 1 .. size[p] |-> node[c[p][i]].value]]
  BY ContentsIs DEF ContentsFollow
<1> DEFINE after == [p \in Lists |-> IF p = lcall.on THEN List!Promise!Meaning(lcall)
                                     ELSE IF lcall.op = "swap" /\ p = lcall.from THEN List!Contents[lcall.on]
                                     ELSE List!Contents[p]]
<1>12. List!Contents' = after
  <2> DEFINE M == List!Promise!Meaning(lcall)
  <2> HIDE DEF M
  <2>0. M = [i \in 1 .. n |-> m.pool[d[i]].value]
    BY DEF M
  <2>1. ASSUME NEW p \in Lists
        PROVE  [i \in 1 .. size'[p] |-> node'[e[p][i]].value] = IF p = o THEN M ELSE List!Contents[p]
    <3>1. CASE p = o
      BY <1>2, <1>3, <2>0, <3>1
    <3>2. CASE p # o
      <4>1. [i \in 1 .. size'[p] |-> node'[e[p][i]].value] = [i \in 1 .. size[p] |-> node[c[p][i]].value]
        BY <1>2, <1>3, <3>2
      <4> QED BY <1>11, <3>2, <4>1
    <3> QED BY <3>1, <3>2
  <2>2. List!Contents' = [p \in Lists |-> IF p = o THEN M ELSE List!Contents[p]]
    <3> DEFINE f == [p \in Lists |-> [i \in 1 .. size'[p] |-> node'[e[p][i]].value]]
          g == [p \in Lists |-> IF p = o THEN M ELSE List!Contents[p]]
    <3>1. \A p \in Lists : f[p] = g[p]
      BY <2>1
    <3>2. f = [p \in Lists |-> f[p]] /\ g = [p \in Lists |-> g[p]]
      OBVIOUS
    <3> HIDE DEF f, g
    <3>3. f = g
      BY <3>1, <3>2
    <3> QED BY <1>10, <3>3 DEF f, g
  <2>3. after = [p \in Lists |-> IF p = o THEN M ELSE List!Contents[p]]
    <3>1. ASSUME NEW p \in Lists
          PROVE (IF p = lcall.on THEN M ELSE IF lcall.op = "swap" /\ p = lcall.from THEN List!Contents[lcall.on] ELSE List!Contents[p])
                = IF p = o THEN M ELSE List!Contents[p]
      BY <1>1
    <3> DEFINE g == [p \in Lists |-> IF p = o THEN M ELSE List!Contents[p]]
    <3>2. \A p \in Lists : after[p] = g[p]
      BY <3>1 DEF M
    <3>3. after = [p \in Lists |-> after[p]] /\ g = [p \in Lists |-> g[p]]
      OBVIOUS
    <3> HIDE DEF g, after
    <3>4. after = g
      BY <3>2, <3>3
    <3> QED BY <3>4 DEF g
  <2> QED BY <2>2, <2>3, Zenon
<1> HIDE DEF after
<1>13. List!Promise!Next
  BY <1>12, Zenon DEF List!Promise!Next, List!Promise!Perform, after
<1>14. QED
  BY <1>9, <1>13

(* What C++ says of each call.                                             *)
LEMMA ListMeanings ==
  ASSUME NEW q
  PROVE  /\ q.op = "push_back" /\ q.ref.at = -1 => List!Promise!Meaning(q) = Append(List!Contents[q.on], q.ref.value)
         /\ q.op = "push_front" /\ q.ref.at = -1 => List!Promise!Meaning(q) = <<q.ref.value>> \o List!Contents[q.on]
         /\ q.op = "pop_back" => List!Promise!Meaning(q) = SubSeq(List!Contents[q.on], 1, Len(List!Contents[q.on]) - 1)
         /\ q.op = "pop_front" => List!Promise!Meaning(q) = Tail(List!Contents[q.on])
         /\ q.op = "clear" => List!Promise!Meaning(q) = <<>>
<1>1. ASSUME q.op = "push_back", q.ref.at = -1
      PROVE  List!Promise!Meaning(q) = Append(List!Contents[q.on], q.ref.value)
  BY <1>1 DEF List!Promise!Meaning, List!Promise!Named
<1>2. ASSUME q.op = "push_front", q.ref.at = -1
      PROVE  List!Promise!Meaning(q) = <<q.ref.value>> \o List!Contents[q.on]
  BY <1>2 DEF List!Promise!Meaning, List!Promise!Named
<1>3. ASSUME q.op = "pop_back"
      PROVE  List!Promise!Meaning(q) = SubSeq(List!Contents[q.on], 1, Len(List!Contents[q.on]) - 1)
  BY <1>3 DEF List!Promise!Meaning, List!Promise!Before
<1>4. ASSUME q.op = "pop_front" PROVE List!Promise!Meaning(q) = Tail(List!Contents[q.on])
  BY <1>4 DEF List!Promise!Meaning
<1>5. ASSUME q.op = "clear" PROVE List!Promise!Meaning(q) = <<>>
  BY <1>5 DEF List!Promise!Meaning
<1>6. QED
  BY <1>1, <1>2, <1>3, <1>4, <1>5

(* What one list's chain and the others' have to do with each other.       *)
LEMMA Apart ==
  ASSUME NEW c, Chains(c), NEW o \in Lists
  PROVE  /\ \A i \in 1 .. size[o] : c[o][i] \in DOMAIN node
         /\ \A p \in Lists \ {o} : \A i \in 1 .. size[p] :
              /\ c[p][i] \in DOMAIN node
              /\ \A j \in 1 .. size[o] : c[p][i] # c[o][j]
         /\ \A x \in DOMAIN node : \/ \E i \in 1 .. size[o] : c[o][i] = x
                                   \/ \E p \in Lists \ {o} : \E i \in 1 .. size[p] : c[p][i] = x
<1>1. \A p \in Lists : \A i \in 1 .. size[p] : c[p][i] \in DOMAIN node
  BY DEF Chains, Linked
<1>2. ASSUME NEW p \in Lists \ {o}, NEW i \in 1 .. size[p], NEW j \in 1 .. size[o]
      PROVE  c[p][i] # c[o][j]
  BY DEF Chains
<1>3. ASSUME NEW x \in DOMAIN node
      PROVE  \/ \E i \in 1 .. size[o] : c[o][i] = x
             \/ \E p \in Lists \ {o} : \E i \in 1 .. size[p] : c[p][i] = x
  BY DEF Chains
<1>4. QED
  BY <1>1, <1>2, <1>3

(* The sequence a list holds, cell by cell.                                *)
LEMMA ValuesOf ==
  ASSUME NEW c, Chains(c), NEW o \in Lists
  PROVE  /\ List!Contents[o] = [i \in 1 .. size[o] |-> node[c[o][i]].value]
         /\ Numbered(List!Contents[o], size[o]) /\ Len(List!Contents[o]) = size[o] /\ size[o] \in Nat
<1>1. size[o] \in Nat
  BY DEF Chains
<1>2. List!Contents[o] = [i \in 1 .. size[o] |-> node[c[o][i]].value]
  <2>1. List!Contents = [p \in Lists |-> [i \in 1 .. size[p] |-> node[c[p][i]].value]]
    BY ContentsIs DEF ContentsFollow
  <2> QED BY <2>1
<1> DEFINE s == List!Contents[o]
           X == {s[i] : i \in 1 .. size[o]}
<1>3. Numbered(s, size[o])
  BY <1>1, <1>2 DEF Numbered
<1>4. \A i \in 1 .. size[o] : s[i] \in X
  OBVIOUS
<1> HIDE DEF s, X
<1>5. Len(s) = size[o]
  BY <1>3, <1>4, NumberedIs
<1>6. QED
  BY <1>1, <1>2, <1>3, <1>5 DEF s

(* push_back appends.                                                      *)
LEMMA ListPushBack == ASSUME ListInv, List!push_back PROVE ListInv' /\ List!Promise!Next
<1> DEFINE o == lcall.on
           n == size[o]
           x == lcall.ref.value
<1>1. lcall # Idle /\ lcall.op = "push_back" /\ ListAsked
  BY DEF List!push_back, List!Making, ListInv
<1>2. o \in Lists /\ lcall.ref.at = -1 /\ x \in Values
  BY <1>1, ListOn
<1>3. PICK c : Chains(c)
  BY DEF ListInv
<1> DEFINE s == c[o]
           h == head[o]
           t == tail[o]
<1>4. Pool(node) /\ Linked(node, h, t, n, s) /\ n \in Nat
  BY <1>2, <1>3 DEF Chains
<1>5. PICK made \in List!Free :
        /\ node' = List!With(List!Told(node, t, "next", made), made, [value |-> x, next |-> Null, prev |-> t])
        /\ head' = IF t = Null THEN [head EXCEPT ![o] = made] ELSE head
        /\ tail' = [tail EXCEPT ![o] = made]
        /\ size' = [size EXCEPT ![o] = @ + 1]
  BY DEF List!push_back
<1> DEFINE d == Longer(s, n, made)
           q == Behind(node, t, made, x)
           m == [pool |-> q, head |-> IF t = Null THEN made ELSE h, tail |-> made]
<1>a. made \in Nodes \ DOMAIN node
  BY DEF List!Free
<1>6. /\ Pool(q)
      /\ Linked(q, IF t = Null THEN made ELSE h, made, n + 1, d)
      /\ DOMAIN q = DOMAIN node \cup {made}
      /\ q[made].value = x /\ \A k \in DOMAIN node : q[k].value = node[k].value
      /\ \A k \in DOMAIN node : (\A i \in 1 .. n : k # s[i]) => q[k] = node[k]
  <2>1. x \in Values /\ Pool(node) /\ Linked(node, h, t, n, s) /\ made \in Nodes \ DOMAIN node
    BY <1>2, <1>4, <1>a
  <2> HIDE DEF s, h, t, n, x, o
  <2>2. MadeLast(node, h, t, n, s, made, x)
    BY <2>1, PushBackIs
  <2> HIDE DEF d, q
  <2> QED BY <2>2 DEF MadeLast, d, q
<1>7. /\ \A i \in 1 .. n : s[i] \in DOMAIN node
      /\ \A p \in Lists \ {o} : \A i \in 1 .. size[p] :
              /\ c[p][i] \in DOMAIN node
              /\ \A j \in 1 .. n : c[p][i] # s[j]
      /\ \A k \in DOMAIN node : \/ \E i \in 1 .. n : s[i] = k
                                \/ \E p \in Lists \ {o} : \E i \in 1 .. size[p] : c[p][i] = k
  BY <1>2, <1>3, Apart
<1>8. /\ List!Contents[o] = [i \in 1 .. n |-> node[s[i]].value]
      /\ Numbered(List!Contents[o], n)
  BY <1>2, <1>3, ValuesOf
<1>9. List!Promise!Meaning(lcall) = Append(List!Contents[o], x)
  BY <1>1, <1>2, ListMeanings
<1>10. /\ head' = [head EXCEPT ![o] = m.head] /\ tail' = [tail EXCEPT ![o] = m.tail]
       /\ size' = [size EXCEPT ![o] = n + 1]
       /\ node' = m.pool /\ lcall' = Idle
  <2>1. head = [p \in Lists |-> head[p]]
    BY <1>3 DEF Chains
  <2>2. t # Null => [head EXCEPT ![o] = h] = head
    BY <1>2, <2>1
  <2>3. lcall' = Idle
    BY DEF List!push_back
  <2> HIDE DEF t, q
  <2> QED BY <1>5, <2>2, <2>3 DEF q, t, Behind
<1> HIDE DEF q, t, h, x, n, o, s
<1>11. d[n + 1] = made /\ \A i \in 1 .. n : d[i] = s[i] /\ i \in 1 .. n + 1
  BY <1>4 DEF Longer
<1>b. n + 1 \in 1 .. n + 1 /\ \A i \in 1 .. n + 1 : i \in 1 .. n \/ i = n + 1
  BY <1>4
<1>12. Append(List!Contents[o], x) = [i \in 1 .. n + 1 |-> q[d[i]].value]
  <2> DEFINE z == List!Contents[o]
  <2>1. Numbered(z, n) /\ \A i \in 1 .. n : z[i] = node[s[i]].value
    BY <1>8
  <2> HIDE DEF z
  <2>2. Append(z, x) = [i \in 1 .. n + 1 |-> IF i <= n THEN z[i] ELSE x]
    BY <2>1, AppendIs
  <2>3. ASSUME NEW i \in 1 .. n + 1 PROVE (IF i <= n THEN z[i] ELSE x) = q[d[i]].value
    <3>1. CASE i \in 1 .. n
      <4>1. i <= n
        BY <1>4, <3>1
      <4> HIDE DEF d
      <4> QED BY <1>6, <1>7, <1>11, <2>1, <3>1, <4>1
    <3>2. CASE i = n + 1
      <4>1. ~(i <= n)
        BY <1>4, <3>2
      <4> HIDE DEF d
      <4> QED BY <1>6, <1>11, <3>2, <4>1
    <3> QED BY <1>b, <3>1, <3>2
  <2> HIDE DEF d
  <2>4. Append(z, x) = [i \in 1 .. n + 1 |-> q[d[i]].value]
    BY <2>2, <2>3
  <2> QED BY <2>4 DEF z
<1> HIDE DEF d
<1>13. ASSUME NEW p \in Lists \ {o}, NEW i \in 1 .. size[p]
       PROVE  /\ c[p][i] \in DOMAIN q /\ q[c[p][i]] = node[c[p][i]]
              /\ \A j \in 1 .. n + 1 : d[j] # c[p][i]
  <2>1. c[p][i] \in DOMAIN node /\ \A j \in 1 .. n : c[p][i] # s[j]
    BY <1>7
  <2> QED BY <1>6, <1>11, <1>a, <1>b, <2>1
<1>14. ASSUME NEW k \in DOMAIN q
       PROVE  \/ \E i \in 1 .. n + 1 : d[i] = k
              \/ \E p \in Lists \ {o} : \E i \in 1 .. size[p] : c[p][i] = k
  <2>1. CASE k = made
    BY <1>11, <1>b, <2>1
  <2>2. CASE k \in DOMAIN node
    BY <1>7, <1>11, <2>2
  <2> QED BY <1>6, <2>1, <2>2
<1>15. m.pool = q /\ m.tail = made /\ m.head = IF t = Null THEN made ELSE h
  OBVIOUS
<1> HIDE DEF m
<1>16. QED
  <2> DEFINE N == n + 1
  <2>1. N \in Nat
    BY <1>4
  <2>2. o = lcall.on
    BY DEF o
  <2>3. Pool(m.pool) /\ Linked(m.pool, m.head, m.tail, N, d)
    BY <1>6, <1>15
  <2>4. Others(c, o, q, N, d)
    BY <1>13, <1>14 DEF Others
  <2>5. Others(c, o, m.pool, N, d)
    BY <1>15, <2>4
  <2>6. List!Promise!Meaning(lcall) = Held(m.pool, N, d)
    BY <1>9, <1>12, <1>15 DEF Held
  <2>7. Becomes(o, m, N)
    BY <1>10 DEF Becomes
  <2> HIDE DEF N, List!Promise!Meaning
  <2> QED BY <1>1, <1>3, <2>1, <2>2, <2>3, <2>5, <2>6, <2>7, Changes

(* push_front puts the value before the others.                            *)
LEMMA ListPushFront == ASSUME ListInv, List!push_front PROVE ListInv' /\ List!Promise!Next
<1> DEFINE o == lcall.on
           n == size[o]
           x == lcall.ref.value
<1>1. lcall # Idle /\ lcall.op = "push_front" /\ ListAsked
  BY DEF List!push_front, List!Making, ListInv
<1>2. o \in Lists /\ lcall.ref.at = -1 /\ x \in Values
  BY <1>1, ListOn
<1>3. PICK c : Chains(c)
  BY DEF ListInv
<1> DEFINE s == c[o]
           h == head[o]
           t == tail[o]
<1>4. Pool(node) /\ Linked(node, h, t, n, s) /\ n \in Nat
  BY <1>2, <1>3 DEF Chains
<1>5. PICK made \in List!Free :
        /\ node' = List!With(List!Told(node, h, "prev", made), made, [value |-> x, next |-> h, prev |-> Null])
        /\ tail' = IF h = Null THEN [tail EXCEPT ![o] = made] ELSE tail
        /\ head' = [head EXCEPT ![o] = made]
        /\ size' = [size EXCEPT ![o] = @ + 1]
  BY DEF List!push_front
<1> DEFINE d == Preceded(s, n, made)
           q == InFront(node, h, made, x)
           m == [pool |-> q, head |-> made, tail |-> IF h = Null THEN made ELSE t]
<1>a. made \in Nodes \ DOMAIN node
  BY DEF List!Free
<1>6. /\ Pool(q)
      /\ Linked(q, made, IF h = Null THEN made ELSE t, n + 1, d)
      /\ DOMAIN q = DOMAIN node \cup {made}
      /\ q[made].value = x /\ \A k \in DOMAIN node : q[k].value = node[k].value
      /\ \A k \in DOMAIN node : (\A i \in 1 .. n : k # s[i]) => q[k] = node[k]
  <2>1. x \in Values /\ Pool(node) /\ Linked(node, h, t, n, s) /\ made \in Nodes \ DOMAIN node
    BY <1>2, <1>4, <1>a
  <2> HIDE DEF s, h, t, n, x, o
  <2>2. MadeFirst(node, h, t, n, s, made, x)
    BY <2>1, PushFrontIs
  <2> QED BY <2>2 DEF MadeFirst
<1>7. /\ \A i \in 1 .. n : s[i] \in DOMAIN node
      /\ \A p \in Lists \ {o} : \A i \in 1 .. size[p] :
              /\ c[p][i] \in DOMAIN node
              /\ \A j \in 1 .. n : c[p][i] # s[j]
      /\ \A k \in DOMAIN node : \/ \E i \in 1 .. n : s[i] = k
                                \/ \E p \in Lists \ {o} : \E i \in 1 .. size[p] : c[p][i] = k
  BY <1>2, <1>3, Apart
<1>8. /\ List!Contents[o] = [i \in 1 .. n |-> node[s[i]].value]
      /\ Numbered(List!Contents[o], n)
  BY <1>2, <1>3, ValuesOf
<1>9. List!Promise!Meaning(lcall) = <<x>> \o List!Contents[o]
  BY <1>1, <1>2, ListMeanings
<1>10. /\ head' = [head EXCEPT ![o] = m.head] /\ tail' = [tail EXCEPT ![o] = m.tail]
       /\ size' = [size EXCEPT ![o] = n + 1]
       /\ node' = m.pool /\ lcall' = Idle
  <2>1. tail = [p \in Lists |-> tail[p]]
    BY <1>3 DEF Chains
  <2>2. h # Null => [tail EXCEPT ![o] = t] = tail
    BY <1>2, <2>1
  <2>3. lcall' = Idle
    BY DEF List!push_front
  <2> HIDE DEF h, q
  <2> QED BY <1>5, <2>2, <2>3 DEF q, h, InFront
<1> HIDE DEF q, t, h, x, n, o, s
<1>11. d[1] = made /\ \A i \in 1 .. n : d[i + 1] = s[i] /\ i + 1 \in 1 .. n + 1
  BY <1>4 DEF Preceded
<1>b. 1 \in 1 .. n + 1 /\ \A i \in 1 .. n + 1 : (i - 1 \in 1 .. n /\ (i - 1) + 1 = i /\ i # 1) \/ i = 1
  BY <1>4
<1>12. <<x>> \o List!Contents[o] = [i \in 1 .. n + 1 |-> q[d[i]].value]
  <2> DEFINE z == List!Contents[o]
  <2>1. Numbered(z, n) /\ \A i \in 1 .. n : z[i] = node[s[i]].value
    BY <1>8
  <2> HIDE DEF z
  <2>2. <<x>> \o z = [i \in 1 .. n + 1 |-> IF i = 1 THEN x ELSE z[i - 1]]
    BY <2>1, PrependIs
  <2>3. ASSUME NEW i \in 1 .. n + 1 PROVE (IF i = 1 THEN x ELSE z[i - 1]) = q[d[i]].value
    <3>1. CASE i - 1 \in 1 .. n /\ (i - 1) + 1 = i /\ i # 1
      <4>1. d[i] = s[i - 1] /\ s[i - 1] \in DOMAIN node
        BY <1>7, <1>11, <3>1
      <4> HIDE DEF d
      <4> QED BY <1>6, <2>1, <3>1, <4>1
    <3>2. CASE i = 1
      <4> HIDE DEF d
      <4> QED BY <1>6, <1>11, <3>2
    <3> QED BY <1>b, <3>1, <3>2
  <2> HIDE DEF d
  <2>4. <<x>> \o z = [i \in 1 .. n + 1 |-> q[d[i]].value]
    BY <2>2, <2>3
  <2> QED BY <2>4 DEF z
<1> HIDE DEF d
<1>d. \A j \in 1 .. n + 1 : d[j] = made \/ \E i \in 1 .. n : d[j] = s[i]
  <2> TAKE j \in 1 .. n + 1
  <2>1. CASE j = 1
    BY <1>11, <2>1
  <2>2. CASE j - 1 \in 1 .. n /\ (j - 1) + 1 = j
    <3>1. d[(j - 1) + 1] = s[j - 1]
      BY <1>11, <2>2
    <3> QED BY <2>2, <3>1
  <2> QED BY <1>b, <2>1, <2>2
<1>13. ASSUME NEW p \in Lists \ {o}, NEW i \in 1 .. size[p]
       PROVE  /\ c[p][i] \in DOMAIN q /\ q[c[p][i]] = node[c[p][i]]
              /\ \A j \in 1 .. n + 1 : d[j] # c[p][i]
  <2>1. c[p][i] \in DOMAIN node /\ \A j \in 1 .. n : c[p][i] # s[j]
    BY <1>7
  <2> QED BY <1>6, <1>d, <1>a, <2>1
<1>14. ASSUME NEW k \in DOMAIN q
       PROVE  \/ \E i \in 1 .. n + 1 : d[i] = k
              \/ \E p \in Lists \ {o} : \E i \in 1 .. size[p] : c[p][i] = k
  <2>1. CASE k = made
    BY <1>11, <1>b, <2>1
  <2>2. CASE k \in DOMAIN node
    BY <1>7, <1>11, <2>2
  <2> QED BY <1>6, <2>1, <2>2
<1>15. m.pool = q /\ m.head = made /\ m.tail = IF h = Null THEN made ELSE t
  OBVIOUS
<1> HIDE DEF m
<1>16. QED
  <2> DEFINE N == n + 1
  <2>1. N \in Nat
    BY <1>4
  <2>2. o = lcall.on
    BY DEF o
  <2>3. Pool(m.pool) /\ Linked(m.pool, m.head, m.tail, N, d)
    BY <1>6, <1>15
  <2>4. Others(c, o, q, N, d)
    BY <1>13, <1>14 DEF Others
  <2>5. Others(c, o, m.pool, N, d)
    BY <1>15, <2>4
  <2>6. List!Promise!Meaning(lcall) = Held(m.pool, N, d)
    BY <1>9, <1>12, <1>15 DEF Held
  <2>7. Becomes(o, m, N)
    BY <1>10 DEF Becomes
  <2> HIDE DEF N, List!Promise!Meaning
  <2> QED BY <1>1, <1>3, <2>1, <2>2, <2>3, <2>5, <2>6, <2>7, Changes

(* pop_front takes the first element off.                                  *)
LEMMA PopFronts == ASSUME ListInv, List!pop_front PROVE ListInv' /\ List!Promise!Next
<1> DEFINE o == lcall.on
           l == List!Here(o)
           m == List!PopFront(l)
<1>1. lcall # Idle /\ lcall.op = "pop_front" /\ ListAsked
  BY DEF List!pop_front, List!Making, ListInv
<1>2. o \in Lists /\ size[o] > 0
  BY <1>1, ListOn
<1>3. PICK c : Chains(c)
  BY DEF ListInv
<1>4. List!Left(o, m)
  BY DEF List!pop_front
<1> HIDE DEF o
<1> DEFINE n == size[o]
           s == c[o]
           d == [i \in 1 .. n - 1 |-> s[i + 1]]
           gone == 1
<1>5. Pool(node) /\ Linked(node, head[o], tail[o], n, s) /\ n \in Nat /\ n > 0
  BY <1>2, <1>3 DEF Chains
<1>6. l = [pool |-> node, head |-> head[o], tail |-> tail[o], count |-> n]
  BY DEF List!Here
<1> HIDE DEF l
<1>7. /\ m = [pool |-> m.pool, head |-> m.head, tail |-> m.tail, count |-> n - 1]
      /\ Pool(m.pool)
      /\ Linked(m.pool, m.head, m.tail, n - 1, d)
      /\ DOMAIN m.pool = DOMAIN node \ {s[gone]}
      /\ \A x \in DOMAIN m.pool : m.pool[x].value = node[x].value
      /\ \A x \in DOMAIN m.pool : (\A i \in 1 .. n : x # s[i]) => m.pool[x] = node[x]
  <2> HIDE DEF n, s
  <2> QED BY <1>5, <1>6, PopFrontIs
<1> HIDE DEF m
<1>8. /\ \A i \in 1 .. n : s[i] \in DOMAIN node
      /\ \A p \in Lists \ {o} : \A i \in 1 .. size[p] :
              /\ c[p][i] \in DOMAIN node
              /\ \A j \in 1 .. n : c[p][i] # s[j]
      /\ \A k \in DOMAIN node : \/ \E i \in 1 .. n : s[i] = k
                                \/ \E p \in Lists \ {o} : \E i \in 1 .. size[p] : c[p][i] = k
  BY <1>2, <1>3, Apart
<1> DEFINE z == List!Contents[o]
<1>9. z = [i \in 1 .. n |-> node[s[i]].value] /\ Numbered(z, n) /\ Len(z) = n
  BY <1>2, <1>3, ValuesOf
<1>10. List!Promise!Meaning(lcall) = Tail(z)
  BY <1>1, <1>9, ListMeanings DEF o
<1> HIDE DEF z, n, s
<1>11. \A i \in 1 .. n - 1 : d[i] = s[i + 1] /\ i + 1 \in 1 .. n
  BY <1>5
<1> HIDE DEF d
<1>12. gone \in 1 .. n /\ \A i \in 1 .. n : i = gone \/ (i - 1 \in 1 .. n - 1 /\ (i - 1) + 1 = i)
  BY <1>5
<1> HIDE DEF gone
<1>13. Tail(z) = Held(m.pool, n - 1, d)
  <2>1. Tail(z) = [i \in 1 .. n - 1 |-> z[i + 1]]
    BY <1>5, <1>9, TailIs
  <2>2. ASSUME NEW i \in 1 .. n - 1 PROVE z[i + 1] = m.pool[d[i]].value
    <3>1. z[i + 1] = node[s[i + 1]].value
      BY <1>9, <1>11
    <3>2. d[i] \in DOMAIN m.pool
      BY <1>7 DEF Linked
    <3> QED BY <1>7, <1>11, <3>1, <3>2
  <2> QED BY <2>1, <2>2 DEF Held
<1>14. Others(c, o, m.pool, n - 1, d)
  <2>1. ASSUME NEW p \in Lists \ {o}, NEW i \in 1 .. size[p]
        PROVE  /\ c[p][i] \in DOMAIN m.pool /\ m.pool[c[p][i]] = node[c[p][i]]
               /\ \A j \in 1 .. n - 1 : d[j] # c[p][i]
    BY <1>7, <1>8, <1>11, <1>12
  <2>2. ASSUME NEW k \in DOMAIN m.pool
        PROVE  \/ \E i \in 1 .. n - 1 : d[i] = k
               \/ \E p \in Lists \ {o} : \E i \in 1 .. size[p] : c[p][i] = k
    <3>1. k \in DOMAIN node /\ k # s[gone]
      BY <1>7
    <3>2. CASE \E i \in 1 .. n : s[i] = k
      <4>1. PICK i \in 1 .. n : s[i] = k
        BY <3>2
      <4>2. i # gone
        BY <3>1, <4>1
      <4>3. i - 1 \in 1 .. n - 1 /\ d[i - 1] = s[i]
        BY <1>11, <1>12, <4>2
      <4> QED BY <4>1, <4>3
    <3> QED BY <1>8, <3>1, <3>2
  <2> QED BY <2>1, <2>2 DEF Others
<1>15. Becomes(o, m, n - 1)
  <2>1. m.count = n - 1
    BY <1>7
  <2> QED BY <1>4, <2>1 DEF List!Left, Becomes
<1>16. QED
  <2> DEFINE N == n - 1
  <2>1. N \in Nat /\ o = lcall.on
    BY <1>5 DEF o
  <2>2. Pool(m.pool) /\ Linked(m.pool, m.head, m.tail, N, d)
    BY <1>7
  <2>3. /\ List!Promise!Meaning(lcall) = Held(m.pool, N, d) /\ Others(c, o, m.pool, N, d)
        /\ Becomes(o, m, N)
    BY <1>10, <1>13, <1>14, <1>15
  <2> HIDE DEF N, List!Promise!Meaning
  <2> QED BY <1>1, <1>3, <2>1, <2>2, <2>3, Changes

(* pop_back takes the last element off.                                    *)
LEMMA PopBacks == ASSUME ListInv, List!pop_back PROVE ListInv' /\ List!Promise!Next
<1> DEFINE o == lcall.on
           l == List!Here(o)
           m == List!PopBack(l)
<1>1. lcall # Idle /\ lcall.op = "pop_back" /\ ListAsked
  BY DEF List!pop_back, List!Making, ListInv
<1>2. o \in Lists /\ size[o] > 0
  BY <1>1, ListOn
<1>3. PICK c : Chains(c)
  BY DEF ListInv
<1>4. List!Left(o, m)
  BY DEF List!pop_back
<1> HIDE DEF o
<1> DEFINE n == size[o]
           s == c[o]
           d == [i \in 1 .. n - 1 |-> s[i]]
           gone == n
<1>5. Pool(node) /\ Linked(node, head[o], tail[o], n, s) /\ n \in Nat /\ n > 0
  BY <1>2, <1>3 DEF Chains
<1>6. l = [pool |-> node, head |-> head[o], tail |-> tail[o], count |-> n]
  BY DEF List!Here
<1> HIDE DEF l
<1>7. /\ m = [pool |-> m.pool, head |-> m.head, tail |-> m.tail, count |-> n - 1]
      /\ Pool(m.pool)
      /\ Linked(m.pool, m.head, m.tail, n - 1, d)
      /\ DOMAIN m.pool = DOMAIN node \ {s[gone]}
      /\ \A x \in DOMAIN m.pool : m.pool[x].value = node[x].value
      /\ \A x \in DOMAIN m.pool : (\A i \in 1 .. n : x # s[i]) => m.pool[x] = node[x]
  <2> HIDE DEF n, s
  <2> QED BY <1>5, <1>6, PopBackIs
<1> HIDE DEF m
<1>8. /\ \A i \in 1 .. n : s[i] \in DOMAIN node
      /\ \A p \in Lists \ {o} : \A i \in 1 .. size[p] :
              /\ c[p][i] \in DOMAIN node
              /\ \A j \in 1 .. n : c[p][i] # s[j]
      /\ \A k \in DOMAIN node : \/ \E i \in 1 .. n : s[i] = k
                                \/ \E p \in Lists \ {o} : \E i \in 1 .. size[p] : c[p][i] = k
  BY <1>2, <1>3, Apart
<1> DEFINE z == List!Contents[o]
<1>9. z = [i \in 1 .. n |-> node[s[i]].value] /\ Numbered(z, n) /\ Len(z) = n
  BY <1>2, <1>3, ValuesOf
<1>10. List!Promise!Meaning(lcall) = SubSeq(z, 1, n - 1)
  BY <1>1, <1>9, ListMeanings DEF o
<1> HIDE DEF z, n, s
<1>11. \A i \in 1 .. n - 1 : d[i] = s[i] /\ i \in 1 .. n
  BY <1>5
<1> HIDE DEF d
<1>12. gone \in 1 .. n /\ \A i \in 1 .. n : i = gone \/ i \in 1 .. n - 1
  BY <1>5
<1> HIDE DEF gone
<1>13. SubSeq(z, 1, n - 1) = Held(m.pool, n - 1, d)
  <2> DEFINE k == n - 1
  <2>1. SubSeq(z, 1, k) = [i \in 1 .. (IF 1 <= k THEN k - 1 + 1 ELSE 0) |-> z[1 + i - 1]]
    <3>1. 1 \in 1 .. n + 1 /\ k \in 0 .. n
      BY <1>5
    <3> HIDE DEF k
    <3> QED BY <1>9, <3>1, SubSeqIs
  <2>2. (IF 1 <= k THEN k - 1 + 1 ELSE 0) = k
    BY <1>5
  <2>3. ASSUME NEW i \in 1 .. k PROVE z[1 + i - 1] = m.pool[d[i]].value
    <3>1. 1 + i - 1 = i
      BY <1>5
    <3>2. z[i] = node[s[i]].value
      BY <1>9, <1>11
    <3>3. d[i] \in DOMAIN m.pool
      BY <1>7 DEF Linked
    <3> QED BY <1>7, <1>11, <3>1, <3>2, <3>3
  <2> HIDE DEF k
  <2>4. SubSeq(z, 1, k) = [i \in 1 .. k |-> m.pool[d[i]].value]
    BY <2>1, <2>2, <2>3
  <2> QED BY <2>4 DEF Held, k
<1>14. Others(c, o, m.pool, n - 1, d)
  <2>1. ASSUME NEW p \in Lists \ {o}, NEW i \in 1 .. size[p]
        PROVE  /\ c[p][i] \in DOMAIN m.pool /\ m.pool[c[p][i]] = node[c[p][i]]
               /\ \A j \in 1 .. n - 1 : d[j] # c[p][i]
    BY <1>7, <1>8, <1>11, <1>12
  <2>2. ASSUME NEW k \in DOMAIN m.pool
        PROVE  \/ \E i \in 1 .. n - 1 : d[i] = k
               \/ \E p \in Lists \ {o} : \E i \in 1 .. size[p] : c[p][i] = k
    <3>1. k \in DOMAIN node /\ k # s[gone]
      BY <1>7
    <3>2. CASE \E i \in 1 .. n : s[i] = k
      <4>1. PICK i \in 1 .. n : s[i] = k
        BY <3>2
      <4>2. i # gone
        BY <3>1, <4>1
      <4>3. i \in 1 .. n - 1 /\ d[i] = s[i]
        BY <1>11, <1>12, <4>2
      <4> QED BY <4>1, <4>3
    <3> QED BY <1>8, <3>1, <3>2
  <2> QED BY <2>1, <2>2 DEF Others
<1>15. Becomes(o, m, n - 1)
  <2>1. m.count = n - 1
    BY <1>7
  <2> QED BY <1>4, <2>1 DEF List!Left, Becomes
<1>16. QED
  <2> DEFINE N == n - 1
  <2>1. N \in Nat /\ o = lcall.on
    BY <1>5 DEF o
  <2>2. Pool(m.pool) /\ Linked(m.pool, m.head, m.tail, N, d)
    BY <1>7
  <2>3. /\ List!Promise!Meaning(lcall) = Held(m.pool, N, d) /\ Others(c, o, m.pool, N, d)
        /\ Becomes(o, m, N)
    BY <1>10, <1>13, <1>14, <1>15
  <2> HIDE DEF N, List!Promise!Meaning
  <2> QED BY <1>1, <1>3, <2>1, <2>2, <2>3, Changes

(* clear leaves the empty sequence.                                        *)
LEMMA Clears == ASSUME ListInv, List!clear PROVE ListInv' /\ List!Promise!Next
<1> DEFINE o == lcall.on
           l == List!Here(o)
           m == List!Cleared(l)
<1>1. lcall # Idle /\ lcall.op = "clear" /\ ListAsked
  BY DEF List!clear, List!Making, ListInv
<1>2. o \in Lists
  BY <1>1, ListOn
<1>3. PICK c : Chains(c)
  BY DEF ListInv
<1>4. List!Left(o, m)
  BY DEF List!clear
<1> HIDE DEF o
<1> DEFINE n == size[o]
           s == c[o]
<1>5. Pool(node) /\ Linked(node, head[o], tail[o], n, s)
  BY <1>2, <1>3 DEF Chains
<1>6. l = [pool |-> node, head |-> head[o], tail |-> tail[o], count |-> n]
  BY DEF List!Here
<1> HIDE DEF l
<1>7. /\ m = [pool |-> m.pool, head |-> m.head, tail |-> m.tail, count |-> 0]
      /\ Pool(m.pool)
      /\ Linked(m.pool, m.head, m.tail, 0, <<>>)
      /\ DOMAIN m.pool = DOMAIN node \ {s[i] : i \in 1 .. n}
      /\ \A x \in DOMAIN m.pool : m.pool[x] = node[x]
  <2> HIDE DEF n, s
  <2> QED BY <1>5, <1>6, ClearedIs
<1> HIDE DEF m
<1>8. /\ \A p \in Lists \ {o} : \A i \in 1 .. size[p] :
              /\ c[p][i] \in DOMAIN node
              /\ \A j \in 1 .. n : c[p][i] # s[j]
      /\ \A k \in DOMAIN node : \/ \E i \in 1 .. n : s[i] = k
                                \/ \E p \in Lists \ {o} : \E i \in 1 .. size[p] : c[p][i] = k
  BY <1>2, <1>3, Apart
<1>9. List!Promise!Meaning(lcall) = <<>>
  BY <1>1, ListMeanings DEF o
<1> HIDE DEF n, s
<1>10. <<>> = Held(m.pool, 0, <<>>)
  BY DEF Held
<1>11. Others(c, o, m.pool, 0, <<>>)
  <2>1. ASSUME NEW p \in Lists \ {o}, NEW i \in 1 .. size[p]
        PROVE  c[p][i] \in DOMAIN m.pool /\ m.pool[c[p][i]] = node[c[p][i]]
    BY <1>7, <1>8
  <2>2. ASSUME NEW k \in DOMAIN m.pool
        PROVE  \E p \in Lists \ {o} : \E i \in 1 .. size[p] : c[p][i] = k
    BY <1>7, <1>8
  <2> QED BY <2>1, <2>2 DEF Others
<1>12. Becomes(o, m, 0)
  <2>1. m.count = 0
    BY <1>7
  <2> QED BY <1>4, <2>1 DEF List!Left, Becomes
<1>13. QED
  <2> DEFINE d == <<>>
  <2>1. /\ Linked(m.pool, m.head, m.tail, 0, d) /\ List!Promise!Meaning(lcall) = Held(m.pool, 0, d)
        /\ Others(c, o, m.pool, 0, d) /\ o = lcall.on
    BY <1>7, <1>9, <1>10, <1>11 DEF o
  <2> HIDE DEF d, List!Promise!Meaning
  <2> QED BY <1>1, <1>3, <1>7, <1>12, <2>1, Changes

(* The first state of the lists.                                           *)
LEMMA ListStarts == List!Init => ListInv
<1> SUFFICES ASSUME List!Init PROVE ListInv
  OBVIOUS
<1> DEFINE c == [o \in Lists |-> <<>>]
<1>1. Pool(node)
  BY DEF List!Init, Pool
<1>2. DOMAIN node = {} /\ \A o \in Lists : size[o] = 0 /\ head[o] = Null /\ tail[o] = Null
  BY DEF List!Init
<1>3. Numbered(<<>>, 0)
  BY DEF Numbered
<1>4. \A o \in Lists : Linked(node, head[o], tail[o], size[o], c[o])
  BY <1>2, <1>3 DEF Linked
<1>5. Chains(c)
  <2>1. head = [o \in Lists |-> head[o]] /\ tail = [o \in Lists |-> tail[o]] /\ size \in [Lists -> Nat]
    BY DEF List!Init
  <2>2. \A o, p \in Lists : \A i \in 1 .. size[o], j \in 1 .. size[p] : c[o][i] = c[p][j] => o = p
    BY <1>2
  <2> HIDE DEF c
  <2> QED BY <1>1, <1>2, <1>4, <2>1, <2>2 DEF Chains
<1>6. ListAsked
  BY DEF List!Init, ListAsked
<1>7. QED
  BY <1>5, <1>6 DEF ListInv

(* To the list as C++ sees it, making a call changes nothing.              *)
LEMMA ListBegins == ListInv /\ List!Begin => ListInv' /\ List!Promise!Next
<1> SUFFICES ASSUME ListInv, List!Begin PROVE ListInv' /\ List!Promise!Next
  OBVIOUS
<1>0. UNCHANGED <<node, head, tail, size>>
  BY DEF List!Begin
<1>1. PICK o \in Lists : lcall' \in List!Calls(o)
  BY DEF List!Begin
<1>2. lcall' # Idle
  BY <1>1, ListAskedIs
<1>3. List!Contents' = List!Contents
  BY <1>0 DEF List!Contents, List!Forward, List!Walk
<1>4. List!Promise!Next
  BY <1>2, <1>3 DEF List!Begin, List!Promise!Next, List!Promise!Begin
<1>5. PICK c : Chains(c)
  BY DEF ListInv
<1>6. Chains(c)'
  BY <1>0, <1>5 DEF Chains
<1>7. List!Calls(o)' = List!Calls(o)
  BY <1>0 DEF List!Calls, List!Free
<1>8. ListAsked'
  BY <1>1, <1>7 DEF ListAsked
<1>9. QED
  BY <1>4, <1>6, <1>8 DEF ListInv

(* Every step of a list, and what C++ sees of it.                          *)
LEMMA ListSteps == ListInv /\ [List!Next]_(List!vars) => ListInv' /\ [List!Promise!Next]_(List!Promise!vars)
<1> SUFFICES ASSUME ListInv, [List!Next]_(List!vars) PROVE ListInv' /\ [List!Promise!Next]_(List!Promise!vars)
  OBVIOUS
<1>1. CASE UNCHANGED List!vars
  <2>0. UNCHANGED <<node, head, tail, size, lcall>>
    BY <1>1 DEF List!vars
  <2>1. PICK c : Chains(c)
    BY DEF ListInv
  <2>2. Chains(c)'
    BY <2>0, <2>1 DEF Chains
  <2>3. ListAsked'
    BY <2>0 DEF ListInv, ListAsked, List!Calls, List!Free
  <2>4. UNCHANGED List!Promise!vars
    BY <2>0 DEF List!Promise!vars, List!Contents, List!Forward, List!Walk
  <2> QED BY <2>2, <2>3, <2>4 DEF ListInv
<1>2. CASE List!Begin
  BY <1>2, ListBegins
<1>3. CASE List!push_back
  BY <1>3, ListPushBack
<1>4. CASE List!push_front
  BY <1>4, ListPushFront
<1>5. CASE List!pop_front
  BY <1>5, PopFronts
<1>6. CASE List!pop_back
  BY <1>6, PopBacks
<1>7. CASE List!clear
  BY <1>7, Clears
<1>8. QED
  BY <1>1, <1>2, <1>3, <1>4, <1>5, <1>6, <1>7 DEF List!Next

(* A list is the same nodes from either end, and no node is lost or        *)
(* shared.                                                                 *)
THEOREM ListLinkedBothWays == List!Spec => []List!LinkedBothWays
<1>1. ListInv => List!LinkedBothWays
  BY ListsLinked DEF ListInv
<1>2. QED
  BY <1>1, ListStarts, ListSteps, PTL DEF List!Spec

(* Whichever nodes it has, a list is the sequence C++ says it is.          *)
THEOREM ListIsASequence == List!Spec => List!IsASequence
<1>1. List!Init => List!Promise!Init
  <2> SUFFICES ASSUME List!Init PROVE List!Promise!Init
    OBVIOUS
  <2>1. \A o \in Lists : size[o] = 0
    BY DEF List!Init
  <2>2. List!Contents = [o \in Lists |-> <<>>]
    <3>1. ASSUME NEW o \in Lists PROVE [i \in 1 .. size[o] |-> node[List!Forward(o)[i]].value] = <<>>
      BY <2>1
    <3> QED BY <3>1 DEF List!Contents
  <2> QED BY <2>2 DEF List!Init, List!Promise!Init
<1>2. List!Spec => [][List!Promise!Next]_(List!Promise!vars)
  BY ListStarts, ListSteps, PTL DEF List!Spec
<1>3. QED
  BY <1>1, <1>2, PTL DEF List!Spec, List!IsASequence, List!Promise!Spec

-----------------------------------------------------------------------------
(***************************************************************************)
(* Vectors.  A member function at work, with no mistake so far.            *)
(***************************************************************************)
Work(c, d) == [old |-> c, new |-> d, ok |-> TRUE]

(* Storage of room r in which the first n cells hold the sequence s.       *)
Stored(s, n, r) == [i \in 0 .. r - 1 |-> IF i < n THEN s[i + 1] ELSE None]

(* Storage with one value in the cells from lo to hi - 1; and with what    *)
(* another storage has so many cells further down.                         *)
Filled(c, lo, hi, x)   == [i \in DOMAIN c |-> IF lo <= i /\ i < hi THEN x ELSE c[i]]
Laid(c, lo, hi, e, by) == [i \in DOMAIN c |-> IF lo <= i /\ i < hi THEN e[i - by] ELSE c[i]]

IsStore(c) == c = [i \in DOMAIN c |-> c[i]] /\ DOMAIN c \subseteq Int

Built(c, lo, hi) == \A i \in Int : lo <= i /\ i < hi => i \in DOMAIN c /\ c[i] # None
Raw(c, lo, hi)   == \A i \in Int : lo <= i /\ i < hi => i \in DOMAIN c /\ c[i] = None

(* One cell at a time.                                                     *)
LEMMA BuildOld ==
  ASSUME NEW c, NEW d, NEW i, i \in DOMAIN c, c[i] = None, NEW x, x # None
  PROVE  Vector!Build(Work(c, d), "old", i, x) = Work([c EXCEPT ![i] = x], d)
BY DEF Vector!Build, Vector!Look, Work

(* An element built in a cell of the new storage with nothing in it.       *)
LEMMA BuildNew ==
  ASSUME NEW c, NEW d, NEW i, i \in DOMAIN d, d[i] = None, NEW x, x # None
  PROVE  Vector!Build(Work(c, d), "new", i, x) = Work(c, [d EXCEPT ![i] = x])
BY DEF Vector!Build, Vector!Look, Work

(* An element assigned to a cell of the old storage that has one.          *)
LEMMA PutOld ==
  ASSUME NEW c, NEW d, NEW i, i \in DOMAIN c, c[i] # None, NEW x, x # None
  PROVE  Vector!Put(Work(c, d), "old", i, x) = Work([c EXCEPT ![i] = x], d)
BY DEF Vector!Put, Vector!Look, Work

(* An element destroyed where one is.                                      *)
LEMMA ApartOld ==
  ASSUME NEW c, NEW d, NEW i, i \in DOMAIN c, c[i] # None
  PROVE  Vector!Apart(Work(c, d), "old", i) = Work([c EXCEPT ![i] = None], d)
BY DEF Vector!Apart, Vector!Look, Work

(* A cell of the old storage.                                              *)
LEMMA LookOld ==
  ASSUME NEW c, NEW d, NEW i, i \in DOMAIN c
  PROVE  Vector!Look(Work(c, d), "old", i) = c[i]
BY DEF Vector!Look, Work

(* Two functions that begin alike and go on alike end alike.               *)
GoOnAlike(s, f, lo, top) == \A i \in lo + 1 .. top : s[i - 1] = f[i - 1] => s[i] = f[i]

(* Then whatever the loop makes is known where it ends.                    *)
LEMMA SameLoop ==
  ASSUME NEW lo \in Int, NEW top \in Int, lo <= top, NEW s, NEW f, s[lo] = f[lo], GoOnAlike(s, f, lo, top)
  PROVE  s[top] = f[top]
<1> DEFINE E == {k \in Nat : lo + k <= top => s[lo + k] = f[lo + k]}
<1>1. 0 \in E
  OBVIOUS
<1>2. ASSUME NEW k \in Nat, k \in E PROVE k + 1 \in E
  <2>1. SUFFICES ASSUME lo + (k + 1) <= top PROVE s[lo + (k + 1)] = f[lo + (k + 1)]
    OBVIOUS
  <2>2. s[lo + k] = f[lo + k]
    BY <1>2, <2>1
  <2>3. lo + (k + 1) \in lo + 1 .. top /\ (lo + (k + 1)) - 1 = lo + k
    BY <2>1
  <2>4. QED
    BY <2>2, <2>3 DEF GoOnAlike
<1> HIDE DEF E
<1>3. Nat \subseteq E
  BY <1>1, <1>2, SetInduction
<1>4. top - lo \in Nat /\ lo + (top - lo) = top
  OBVIOUS
<1>5. top - lo \in E
  BY <1>3, <1>4
<1>6. QED
  BY <1>4, <1>5 DEF E

(* Nothing to fill, and one cell more.                                     *)
LEMMA FilledNone ==
  ASSUME NEW c, IsStore(c), NEW lo \in Int, NEW hi \in Int, hi <= lo, NEW x
  PROVE  Filled(c, lo, hi, x) = c
BY DEF Filled, IsStore

(* One cell more filled, above.                                            *)
LEMMA FilledUp ==
  ASSUME NEW c, IsStore(c), NEW lo \in Int, NEW i \in Int, lo <= i, NEW x
  PROVE  [Filled(c, lo, i, x) EXCEPT ![i] = x] = Filled(c, lo, i + 1, x)
<1> DEFINE f == Filled(c, lo, i, x)
           g == [j \in DOMAIN c |-> IF lo <= j /\ j < i + 1 THEN x ELSE c[j]]
<1>1. [f EXCEPT ![i] = x] = [j \in DOMAIN c |-> IF j = i THEN x ELSE f[j]]
  BY DEF Filled
<1>2. \A j \in DOMAIN c : f[j] = (IF lo <= j /\ j < i THEN x ELSE c[j]) /\ j \in Int
  BY DEF Filled, IsStore
<1>3. \A j \in DOMAIN c : g[j] = IF lo <= j /\ j < i + 1 THEN x ELSE c[j]
  OBVIOUS
<1>4. g = [j \in DOMAIN c |-> g[j]]
  OBVIOUS
<1> HIDE DEF f, g
<1>5. \A j \in DOMAIN c : (IF j = i THEN x ELSE f[j]) = g[j]
  BY <1>2, <1>3
<1>6. [j \in DOMAIN c |-> IF j = i THEN x ELSE f[j]] = [j \in DOMAIN c |-> g[j]]
  BY <1>5
<1>7. QED
  BY <1>1, <1>4, <1>6 DEF f, g, Filled

(* One cell more filled, below.                                            *)
LEMMA FilledDown ==
  ASSUME NEW c, IsStore(c), NEW hi \in Int, NEW i \in Int, i < hi, NEW x
  PROVE  [Filled(c, i + 1, hi, x) EXCEPT ![i] = x] = Filled(c, i, hi, x)
<1> DEFINE f == Filled(c, i + 1, hi, x)
           g == [j \in DOMAIN c |-> IF i <= j /\ j < hi THEN x ELSE c[j]]
<1>1. [f EXCEPT ![i] = x] = [j \in DOMAIN c |-> IF j = i THEN x ELSE f[j]]
  BY DEF Filled
<1>2. \A j \in DOMAIN c : f[j] = (IF i + 1 <= j /\ j < hi THEN x ELSE c[j]) /\ j \in Int
  BY DEF Filled, IsStore
<1>3. \A j \in DOMAIN c : g[j] = IF i <= j /\ j < hi THEN x ELSE c[j]
  OBVIOUS
<1>4. g = [j \in DOMAIN c |-> g[j]]
  OBVIOUS
<1> HIDE DEF f, g
<1>5. \A j \in DOMAIN c : (IF j = i THEN x ELSE f[j]) = g[j]
  BY <1>2, <1>3
<1>6. [j \in DOMAIN c |-> IF j = i THEN x ELSE f[j]] = [j \in DOMAIN c |-> g[j]]
  BY <1>5
<1>7. QED
  BY <1>1, <1>4, <1>6 DEF f, g, Filled

(* No cell laid changes nothing.                                           *)
LEMMA LaidNone ==
  ASSUME NEW c, IsStore(c), NEW lo \in Int, NEW hi \in Int, hi <= lo, NEW e, NEW by \in Int
  PROVE  Laid(c, lo, hi, e, by) = c
BY DEF Laid, IsStore

(* One cell more laid, above.                                              *)
LEMMA LaidUp ==
  ASSUME NEW c, IsStore(c), NEW lo \in Int, NEW i \in Int, lo <= i, NEW e, NEW by \in Int
  PROVE  [Laid(c, lo, i, e, by) EXCEPT ![i] = e[i - by]] = Laid(c, lo, i + 1, e, by)
<1> DEFINE f == Laid(c, lo, i, e, by)
           g == [j \in DOMAIN c |-> IF lo <= j /\ j < i + 1 THEN e[j - by] ELSE c[j]]
<1>1. [f EXCEPT ![i] = e[i - by]] = [j \in DOMAIN c |-> IF j = i THEN e[i - by] ELSE f[j]]
  BY DEF Laid
<1>2. \A j \in DOMAIN c : f[j] = (IF lo <= j /\ j < i THEN e[j - by] ELSE c[j]) /\ j \in Int
  BY DEF Laid, IsStore
<1>3. \A j \in DOMAIN c : g[j] = IF lo <= j /\ j < i + 1 THEN e[j - by] ELSE c[j]
  OBVIOUS
<1>4. g = [j \in DOMAIN c |-> g[j]]
  OBVIOUS
<1> HIDE DEF f, g
<1>5. \A j \in DOMAIN c : (IF j = i THEN e[i - by] ELSE f[j]) = g[j]
  BY <1>2, <1>3
<1>6. [j \in DOMAIN c |-> IF j = i THEN e[i - by] ELSE f[j]] = [j \in DOMAIN c |-> g[j]]
  BY <1>5
<1>7. QED
  BY <1>1, <1>4, <1>6 DEF f, g, Laid

(* One cell more laid, below.                                              *)
LEMMA LaidDown ==
  ASSUME NEW c, IsStore(c), NEW hi \in Int, NEW i \in Int, i < hi, NEW e, NEW by \in Int
  PROVE  [Laid(c, i + 1, hi, e, by) EXCEPT ![i] = e[i - by]] = Laid(c, i, hi, e, by)
<1> DEFINE f == Laid(c, i + 1, hi, e, by)
           g == [j \in DOMAIN c |-> IF i <= j /\ j < hi THEN e[j - by] ELSE c[j]]
<1>1. [f EXCEPT ![i] = e[i - by]] = [j \in DOMAIN c |-> IF j = i THEN e[i - by] ELSE f[j]]
  BY DEF Laid
<1>2. \A j \in DOMAIN c : f[j] = (IF i + 1 <= j /\ j < hi THEN e[j - by] ELSE c[j]) /\ j \in Int
  BY DEF Laid, IsStore
<1>3. \A j \in DOMAIN c : g[j] = IF i <= j /\ j < hi THEN e[j - by] ELSE c[j]
  OBVIOUS
<1>4. g = [j \in DOMAIN c |-> g[j]]
  OBVIOUS
<1> HIDE DEF f, g
<1>5. \A j \in DOMAIN c : (IF j = i THEN e[i - by] ELSE f[j]) = g[j]
  BY <1>2, <1>3
<1>6. [j \in DOMAIN c |-> IF j = i THEN e[i - by] ELSE f[j]] = [j \in DOMAIN c |-> g[j]]
  BY <1>5
<1>7. QED
  BY <1>1, <1>4, <1>6 DEF f, g, Laid

(* One value in every cell of a stretch that is raw: of the old storage.   *)
LEMMA BuildEachOld ==
  ASSUME NEW c, NEW d, NEW lo \in Int, NEW hi \in Int, NEW x, x # None,
         IsStore(c), Raw(c, lo, hi)
  PROVE  Vector!BuildEach(Work(c, d), "old", lo, hi, x) = Work(Filled(c, lo, hi, x), d)
<1> DEFINE top == IF hi > lo THEN hi ELSE lo
           Follows(s) == s = [i \in lo .. top |-> IF i = lo THEN Work(c, d)
                                ELSE Vector!Build(s[i - 1], "old", i - 1, x)]
           f == [i \in lo .. top |-> Work(Filled(c, lo, i, x), d)]
           r == CHOOSE s : Follows(s)
<1>1. Vector!BuildEach(Work(c, d), "old", lo, hi, x) = r[top]
  BY Zenon DEF Vector!BuildEach, Vector!Up
<1>2. \A i \in lo .. top : f[i] = Work(Filled(c, lo, i, x), d)
  OBVIOUS
<1>3. f[lo] = Work(c, d)
  BY FilledNone
<1>4. ASSUME NEW i \in lo + 1 .. top PROVE f[i] = Vector!Build(f[i - 1], "old", i - 1, x)
  <2> DEFINE k == i - 1
  <2>1. k \in Int /\ k \in lo .. top /\ lo <= k /\ k < hi /\ k + 1 = i /\ i \in lo .. top
    OBVIOUS
  <2> HIDE DEF k
  <2> DEFINE e == Filled(c, lo, k, x)
  <2>2. f[k] = Work(e, d)
    BY <1>2, <2>1
  <2>3. k \in DOMAIN e /\ e[k] = None
    BY <2>1 DEF Filled, Raw
  <2> HIDE DEF e, f
  <2>5. Vector!Build(Work(e, d), "old", k, x) = Work([e EXCEPT ![k] = x], d)
    BY <2>3, BuildOld
  <2>6. [e EXCEPT ![k] = x] = Filled(c, lo, k + 1, x)
    BY <2>1, FilledUp DEF e
  <2> QED BY <1>2, <2>1, <2>2, <2>5, <2>6 DEF k
<1>5. Follows(f)
  <2>1. f = [i \in lo .. top |-> f[i]]
    OBVIOUS
  <2> HIDE DEF f
  <2>2. \A i \in lo .. top : f[i] = IF i = lo THEN Work(c, d) ELSE Vector!Build(f[i - 1], "old", i - 1, x)
    <3> TAKE i \in lo .. top
    <3>1. CASE i = lo
      BY <1>3, <3>1
    <3>2. CASE i # lo
      <4>1. i \in lo + 1 .. top
        BY <3>2
      <4> QED BY <1>4, <3>2, <4>1
    <3> QED BY <3>1, <3>2
  <2> HIDE DEF top
  <2> QED BY <2>1, <2>2
<1>6. Follows(r)
  <2> HIDE DEF Follows, f
  <2> QED BY <1>5, Zenon
<1>7. r[lo] = f[lo] /\ \A i \in lo + 1 .. top : r[i] = Vector!Build(r[i - 1], "old", i - 1, x)
  <2>1. r = [i \in lo .. top |-> IF i = lo THEN Work(c, d) ELSE Vector!Build(r[i - 1], "old", i - 1, x)]
    <3> HIDE DEF r
    <3> QED BY <1>6
  <2>2. lo \in lo .. top /\ \A i \in lo + 1 .. top : i \in lo .. top /\ i # lo
    OBVIOUS
  <2> HIDE DEF r, f, top
  <2>3. \A i \in lo .. top : r[i] = IF i = lo THEN Work(c, d) ELSE Vector!Build(r[i - 1], "old", i - 1, x)
    BY <2>1, Zenon
  <2> QED BY <1>3, <2>2, <2>3
<1> HIDE DEF f, Follows, r
<1>8. r[top] = f[top]
  <2>1. top \in Int /\ lo <= top
    OBVIOUS
  <2> HIDE DEF top
  <2>2. GoOnAlike(r, f, lo, top)
    BY <1>4, <1>7 DEF GoOnAlike
  <2>3. r[lo] = f[lo]
    BY <1>7
  <2> QED BY <2>1, <2>2, <2>3, SameLoop
<1>9. f[top] = Work(Filled(c, lo, hi, x), d)
  BY <1>2, FilledNone
<1>10. QED
  BY <1>1, <1>8, <1>9

(* One value in every cell of a stretch that is raw: of the new.           *)
LEMMA BuildEachNew ==
  ASSUME NEW c, NEW d, NEW lo \in Int, NEW hi \in Int, NEW x, x # None,
         IsStore(d), Raw(d, lo, hi)
  PROVE  Vector!BuildEach(Work(c, d), "new", lo, hi, x) = Work(c, Filled(d, lo, hi, x))
<1> DEFINE top == IF hi > lo THEN hi ELSE lo
           Follows(s) == s = [i \in lo .. top |-> IF i = lo THEN Work(c, d)
                                ELSE Vector!Build(s[i - 1], "new", i - 1, x)]
           f == [i \in lo .. top |-> Work(c, Filled(d, lo, i, x))]
           r == CHOOSE s : Follows(s)
<1>1. Vector!BuildEach(Work(c, d), "new", lo, hi, x) = r[top]
  BY Zenon DEF Vector!BuildEach, Vector!Up
<1>2. \A i \in lo .. top : f[i] = Work(c, Filled(d, lo, i, x))
  OBVIOUS
<1>3. f[lo] = Work(c, d)
  BY FilledNone
<1>4. ASSUME NEW i \in lo + 1 .. top PROVE f[i] = Vector!Build(f[i - 1], "new", i - 1, x)
  <2> DEFINE k == i - 1
  <2>1. k \in Int /\ k \in lo .. top /\ lo <= k /\ k < hi /\ k + 1 = i /\ i \in lo .. top
    OBVIOUS
  <2> HIDE DEF k
  <2> DEFINE e == Filled(d, lo, k, x)
  <2>2. f[k] = Work(c, e)
    BY <1>2, <2>1
  <2>3. k \in DOMAIN e /\ e[k] = None
    BY <2>1 DEF Filled, Raw
  <2> HIDE DEF e, f
  <2>5. Vector!Build(Work(c, e), "new", k, x) = Work(c, [e EXCEPT ![k] = x])
    BY <2>3, BuildNew
  <2>6. [e EXCEPT ![k] = x] = Filled(d, lo, k + 1, x)
    BY <2>1, FilledUp DEF e
  <2> QED BY <1>2, <2>1, <2>2, <2>5, <2>6 DEF k
<1>5. Follows(f)
  <2>1. f = [i \in lo .. top |-> f[i]]
    OBVIOUS
  <2> HIDE DEF f
  <2>2. \A i \in lo .. top : f[i] = IF i = lo THEN Work(c, d) ELSE Vector!Build(f[i - 1], "new", i - 1, x)
    <3> TAKE i \in lo .. top
    <3>1. CASE i = lo
      BY <1>3, <3>1
    <3>2. CASE i # lo
      <4>1. i \in lo + 1 .. top
        BY <3>2
      <4> QED BY <1>4, <3>2, <4>1
    <3> QED BY <3>1, <3>2
  <2> HIDE DEF top
  <2> QED BY <2>1, <2>2
<1>6. Follows(r)
  <2> HIDE DEF Follows, f
  <2> QED BY <1>5, Zenon
<1>7. r[lo] = f[lo] /\ \A i \in lo + 1 .. top : r[i] = Vector!Build(r[i - 1], "new", i - 1, x)
  <2>1. r = [i \in lo .. top |-> IF i = lo THEN Work(c, d) ELSE Vector!Build(r[i - 1], "new", i - 1, x)]
    <3> HIDE DEF r
    <3> QED BY <1>6
  <2>2. lo \in lo .. top /\ \A i \in lo + 1 .. top : i \in lo .. top /\ i # lo
    OBVIOUS
  <2> HIDE DEF r, f, top
  <2>3. \A i \in lo .. top : r[i] = IF i = lo THEN Work(c, d) ELSE Vector!Build(r[i - 1], "new", i - 1, x)
    BY <2>1, Zenon
  <2> QED BY <1>3, <2>2, <2>3
<1> HIDE DEF f, Follows, r
<1>8. r[top] = f[top]
  <2>1. top \in Int /\ lo <= top
    OBVIOUS
  <2> HIDE DEF top
  <2>2. GoOnAlike(r, f, lo, top)
    BY <1>4, <1>7 DEF GoOnAlike
  <2>3. r[lo] = f[lo]
    BY <1>7
  <2> QED BY <2>1, <2>2, <2>3, SameLoop
<1>9. f[top] = Work(c, Filled(d, lo, hi, x))
  BY <1>2, FilledNone
<1>10. QED
  BY <1>1, <1>8, <1>9

(* Each cell of a raw stretch a copy of another storage's.                 *)
LEMMA CopyOfIs ==
  ASSUME NEW c, NEW d, NEW src, NEW lo \in Int, NEW hi \in Int,
         IsStore(c), Raw(c, lo, hi), Built(src, lo, hi)
  PROVE  Vector!CopyOf(Work(c, d), src, lo, hi) = Work(Laid(c, lo, hi, src, 0), d)
<1> DEFINE top == IF hi > lo THEN hi ELSE lo
           Follows(s) == s = [i \in lo .. top |-> IF i = lo THEN Work(c, d)
                                ELSE Vector!Build(s[i - 1], "old", i - 1, src[i - 1])]
           f == [i \in lo .. top |-> Work(Laid(c, lo, i, src, 0), d)]
           r == CHOOSE s : Follows(s)
<1>1. Vector!CopyOf(Work(c, d), src, lo, hi) = r[top]
  BY Zenon DEF Vector!CopyOf, Vector!Up
<1>2. \A i \in lo .. top : f[i] = Work(Laid(c, lo, i, src, 0), d)
  OBVIOUS
<1>3. f[lo] = Work(c, d)
  BY LaidNone
<1>4. ASSUME NEW i \in lo + 1 .. top PROVE f[i] = Vector!Build(f[i - 1], "old", i - 1, src[i - 1])
  <2> DEFINE k == i - 1
  <2>1. k \in Int /\ k \in lo .. top /\ lo <= k /\ k < hi /\ k + 1 = i /\ i \in lo .. top
    OBVIOUS
  <2> HIDE DEF k
  <2> DEFINE e == Laid(c, lo, k, src, 0)
  <2>2. f[k] = Work(e, d)
    BY <1>2, <2>1
  <2>3. k \in DOMAIN e /\ e[k] = None /\ src[k] # None /\ k - 0 = k
    BY <2>1 DEF Laid, Raw, Built
  <2> HIDE DEF e, f
  <2>5. Vector!Build(Work(e, d), "old", k, src[k]) = Work([e EXCEPT ![k] = src[k]], d)
    BY <2>3, BuildOld
  <2>6. [e EXCEPT ![k] = src[k - 0]] = Laid(c, lo, k + 1, src, 0)
    BY <2>1, LaidUp DEF e
  <2> QED BY <1>2, <2>1, <2>2, <2>3, <2>5, <2>6 DEF k
<1>5. Follows(f)
  <2>1. f = [i \in lo .. top |-> f[i]]
    OBVIOUS
  <2> HIDE DEF f
  <2>2. \A i \in lo .. top : f[i] = IF i = lo THEN Work(c, d) ELSE Vector!Build(f[i - 1], "old", i - 1, src[i - 1])
    <3> TAKE i \in lo .. top
    <3>1. CASE i = lo
      BY <1>3, <3>1
    <3>2. CASE i # lo
      <4>1. i \in lo + 1 .. top
        BY <3>2
      <4> QED BY <1>4, <3>2, <4>1
    <3> QED BY <3>1, <3>2
  <2> HIDE DEF top
  <2> QED BY <2>1, <2>2
<1>6. Follows(r)
  <2> HIDE DEF Follows, f
  <2> QED BY <1>5, Zenon
<1>7. r[lo] = f[lo] /\ \A i \in lo + 1 .. top : r[i] = Vector!Build(r[i - 1], "old", i - 1, src[i - 1])
  <2>1. r = [i \in lo .. top |-> IF i = lo THEN Work(c, d) ELSE Vector!Build(r[i - 1], "old", i - 1, src[i - 1])]
    <3> HIDE DEF r
    <3> QED BY <1>6
  <2>2. lo \in lo .. top /\ \A i \in lo + 1 .. top : i \in lo .. top /\ i # lo
    OBVIOUS
  <2> HIDE DEF r, f, top
  <2>3. \A i \in lo .. top : r[i] = IF i = lo THEN Work(c, d) ELSE Vector!Build(r[i - 1], "old", i - 1, src[i - 1])
    BY <2>1, Zenon
  <2> QED BY <1>3, <2>2, <2>3
<1> HIDE DEF f, Follows, r
<1>8. r[top] = f[top]
  <2>1. top \in Int /\ lo <= top
    OBVIOUS
  <2> HIDE DEF top
  <2>2. GoOnAlike(r, f, lo, top)
    BY <1>4, <1>7 DEF GoOnAlike
  <2>3. r[lo] = f[lo]
    BY <1>7
  <2> QED BY <2>1, <2>2, <2>3, SameLoop
<1>9. f[top] = Work(Laid(c, lo, hi, src, 0), d)
  BY <1>2, LaidNone
<1>10. QED
  BY <1>1, <1>8, <1>9

(* Elements assigned from another storage's.                               *)
LEMMA PutEachIs ==
  ASSUME NEW c, NEW d, NEW src, NEW lo \in Int, NEW hi \in Int,
         IsStore(c), Built(c, lo, hi), Built(src, lo, hi)
  PROVE  Vector!PutEach(Work(c, d), src, lo, hi) = Work(Laid(c, lo, hi, src, 0), d)
<1> DEFINE top == IF hi > lo THEN hi ELSE lo
           Follows(s) == s = [i \in lo .. top |-> IF i = lo THEN Work(c, d)
                                ELSE Vector!Put(s[i - 1], "old", i - 1, src[i - 1])]
           f == [i \in lo .. top |-> Work(Laid(c, lo, i, src, 0), d)]
           r == CHOOSE s : Follows(s)
<1>1. Vector!PutEach(Work(c, d), src, lo, hi) = r[top]
  BY Zenon DEF Vector!PutEach, Vector!Up
<1>2. \A i \in lo .. top : f[i] = Work(Laid(c, lo, i, src, 0), d)
  OBVIOUS
<1>3. f[lo] = Work(c, d)
  BY LaidNone
<1>4. ASSUME NEW i \in lo + 1 .. top PROVE f[i] = Vector!Put(f[i - 1], "old", i - 1, src[i - 1])
  <2> DEFINE k == i - 1
  <2>1. k \in Int /\ k \in lo .. top /\ lo <= k /\ k < hi /\ k + 1 = i /\ i \in lo .. top
    OBVIOUS
  <2> HIDE DEF k
  <2> DEFINE e == Laid(c, lo, k, src, 0)
  <2>2. f[k] = Work(e, d)
    BY <1>2, <2>1
  <2>3. k \in DOMAIN e /\ e[k] # None /\ src[k] # None /\ k - 0 = k
    BY <2>1 DEF Laid, Built, Built
  <2> HIDE DEF e, f
  <2>5. Vector!Put(Work(e, d), "old", k, src[k]) = Work([e EXCEPT ![k] = src[k]], d)
    BY <2>3, PutOld
  <2>6. [e EXCEPT ![k] = src[k - 0]] = Laid(c, lo, k + 1, src, 0)
    BY <2>1, LaidUp DEF e
  <2> QED BY <1>2, <2>1, <2>2, <2>3, <2>5, <2>6 DEF k
<1>5. Follows(f)
  <2>1. f = [i \in lo .. top |-> f[i]]
    OBVIOUS
  <2> HIDE DEF f
  <2>2. \A i \in lo .. top : f[i] = IF i = lo THEN Work(c, d) ELSE Vector!Put(f[i - 1], "old", i - 1, src[i - 1])
    <3> TAKE i \in lo .. top
    <3>1. CASE i = lo
      BY <1>3, <3>1
    <3>2. CASE i # lo
      <4>1. i \in lo + 1 .. top
        BY <3>2
      <4> QED BY <1>4, <3>2, <4>1
    <3> QED BY <3>1, <3>2
  <2> HIDE DEF top
  <2> QED BY <2>1, <2>2
<1>6. Follows(r)
  <2> HIDE DEF Follows, f
  <2> QED BY <1>5, Zenon
<1>7. r[lo] = f[lo] /\ \A i \in lo + 1 .. top : r[i] = Vector!Put(r[i - 1], "old", i - 1, src[i - 1])
  <2>1. r = [i \in lo .. top |-> IF i = lo THEN Work(c, d) ELSE Vector!Put(r[i - 1], "old", i - 1, src[i - 1])]
    <3> HIDE DEF r
    <3> QED BY <1>6
  <2>2. lo \in lo .. top /\ \A i \in lo + 1 .. top : i \in lo .. top /\ i # lo
    OBVIOUS
  <2> HIDE DEF r, f, top
  <2>3. \A i \in lo .. top : r[i] = IF i = lo THEN Work(c, d) ELSE Vector!Put(r[i - 1], "old", i - 1, src[i - 1])
    BY <2>1, Zenon
  <2> QED BY <1>3, <2>2, <2>3
<1> HIDE DEF f, Follows, r
<1>8. r[top] = f[top]
  <2>1. top \in Int /\ lo <= top
    OBVIOUS
  <2> HIDE DEF top
  <2>2. GoOnAlike(r, f, lo, top)
    BY <1>4, <1>7 DEF GoOnAlike
  <2>3. r[lo] = f[lo]
    BY <1>7
  <2> QED BY <2>1, <2>2, <2>3, SameLoop
<1>9. f[top] = Work(Laid(c, lo, hi, src, 0), d)
  BY <1>2, LaidNone
<1>10. QED
  BY <1>1, <1>8, <1>9

(* The old elements copied to the new storage, so many cells up.           *)
LEMMA CopiedIs ==
  ASSUME NEW c, NEW d, NEW lo \in Int, NEW hi \in Int, NEW by \in Int,
         IsStore(d), Built(c, lo, hi), Raw(d, lo + by, hi + by)
  PROVE  Vector!Copied(Work(c, d), lo, hi, by) = Work(c, Laid(d, lo + by, hi + by, c, by))
<1> DEFINE top == IF hi > lo THEN hi ELSE lo
           Follows(s) == s = [i \in lo .. top |-> IF i = lo THEN Work(c, d)
                                ELSE Vector!Build(s[i - 1], "new", (i - 1) + by, Vector!Look(s[i - 1], "old", i - 1))]
           f == [i \in lo .. top |-> Work(c, Laid(d, lo + by, i + by, c, by))]
           r == CHOOSE s : Follows(s)
<1>1. Vector!Copied(Work(c, d), lo, hi, by) = r[top]
  BY Zenon DEF Vector!Copied, Vector!Up
<1>2. \A i \in lo .. top : f[i] = Work(c, Laid(d, lo + by, i + by, c, by))
  OBVIOUS
<1>3. f[lo] = Work(c, d)
  BY LaidNone
<1>4. ASSUME NEW i \in lo + 1 .. top PROVE f[i] = Vector!Build(f[i - 1], "new", (i - 1) + by, Vector!Look(f[i - 1], "old", i - 1))
  <2> DEFINE k == i - 1
  <2>1. k \in Int /\ k \in lo .. top /\ lo <= k /\ k < hi /\ k + 1 = i /\ i \in lo .. top
    OBVIOUS
  <2> HIDE DEF k
  <2> DEFINE e == Laid(d, lo + by, k + by, c, by)
  <2>2. f[k] = Work(c, e)
    BY <1>2, <2>1
  <2>3. k + by \in DOMAIN e /\ e[k + by] = None /\ k \in DOMAIN c /\ c[k] # None
    BY <2>1 DEF Laid, Raw, Built
  <2> HIDE DEF e, f
  <2>4. Vector!Look(Work(c, e), "old", k) = c[k]
    BY <2>3, LookOld
  <2>5. Vector!Build(Work(c, e), "new", k + by, c[k]) = Work(c, [e EXCEPT ![k + by] = c[k]])
    BY <2>3, BuildNew
  <2>6. [e EXCEPT ![k + by] = c[k]] = Laid(d, lo + by, i + by, c, by)
    <3> DEFINE m == k + by
    <3>1. m \in Int /\ lo + by <= m /\ m + 1 = i + by /\ m - by = k /\ lo + by \in Int
      BY <2>1
    <3> HIDE DEF m
    <3>2. [Laid(d, lo + by, m, c, by) EXCEPT ![m] = c[m - by]] = Laid(d, lo + by, m + 1, c, by)
      BY <3>1, LaidUp
    <3> QED BY <3>1, <3>2 DEF e, m
  <2> QED BY <1>2, <2>1, <2>2, <2>5, <2>6, <2>4 DEF k
<1>5. Follows(f)
  <2>1. f = [i \in lo .. top |-> f[i]]
    OBVIOUS
  <2> HIDE DEF f
  <2>2. \A i \in lo .. top : f[i] = IF i = lo THEN Work(c, d) ELSE Vector!Build(f[i - 1], "new", (i - 1) + by, Vector!Look(f[i - 1], "old", i - 1))
    <3> TAKE i \in lo .. top
    <3>1. CASE i = lo
      BY <1>3, <3>1
    <3>2. CASE i # lo
      <4>1. i \in lo + 1 .. top
        BY <3>2
      <4> QED BY <1>4, <3>2, <4>1
    <3> QED BY <3>1, <3>2
  <2> HIDE DEF top
  <2> QED BY <2>1, <2>2
<1>6. Follows(r)
  <2> HIDE DEF Follows, f
  <2> QED BY <1>5, Zenon
<1>7. r[lo] = f[lo] /\ \A i \in lo + 1 .. top : r[i] = Vector!Build(r[i - 1], "new", (i - 1) + by, Vector!Look(r[i - 1], "old", i - 1))
  <2>1. r = [i \in lo .. top |-> IF i = lo THEN Work(c, d) ELSE Vector!Build(r[i - 1], "new", (i - 1) + by, Vector!Look(r[i - 1], "old", i - 1))]
    <3> HIDE DEF r
    <3> QED BY <1>6
  <2>2. lo \in lo .. top /\ \A i \in lo + 1 .. top : i \in lo .. top /\ i # lo
    OBVIOUS
  <2> HIDE DEF r, f, top
  <2>3. \A i \in lo .. top : r[i] = IF i = lo THEN Work(c, d) ELSE Vector!Build(r[i - 1], "new", (i - 1) + by, Vector!Look(r[i - 1], "old", i - 1))
    BY <2>1, Zenon
  <2> QED BY <1>3, <2>2, <2>3
<1> HIDE DEF f, Follows, r
<1>8. r[top] = f[top]
  <2>1. top \in Int /\ lo <= top
    OBVIOUS
  <2> HIDE DEF top
  <2>2. GoOnAlike(r, f, lo, top)
    BY <1>4, <1>7 DEF GoOnAlike
  <2>3. r[lo] = f[lo]
    BY <1>7
  <2> QED BY <2>1, <2>2, <2>3, SameLoop
<1>9. f[top] = Work(c, Laid(d, lo + by, hi + by, c, by))
  BY <1>2, LaidNone
<1>10. QED
  BY <1>1, <1>8, <1>9

(* A stretch of elements destroyed, first to last.                         *)
LEMMA EmptiedIs ==
  ASSUME NEW c, NEW d, NEW lo \in Int, NEW hi \in Int,
         IsStore(c), Built(c, lo, hi)
  PROVE  Vector!Emptied(Work(c, d), lo, hi) = Work(Filled(c, lo, hi, None), d)
<1> DEFINE top == IF hi > lo THEN hi ELSE lo
           Follows(s) == s = [i \in lo .. top |-> IF i = lo THEN Work(c, d)
                                ELSE Vector!Apart(s[i - 1], "old", i - 1)]
           f == [i \in lo .. top |-> Work(Filled(c, lo, i, None), d)]
           r == CHOOSE s : Follows(s)
<1>1. Vector!Emptied(Work(c, d), lo, hi) = r[top]
  BY Zenon DEF Vector!Emptied, Vector!Up
<1>2. \A i \in lo .. top : f[i] = Work(Filled(c, lo, i, None), d)
  OBVIOUS
<1>3. f[lo] = Work(c, d)
  BY FilledNone
<1>4. ASSUME NEW i \in lo + 1 .. top PROVE f[i] = Vector!Apart(f[i - 1], "old", i - 1)
  <2> DEFINE k == i - 1
  <2>1. k \in Int /\ k \in lo .. top /\ lo <= k /\ k < hi /\ k + 1 = i /\ i \in lo .. top
    OBVIOUS
  <2> HIDE DEF k
  <2> DEFINE e == Filled(c, lo, k, None)
  <2>2. f[k] = Work(e, d)
    BY <1>2, <2>1
  <2>3. k \in DOMAIN e /\ e[k] # None
    BY <2>1 DEF Filled, Built
  <2> HIDE DEF e, f
  <2>5. Vector!Apart(Work(e, d), "old", k) = Work([e EXCEPT ![k] = None], d)
    BY <2>3, ApartOld
  <2>6. [e EXCEPT ![k] = None] = Filled(c, lo, k + 1, None)
    BY <2>1, FilledUp DEF e
  <2> QED BY <1>2, <2>1, <2>2, <2>5, <2>6 DEF k
<1>5. Follows(f)
  <2>1. f = [i \in lo .. top |-> f[i]]
    OBVIOUS
  <2> HIDE DEF f
  <2>2. \A i \in lo .. top : f[i] = IF i = lo THEN Work(c, d) ELSE Vector!Apart(f[i - 1], "old", i - 1)
    <3> TAKE i \in lo .. top
    <3>1. CASE i = lo
      BY <1>3, <3>1
    <3>2. CASE i # lo
      <4>1. i \in lo + 1 .. top
        BY <3>2
      <4> QED BY <1>4, <3>2, <4>1
    <3> QED BY <3>1, <3>2
  <2> HIDE DEF top
  <2> QED BY <2>1, <2>2
<1>6. Follows(r)
  <2> HIDE DEF Follows, f
  <2> QED BY <1>5, Zenon
<1>7. r[lo] = f[lo] /\ \A i \in lo + 1 .. top : r[i] = Vector!Apart(r[i - 1], "old", i - 1)
  <2>1. r = [i \in lo .. top |-> IF i = lo THEN Work(c, d) ELSE Vector!Apart(r[i - 1], "old", i - 1)]
    <3> HIDE DEF r
    <3> QED BY <1>6
  <2>2. lo \in lo .. top /\ \A i \in lo + 1 .. top : i \in lo .. top /\ i # lo
    OBVIOUS
  <2> HIDE DEF r, f, top
  <2>3. \A i \in lo .. top : r[i] = IF i = lo THEN Work(c, d) ELSE Vector!Apart(r[i - 1], "old", i - 1)
    BY <2>1, Zenon
  <2> QED BY <1>3, <2>2, <2>3
<1> HIDE DEF f, Follows, r
<1>8. r[top] = f[top]
  <2>1. top \in Int /\ lo <= top
    OBVIOUS
  <2> HIDE DEF top
  <2>2. GoOnAlike(r, f, lo, top)
    BY <1>4, <1>7 DEF GoOnAlike
  <2>3. r[lo] = f[lo]
    BY <1>7
  <2> QED BY <2>1, <2>2, <2>3, SameLoop
<1>9. f[top] = Work(Filled(c, lo, hi, None), d)
  BY <1>2, FilledNone
<1>10. QED
  BY <1>1, <1>8, <1>9

(* Elements assigned to the cells so many down.                            *)
LEMMA PutDownIs ==
  ASSUME NEW c, NEW d, NEW lo \in Int, NEW hi \in Int, NEW by \in Int, by > 0,
         IsStore(c), Built(c, lo - by, hi)
  PROVE  Vector!PutDown(Work(c, d), lo, hi, by) = Work(Laid(c, lo - by, hi - by, c, -by), d)
<1> DEFINE top == IF hi > lo THEN hi ELSE lo
           Follows(s) == s = [i \in lo .. top |-> IF i = lo THEN Work(c, d)
                                ELSE Vector!Put(s[i - 1], "old", (i - 1) - by, Vector!Look(s[i - 1], "old", i - 1))]
           f == [i \in lo .. top |-> Work(Laid(c, lo - by, i - by, c, -by), d)]
           r == CHOOSE s : Follows(s)
<1>1. Vector!PutDown(Work(c, d), lo, hi, by) = r[top]
  BY Zenon DEF Vector!PutDown, Vector!Up
<1>2. \A i \in lo .. top : f[i] = Work(Laid(c, lo - by, i - by, c, -by), d)
  OBVIOUS
<1>3. f[lo] = Work(c, d)
  BY LaidNone
<1>4. ASSUME NEW i \in lo + 1 .. top PROVE f[i] = Vector!Put(f[i - 1], "old", (i - 1) - by, Vector!Look(f[i - 1], "old", i - 1))
  <2> DEFINE k == i - 1
  <2>1. k \in Int /\ k \in lo .. top /\ lo <= k /\ k < hi /\ k + 1 = i /\ i \in lo .. top
    OBVIOUS
  <2> HIDE DEF k
  <2> DEFINE e == Laid(c, lo - by, k - by, c, -by)
  <2>2. f[k] = Work(e, d)
    BY <1>2, <2>1
  <2>3. k - by \in DOMAIN e /\ e[k - by] # None /\ k \in DOMAIN e /\ e[k] = c[k] /\ c[k] # None
    BY <2>1 DEF Laid, Built
  <2> HIDE DEF e, f
  <2>4. Vector!Look(Work(e, d), "old", k) = c[k]
    BY <2>3, LookOld
  <2>5. Vector!Put(Work(e, d), "old", k - by, c[k]) = Work([e EXCEPT ![k - by] = c[k]], d)
    BY <2>3, PutOld
  <2>6. [e EXCEPT ![k - by] = c[k]] = Laid(c, lo - by, i - by, c, -by)
    <3> DEFINE m == k - by
    <3>1. m \in Int /\ lo - by <= m /\ m + 1 = i - by /\ m - (-by) = k /\ lo - by \in Int /\ -by \in Int
      BY <2>1
    <3> HIDE DEF m
    <3>2. [Laid(c, lo - by, m, c, -by) EXCEPT ![m] = c[m - (-by)]] = Laid(c, lo - by, m + 1, c, -by)
      BY <3>1, LaidUp
    <3> QED BY <3>1, <3>2 DEF e, m
  <2> QED BY <1>2, <2>1, <2>2, <2>5, <2>6, <2>4 DEF k
<1>5. Follows(f)
  <2>1. f = [i \in lo .. top |-> f[i]]
    OBVIOUS
  <2> HIDE DEF f
  <2>2. \A i \in lo .. top : f[i] = IF i = lo THEN Work(c, d) ELSE Vector!Put(f[i - 1], "old", (i - 1) - by, Vector!Look(f[i - 1], "old", i - 1))
    <3> TAKE i \in lo .. top
    <3>1. CASE i = lo
      BY <1>3, <3>1
    <3>2. CASE i # lo
      <4>1. i \in lo + 1 .. top
        BY <3>2
      <4> QED BY <1>4, <3>2, <4>1
    <3> QED BY <3>1, <3>2
  <2> HIDE DEF top
  <2> QED BY <2>1, <2>2
<1>6. Follows(r)
  <2> HIDE DEF Follows, f
  <2> QED BY <1>5, Zenon
<1>7. r[lo] = f[lo] /\ \A i \in lo + 1 .. top : r[i] = Vector!Put(r[i - 1], "old", (i - 1) - by, Vector!Look(r[i - 1], "old", i - 1))
  <2>1. r = [i \in lo .. top |-> IF i = lo THEN Work(c, d) ELSE Vector!Put(r[i - 1], "old", (i - 1) - by, Vector!Look(r[i - 1], "old", i - 1))]
    <3> HIDE DEF r
    <3> QED BY <1>6
  <2>2. lo \in lo .. top /\ \A i \in lo + 1 .. top : i \in lo .. top /\ i # lo
    OBVIOUS
  <2> HIDE DEF r, f, top
  <2>3. \A i \in lo .. top : r[i] = IF i = lo THEN Work(c, d) ELSE Vector!Put(r[i - 1], "old", (i - 1) - by, Vector!Look(r[i - 1], "old", i - 1))
    BY <2>1, Zenon
  <2> QED BY <1>3, <2>2, <2>3
<1> HIDE DEF f, Follows, r
<1>8. r[top] = f[top]
  <2>1. top \in Int /\ lo <= top
    OBVIOUS
  <2> HIDE DEF top
  <2>2. GoOnAlike(r, f, lo, top)
    BY <1>4, <1>7 DEF GoOnAlike
  <2>3. r[lo] = f[lo]
    BY <1>7
  <2> QED BY <2>1, <2>2, <2>3, SameLoop
<1>9. f[top] = Work(Laid(c, lo - by, hi - by, c, -by), d)
  BY <1>2, LaidNone
<1>10. QED
  BY <1>1, <1>8, <1>9

(* A stretch of elements destroyed, last to first.                         *)
LEMMA DestroyDownIs ==
  ASSUME NEW c, NEW d, NEW lo \in Int, NEW hi \in Int,
         IsStore(c), Built(c, lo, hi)
  PROVE  Vector!DestroyDown(Work(c, d), hi, lo) = Work(Filled(c, lo, hi, None), d)
<1> DEFINE top == IF hi > lo THEN hi ELSE lo
           Follows(s) == s = [i \in lo .. top |-> IF i = lo THEN Work(c, d)
                                ELSE Vector!Apart(s[i - 1], "old", hi - 1 - (i - 1 - lo))]
           f == [i \in lo .. top |-> Work(Filled(c, (hi + lo) - i, hi, None), d)]
           r == CHOOSE s : Follows(s)
<1>1. Vector!DestroyDown(Work(c, d), hi, lo) = r[top]
  BY Zenon DEF Vector!DestroyDown, Vector!Down, Vector!Up
<1>2. \A i \in lo .. top : f[i] = Work(Filled(c, (hi + lo) - i, hi, None), d)
  OBVIOUS
<1>3. f[lo] = Work(c, d)
  BY FilledNone
<1>4. ASSUME NEW i \in lo + 1 .. top PROVE f[i] = Vector!Apart(f[i - 1], "old", hi - 1 - (i - 1 - lo))
  <2> DEFINE k == hi - 1 - (i - 1 - lo)
  <2>1. k \in Int /\ i - 1 \in lo .. top /\ lo <= k /\ k < hi
        /\ (hi + lo) - (i - 1) = k + 1 /\ (hi + lo) - i = k
    OBVIOUS
  <2> HIDE DEF k
  <2> DEFINE e == Filled(c, k + 1, hi, None)
  <2>2. f[i - 1] = Work(e, d)
    BY <1>2, <2>1
  <2>3. k \in DOMAIN e /\ e[k] # None
    BY <2>1 DEF Filled, Built
  <2> HIDE DEF e, f
  <2>5. Vector!Apart(Work(e, d), "old", k) = Work([e EXCEPT ![k] = None], d)
    BY <2>3, ApartOld
  <2>6. [e EXCEPT ![k] = None] = Filled(c, k, hi, None)
    BY <2>1, FilledDown DEF e
  <2> QED BY <1>2, <2>1, <2>2, <2>5, <2>6 DEF k
<1>5. Follows(f)
  <2>1. f = [i \in lo .. top |-> f[i]]
    OBVIOUS
  <2> HIDE DEF f
  <2>2. \A i \in lo .. top : f[i] = IF i = lo THEN Work(c, d) ELSE Vector!Apart(f[i - 1], "old", hi - 1 - (i - 1 - lo))
    <3> TAKE i \in lo .. top
    <3>1. CASE i = lo
      BY <1>3, <3>1
    <3>2. CASE i # lo
      <4>1. i \in lo + 1 .. top
        BY <3>2
      <4> QED BY <1>4, <3>2, <4>1
    <3> QED BY <3>1, <3>2
  <2> HIDE DEF top
  <2> QED BY <2>1, <2>2
<1>6. Follows(r)
  <2> HIDE DEF Follows, f
  <2> QED BY <1>5, Zenon
<1>7. r[lo] = f[lo] /\ \A i \in lo + 1 .. top : r[i] = Vector!Apart(r[i - 1], "old", hi - 1 - (i - 1 - lo))
  <2>1. r = [i \in lo .. top |-> IF i = lo THEN Work(c, d) ELSE Vector!Apart(r[i - 1], "old", hi - 1 - (i - 1 - lo))]
    <3> HIDE DEF r
    <3> QED BY <1>6
  <2>2. lo \in lo .. top /\ \A i \in lo + 1 .. top : i \in lo .. top /\ i # lo
    OBVIOUS
  <2> HIDE DEF r, f, top
  <2>3. \A i \in lo .. top : r[i] = IF i = lo THEN Work(c, d) ELSE Vector!Apart(r[i - 1], "old", hi - 1 - (i - 1 - lo))
    BY <2>1, Zenon
  <2> QED BY <1>3, <2>2, <2>3
<1> HIDE DEF f, Follows, r
<1>8. r[top] = f[top]
  <2>1. top \in Int /\ lo <= top
    OBVIOUS
  <2> HIDE DEF top
  <2>2. GoOnAlike(r, f, lo, top)
    BY <1>4, <1>7 DEF GoOnAlike
  <2>3. r[lo] = f[lo]
    BY <1>7
  <2> QED BY <2>1, <2>2, <2>3, SameLoop
<1>9. f[top] = Work(Filled(c, lo, hi, None), d)
  BY <1>2, FilledNone
<1>10. QED
  BY <1>1, <1>8, <1>9

(* Elements assigned one cell up, last to first.                           *)
LEMMA PutUpIs ==
  ASSUME NEW c, NEW d, NEW lo \in Int, NEW hi \in Int,
         IsStore(c), Built(c, lo - 1, hi)
  PROVE  Vector!PutUp(Work(c, d), hi, lo) = Work(Laid(c, lo, hi, c, 1), d)
<1> DEFINE top == IF hi > lo THEN hi ELSE lo
           Follows(s) == s = [i \in lo .. top |-> IF i = lo THEN Work(c, d)
                                ELSE Vector!Put(s[i - 1], "old", hi - 1 - (i - 1 - lo), Vector!Look(s[i - 1], "old", hi - 1 - (i - 1 - lo) - 1))]
           f == [i \in lo .. top |-> Work(Laid(c, (hi + lo) - i, hi, c, 1), d)]
           r == CHOOSE s : Follows(s)
<1>1. Vector!PutUp(Work(c, d), hi, lo) = r[top]
  BY Zenon DEF Vector!PutUp, Vector!Down, Vector!Up
<1>2. \A i \in lo .. top : f[i] = Work(Laid(c, (hi + lo) - i, hi, c, 1), d)
  OBVIOUS
<1>3. f[lo] = Work(c, d)
  BY LaidNone
<1>4. ASSUME NEW i \in lo + 1 .. top PROVE f[i] = Vector!Put(f[i - 1], "old", hi - 1 - (i - 1 - lo), Vector!Look(f[i - 1], "old", hi - 1 - (i - 1 - lo) - 1))
  <2> DEFINE k == hi - 1 - (i - 1 - lo)
  <2>1. k \in Int /\ i - 1 \in lo .. top /\ lo <= k /\ k < hi
        /\ (hi + lo) - (i - 1) = k + 1 /\ (hi + lo) - i = k
    OBVIOUS
  <2> HIDE DEF k
  <2> DEFINE e == Laid(c, k + 1, hi, c, 1)
  <2>2. f[i - 1] = Work(e, d)
    BY <1>2, <2>1
  <2>3. k \in DOMAIN e /\ e[k] # None /\ k - 1 \in DOMAIN e /\ e[k - 1] = c[k - 1] /\ c[k - 1] # None
    BY <2>1 DEF Laid, Built
  <2> HIDE DEF e, f
  <2>4. Vector!Look(Work(e, d), "old", k - 1) = c[k - 1]
    BY <2>3, LookOld
  <2>5. Vector!Put(Work(e, d), "old", k, c[k - 1]) = Work([e EXCEPT ![k] = c[k - 1]], d)
    BY <2>3, PutOld
  <2>6. [e EXCEPT ![k] = c[k - 1]] = Laid(c, k, hi, c, 1)
    BY <2>1, LaidDown DEF e
  <2> QED BY <1>2, <2>1, <2>2, <2>5, <2>6, <2>4 DEF k
<1>5. Follows(f)
  <2>1. f = [i \in lo .. top |-> f[i]]
    OBVIOUS
  <2> HIDE DEF f
  <2>2. \A i \in lo .. top : f[i] = IF i = lo THEN Work(c, d) ELSE Vector!Put(f[i - 1], "old", hi - 1 - (i - 1 - lo), Vector!Look(f[i - 1], "old", hi - 1 - (i - 1 - lo) - 1))
    <3> TAKE i \in lo .. top
    <3>1. CASE i = lo
      BY <1>3, <3>1
    <3>2. CASE i # lo
      <4>1. i \in lo + 1 .. top
        BY <3>2
      <4> QED BY <1>4, <3>2, <4>1
    <3> QED BY <3>1, <3>2
  <2> HIDE DEF top
  <2> QED BY <2>1, <2>2
<1>6. Follows(r)
  <2> HIDE DEF Follows, f
  <2> QED BY <1>5, Zenon
<1>7. r[lo] = f[lo] /\ \A i \in lo + 1 .. top : r[i] = Vector!Put(r[i - 1], "old", hi - 1 - (i - 1 - lo), Vector!Look(r[i - 1], "old", hi - 1 - (i - 1 - lo) - 1))
  <2>1. r = [i \in lo .. top |-> IF i = lo THEN Work(c, d) ELSE Vector!Put(r[i - 1], "old", hi - 1 - (i - 1 - lo), Vector!Look(r[i - 1], "old", hi - 1 - (i - 1 - lo) - 1))]
    <3> HIDE DEF r
    <3> QED BY <1>6
  <2>2. lo \in lo .. top /\ \A i \in lo + 1 .. top : i \in lo .. top /\ i # lo
    OBVIOUS
  <2> HIDE DEF r, f, top
  <2>3. \A i \in lo .. top : r[i] = IF i = lo THEN Work(c, d) ELSE Vector!Put(r[i - 1], "old", hi - 1 - (i - 1 - lo), Vector!Look(r[i - 1], "old", hi - 1 - (i - 1 - lo) - 1))
    BY <2>1, Zenon
  <2> QED BY <1>3, <2>2, <2>3
<1> HIDE DEF f, Follows, r
<1>8. r[top] = f[top]
  <2>1. top \in Int /\ lo <= top
    OBVIOUS
  <2> HIDE DEF top
  <2>2. GoOnAlike(r, f, lo, top)
    BY <1>4, <1>7 DEF GoOnAlike
  <2>3. r[lo] = f[lo]
    BY <1>7
  <2> QED BY <2>1, <2>2, <2>3, SameLoop
<1>9. f[top] = Work(Laid(c, lo, hi, c, 1), d)
  BY <1>2, LaidNone
<1>10. QED
  BY <1>1, <1>8, <1>9

(* No storage at all is storage for none.                                  *)
LEMMA EmptyStore == ASSUME NEW s PROVE <<>> = Stored(s, 0, 0)
<1>1. 0 .. 0 - 1 = {}
  OBVIOUS
<1>2. Stored(s, 0, 0) = [i \in {} |-> IF i < 0 THEN s[i + 1] ELSE None]
  BY <1>1 DEF Stored
<1>3. <<>> = [i \in {} |-> IF i < 0 THEN s[i + 1] ELSE None]
  OBVIOUS
<1>4. QED
  BY <1>2, <1>3

(* Every element of the sequence is one.                                   *)
Whole(s, n) == \A i \in 1 .. n : s[i] # None

(* What is known of a vector's storage.                                    *)
LEMMA StoreIs ==
  ASSUME NEW s, NEW n \in Nat, NEW r \in Nat, n <= r
  PROVE  /\ IsStore(Stored(s, n, r)) /\ DOMAIN Stored(s, n, r) = 0 .. r - 1
         /\ Vector!Room(Stored(s, n, r)) = r
<1>1. IsStore(Stored(s, n, r)) /\ DOMAIN Stored(s, n, r) = 0 .. r - 1
  BY DEF Stored, IsStore
<1>2. Vector!Room(Stored(s, n, r)) = r
  <2>1. \A S : Vector!Cardinality(S) = Cardinality(S)
    BY Zenon DEF Vector!Cardinality, Cardinality
  <2>2. Cardinality(0 .. r - 1) = r
    BY FS_Interval
  <2> QED BY <1>1, <2>1, <2>2 DEF Vector!Room
<1>3. QED
  BY <1>1, <1>2

(* What each cell of it holds.                                             *)
LEMMA StoreAt ==
  ASSUME NEW s, NEW n \in Nat, NEW r \in Nat, NEW i \in 0 .. r - 1
  PROVE  /\ i < n => Stored(s, n, r)[i] = s[i + 1]
         /\ i >= n => Stored(s, n, r)[i] = None
BY DEF Stored

(* It is built up to the count and raw above it.                           *)
LEMMA StoreParts ==
  ASSUME NEW s, NEW n \in Nat, NEW r \in Nat, n <= r, Whole(s, n), NEW lo \in Int, NEW hi \in Int
  PROVE  /\ 0 <= lo /\ hi <= n => Built(Stored(s, n, r), lo, hi)
         /\ n <= lo /\ hi <= r => Raw(Stored(s, n, r), lo, hi)
<1>1. ASSUME 0 <= lo, hi <= n, NEW i \in Int, lo <= i, i < hi
      PROVE  i \in DOMAIN Stored(s, n, r) /\ Stored(s, n, r)[i] # None
  <2>1. i \in 0 .. r - 1 /\ i < n /\ i + 1 \in 1 .. n
    BY <1>1
  <2>2. Stored(s, n, r)[i] = s[i + 1] /\ i \in DOMAIN Stored(s, n, r)
    BY <2>1, StoreIs, StoreAt
  <2> QED BY <2>1, <2>2 DEF Whole
<1>2. ASSUME n <= lo, hi <= r, NEW i \in Int, lo <= i, i < hi
      PROVE  i \in DOMAIN Stored(s, n, r) /\ Stored(s, n, r)[i] = None
  <2>1. i \in 0 .. r - 1 /\ i >= n
    BY <1>2
  <2>2. Stored(s, n, r)[i] = None /\ i \in DOMAIN Stored(s, n, r)
    BY <2>1, StoreIs, StoreAt
  <2> QED BY <2>2
<1>3. QED
  BY <1>1, <1>2 DEF Built, Raw

(* The work is done: the storage holds the m elements of t, in some room.  *)
Lands(w, t, m) == \E r \in Nat : m <= r /\ w = Work(Stored(t, m, r), <<>>)

(* Storage that holds t in its first cells, told cell by cell.             *)
HoldsFirst(c, t, m, r) ==
  /\ IsStore(c) /\ DOMAIN c = 0 .. r - 1
  /\ \A i \in 0 .. r - 1 : (i < m => c[i] = t[i + 1]) /\ (i >= m => c[i] = None)

(* Storage whose first cells are the sequence, and whose others are raw,   *)
(* holds it.                                                               *)
LEMMA LandsThere ==
  ASSUME NEW c, NEW t, NEW m \in Nat, NEW r \in Nat, m <= r, HoldsFirst(c, t, m, r)
  PROVE  Lands(Work(c, <<>>), t, m)
<1>1. \A i \in 0 .. r - 1 : c[i] = IF i < m THEN t[i + 1] ELSE None
  BY DEF HoldsFirst
<1>2. c = Stored(t, m, r)
  BY <1>1 DEF HoldsFirst, IsStore, Stored
<1>3. QED
  BY <1>2 DEF Lands

(* New storage, with nothing in it.                                        *)
Blank(m) == [i \in 0 .. m - 1 |-> None]

(* __relocate and its like: new storage beside the old.                    *)
LEMMA MallocIs ==
  ASSUME NEW c, NEW d, NEW m \in Int
  PROVE  Vector!Malloc(Work(c, d), m) = Work(c, Blank(m))
<1>1. Vector!Malloc(Work(c, d), m) = [Work(c, d) EXCEPT !.new = Blank(m)]
  BY DEF Vector!Malloc, Blank
<1>2. QED
  BY <1>1 DEF Work

(* New storage is raw throughout.                                          *)
LEMMA BlankIs ==
  ASSUME NEW m \in Int
  PROVE  /\ IsStore(Blank(m)) /\ DOMAIN Blank(m) = 0 .. m - 1
         /\ \A i \in 0 .. m - 1 : Blank(m)[i] = None
         /\ \A lo \in Int, hi \in Int : 0 <= lo /\ hi <= m => Raw(Blank(m), lo, hi)
BY DEF Blank, IsStore, Raw

(* Storage freed with no element left in it.                               *)
LEMMA ReplacedIs ==
  ASSUME NEW c, NEW d, \A i \in DOMAIN c : c[i] = None
  PROVE  Vector!Replaced(Work(c, d)) = Work(d, <<>>)
BY DEF Vector!Replaced, Work

(* The first elements copied to the new storage, and the old freed.        *)
LEMMA RelocateIs ==
  ASSUME NEW s, NEW n \in Nat, NEW r \in Nat, n <= r, Whole(s, n), NEW d, IsStore(d), Raw(d, 0, n)
  PROVE  Vector!Relocate(Work(Stored(s, n, r), d), n) = Work(Laid(d, 0, n, Stored(s, n, r), 0), <<>>)
<1> DEFINE c == Stored(s, n, r)
           e == Laid(d, 0, n, c, 0)
           g == Filled(c, 0, n, None)
<1>1. IsStore(c) /\ DOMAIN c = 0 .. r - 1 /\ Built(c, 0, n)
  <2>1. IsStore(Stored(s, n, r)) /\ DOMAIN Stored(s, n, r) = 0 .. r - 1
    BY StoreIs
  <2>2. 0 \in Int /\ n \in Int /\ 0 <= 0 /\ n <= n
    OBVIOUS
  <2>3. Built(Stored(s, n, r), 0, n)
    BY <2>2, StoreParts
  <2> QED BY <2>1, <2>3
<1>2. \A i \in DOMAIN c : g[i] = None
  <2> SUFFICES ASSUME NEW i \in 0 .. r - 1 PROVE g[i] = None
    BY <1>1
  <2>1. g[i] = IF 0 <= i /\ i < n THEN None ELSE c[i]
    BY <1>1 DEF Filled
  <2>2. i >= n => c[i] = None
    BY StoreAt
  <2> QED BY <2>1, <2>2
<1>3. DOMAIN g = DOMAIN c
  BY DEF Filled
<1> HIDE DEF c, g
<1>4. Vector!Copied(Work(c, d), 0, n, 0) = Work(c, e)
  <2>1. \A h : Built(c, 0, n) /\ IsStore(h) /\ Raw(h, 0 + 0, n + 0) =>
                 Vector!Copied(Work(c, h), 0, n, 0) = Work(c, Laid(h, 0 + 0, n + 0, c, 0))
    BY CopiedIs
  <2>2. 0 + 0 = 0 /\ n + 0 = n
    OBVIOUS
  <2> QED BY <1>1, <2>1, <2>2
<1> HIDE DEF e
<1>5. Vector!Emptied(Work(c, e), 0, n) = Work(g, e)
  BY <1>1, EmptiedIs DEF g
<1>6. Vector!Replaced(Work(g, e)) = Work(e, <<>>)
  BY <1>2, <1>3, ReplacedIs
<1>7. Vector!Relocate(Work(c, d), n) = Work(e, <<>>)
  BY <1>4, <1>5, <1>6, Zenon DEF Vector!Relocate
<1>8. QED
  BY <1>7 DEF c, e

(* Room for more.                                                          *)
LEMMA MoreRoom ==
  ASSUME NEW s, NEW n \in Nat, NEW r \in Nat, n <= r, NEW want \in Nat, NEW d
  PROVE  /\ Vector!Grown(Work(Stored(s, n, r), d), want) \in Nat
         /\ Vector!Grown(Work(Stored(s, n, r), d), want) >= want
<1>1. Work(Stored(s, n, r), d).old = Stored(s, n, r) /\ Vector!Room(Stored(s, n, r)) = r
  BY StoreIs DEF Work
<1>2. QED
  BY <1>1 DEF Vector!Grown

(* A value by reference: one of the elements, or a value elsewhere.        *)
Stands(ref, s, n, x) ==
  /\ x # None /\ ref.at \in Int
  /\ ref.at >= 0 => ref.at < n /\ x = s[ref.at + 1]
  /\ ref.at < 0 => x = ref.value

(* A reference names what it did before the call while the cells stand.    *)
LEMMA SeenIs ==
  ASSUME NEW s, NEW n \in Nat, NEW r \in Nat, n <= r, NEW ref, NEW x, Stands(ref, s, n, x), NEW d
  PROVE  Vector!Seen(Work(Stored(s, n, r), d), ref) = x
<1>1. CASE ref.at >= 0
  <2>1. ref.at \in 0 .. r - 1 /\ ref.at < n
    BY <1>1 DEF Stands
  <2>2. Stored(s, n, r)[ref.at] = s[ref.at + 1] /\ ref.at \in DOMAIN Stored(s, n, r)
    BY <2>1, StoreIs, StoreAt
  <2>3. Vector!Look(Work(Stored(s, n, r), d), "old", ref.at) = s[ref.at + 1]
    BY <2>2, LookOld
  <2> QED BY <1>1, <2>3 DEF Vector!Seen, Stands
<1>2. CASE ref.at < 0
  BY <1>2 DEF Vector!Seen, Stands
<1>3. QED
  BY <1>1, <1>2 DEF Stands

(* The work begins, on n elements in room r.                               *)
Start(s, n, r) == Work(Stored(s, n, r), <<>>)

OneMore(s, n, x) == [i \in 1 .. n + 1 |-> IF i <= n THEN s[i] ELSE x]

(* push_back, in place or in new storage, adds the value its argument      *)
(* names.                                                                  *)
LEMMA VectorPushBackIs ==
  ASSUME NEW s, NEW n \in Nat, NEW r \in Nat, n <= r, Whole(s, n), NEW ref, NEW x, Stands(ref, s, n, x)
  PROVE  Lands(Vector!PushBack(Start(s, n, r), n, ref), OneMore(s, n, x), n + 1)
<1> DEFINE c == Stored(s, n, r)
           w == Start(s, n, r)
           t == OneMore(s, n, x)
<1>1. IsStore(c) /\ DOMAIN c = 0 .. r - 1 /\ Vector!Room(c) = r
  BY StoreIs
<1>2. x # None
  BY DEF Stands
<1>3. w.old = c /\ w = Work(c, <<>>)
  BY DEF Start, Work
<1>4. \A i \in 1 .. n + 1 : t[i] = IF i <= n THEN s[i] ELSE x
  BY DEF OneMore
<1>5. \A i \in 0 .. r - 1 : (i < n => c[i] = s[i + 1]) /\ (i >= n => c[i] = None)
  BY StoreAt
<1>6. CASE n = r
  <2> DEFINE g == Vector!Grown(w, n + 1)
             d == [Blank(g) EXCEPT ![n] = x]
             e == Laid(d, 0, n, c, 0)
  <2>1. g \in Nat /\ g >= n + 1
    BY MoreRoom DEF Start
  <2> HIDE DEF g
  <2>2. /\ IsStore(Blank(g)) /\ DOMAIN Blank(g) = 0 .. g - 1
        /\ \A i \in 0 .. g - 1 : Blank(g)[i] = None
    BY <2>1, BlankIs
  <2>3. n \in DOMAIN Blank(g) /\ Blank(g)[n] = None
    BY <2>1, <2>2
  <2>4. /\ IsStore(d) /\ DOMAIN d = 0 .. g - 1 /\ d[n] = x
        /\ \A i \in 0 .. g - 1 : i # n => d[i] = None
    BY <2>2, <2>3 DEF IsStore
  <2>5. Raw(d, 0, n)
    BY <2>1, <2>4 DEF Raw
  <2>6. Vector!Malloc(w, g) = Work(c, Blank(g))
    BY <1>3, <2>1, MallocIs
  <2>7. Vector!Seen(Work(c, Blank(g)), ref) = x
    BY SeenIs
  <2>8. Vector!Build(Work(c, Blank(g)), "new", n, x) = Work(c, d)
    BY <1>2, <2>3, BuildNew
  <2> HIDE DEF d
  <2>9. Vector!Relocate(Work(c, d), n) = Work(e, <<>>)
    BY <2>4, <2>5, RelocateIs
  <2>10. Vector!PushBack(w, n, ref) = Work(e, <<>>)
    BY <1>1, <1>3, <1>6, <2>6, <2>7, <2>8, <2>9 DEF Vector!PushBack, g
  <2>11. HoldsFirst(e, t, n + 1, g)
    <3>1. IsStore(e) /\ DOMAIN e = 0 .. g - 1
      BY <2>4 DEF Laid, IsStore
    <3>2. \A i \in 0 .. g - 1 : e[i] = IF 0 <= i /\ i < n THEN c[i - 0] ELSE d[i]
      BY <2>4 DEF Laid
    <3> HIDE DEF e, c, t
    <3>3. ASSUME NEW i \in 0 .. g - 1
          PROVE  (i < n + 1 => e[i] = t[i + 1]) /\ (i >= n + 1 => e[i] = None)
      <4>1. CASE i < n
        <5>1. i \in 0 .. r - 1 /\ i - 0 = i /\ i + 1 \in 1 .. n + 1
          BY <1>6, <4>1
        <5> QED BY <1>4, <1>5, <3>2, <4>1, <5>1
      <4>2. CASE i = n
        BY <1>4, <2>4, <3>2, <4>2
      <4>3. CASE i > n
        BY <2>4, <3>2, <4>3
      <4> QED BY <4>1, <4>2, <4>3
    <3> QED BY <3>1, <3>3 DEF HoldsFirst
  <2>12. n + 1 \in Nat /\ n + 1 <= g
    BY <2>1
  <2> HIDE DEF e, t, w
  <2>13. Lands(Work(e, <<>>), t, n + 1)
    BY <2>1, <2>11, <2>12, LandsThere
  <2> QED BY <2>10, <2>13 DEF t, w
<1>7. CASE n # r
  <2> DEFINE e == [c EXCEPT ![n] = x]
  <2>1. n \in DOMAIN c /\ c[n] = None
    BY <1>1, <1>5, <1>7
  <2>2. Vector!Seen(w, ref) = x
    BY SeenIs DEF Start
  <2>3. Vector!PushBack(w, n, ref) = Work(e, <<>>)
    <3>1. Vector!Build(Work(c, <<>>), "old", n, x) = Work(e, <<>>)
      BY <1>2, <2>1, BuildOld
    <3> HIDE DEF w, c, e
    <3> QED BY <1>1, <1>3, <1>7, <2>2, <3>1 DEF Vector!PushBack
  <2>4. HoldsFirst(e, t, n + 1, r)
    <3>1. IsStore(e) /\ DOMAIN e = 0 .. r - 1
      BY <1>1 DEF IsStore
    <3>2. \A i \in 0 .. r - 1 : e[i] = IF i = n THEN x ELSE c[i]
      BY <1>1
    <3> HIDE DEF e, c, t
    <3>3. ASSUME NEW i \in 0 .. r - 1
          PROVE  (i < n + 1 => e[i] = t[i + 1]) /\ (i >= n + 1 => e[i] = None)
      <4>1. CASE i < n
        BY <1>4, <1>5, <3>2, <4>1
      <4>2. CASE i = n
        BY <1>4, <3>2, <4>2
      <4>3. CASE i > n
        BY <1>5, <3>2, <4>3
      <4> QED BY <4>1, <4>2, <4>3
    <3> QED BY <3>1, <3>3 DEF HoldsFirst
  <2>5. n + 1 \in Nat /\ n + 1 <= r
    BY <1>7
  <2> HIDE DEF e, t, w
  <2>6. Lands(Work(e, <<>>), t, n + 1)
    BY <2>4, <2>5, LandsThere
  <2> QED BY <2>3, <2>6 DEF t, w
<1>8. QED
  BY <1>6, <1>7

(* The same elements, in other storage that is large enough.               *)
LEMMA MovedIs ==
  ASSUME NEW s, NEW n \in Nat, NEW r \in Nat, n <= r, Whole(s, n), NEW g \in Nat, n <= g
  PROVE  Vector!Relocate(Vector!Malloc(Start(s, n, r), g), n) = Start(s, n, g)
<1> DEFINE c == Stored(s, n, r)
           d == Blank(g)
           e == Laid(d, 0, n, c, 0)
<1>1. IsStore(d) /\ DOMAIN d = 0 .. g - 1 /\ \A i \in 0 .. g - 1 : d[i] = None
  BY BlankIs
<1>2. Raw(d, 0, n)
  BY <1>1 DEF Raw
<1>3. Vector!Malloc(Work(c, <<>>), g) = Work(c, d)
  BY MallocIs
<1>4. \A i \in 0 .. r - 1 : (i < n => c[i] = s[i + 1]) /\ (i >= n => c[i] = None)
  BY StoreAt
<1> HIDE DEF d
<1>5. Vector!Relocate(Work(c, d), n) = Work(e, <<>>)
  BY <1>1, <1>2, RelocateIs
<1>6. e = Stored(s, n, g)
  <2>1. e = [i \in 0 .. g - 1 |-> IF 0 <= i /\ i < n THEN c[i - 0] ELSE d[i]]
    BY <1>1 DEF Laid
  <2> HIDE DEF c
  <2>2. ASSUME NEW i \in 0 .. g - 1
        PROVE  (IF 0 <= i /\ i < n THEN c[i - 0] ELSE d[i]) = (IF i < n THEN s[i + 1] ELSE None)
    <3>1. CASE i < n
      <4>1. i \in 0 .. r - 1 /\ i - 0 = i /\ 0 <= i
        BY <3>1
      <4> QED BY <1>4, <3>1, <4>1
    <3>2. CASE ~(i < n)
      BY <1>1, <3>2
    <3> QED BY <3>1, <3>2
  <2> HIDE DEF e
  <2>3. e = [i \in 0 .. g - 1 |-> IF i < n THEN s[i + 1] ELSE None]
    BY <2>1, <2>2
  <2> QED BY <2>3 DEF Stored
<1> HIDE DEF e
<1>7. QED
  BY <1>3, <1>5, <1>6 DEF Start

(* reserve and shrink_to_fit leave the elements as they are.               *)
LEMMA ReserveIs ==
  ASSUME NEW s, NEW n \in Nat, NEW r \in Nat, n <= r, Whole(s, n), NEW want \in Nat
  PROVE  \E g \in Nat : n <= g /\ want <= g /\ Vector!Reserve(Start(s, n, r), n, want) = Start(s, n, g)
<1>1. Vector!Room(Start(s, n, r).old) = r
  BY StoreIs DEF Start, Work
<1>2. CASE want <= r
  BY <1>1, <1>2 DEF Vector!Reserve
<1>3. CASE ~(want <= r)
  <2>1. n <= want
    BY <1>3
  <2>2. Vector!Relocate(Vector!Malloc(Start(s, n, r), want), n) = Start(s, n, want)
    BY <2>1, MovedIs
  <2>3. Vector!Reserve(Start(s, n, r), n, want) = Start(s, n, want)
    BY <1>1, <1>3, <2>2 DEF Vector!Reserve
  <2> QED BY <2>1, <2>3
<1>4. QED
  BY <1>2, <1>3

(* shrink_to_fit keeps the elements and no room.                           *)
LEMMA ShrinkIs ==
  ASSUME NEW s, NEW n \in Nat, NEW r \in Nat, n <= r, Whole(s, n)
  PROVE  Lands(Vector!ShrinkToFit(Start(s, n, r), n), s, n)
<1>1. Vector!Room(Start(s, n, r).old) = r
  BY StoreIs DEF Start, Work
<1>2. Vector!Relocate(Vector!Malloc(Start(s, n, r), n), n) = Start(s, n, n)
  BY MovedIs
<1>3. CASE n = r
  <2>1. Vector!ShrinkToFit(Start(s, n, r), n) = Start(s, n, r)
    BY <1>1, <1>3 DEF Vector!ShrinkToFit
  <2> QED BY <2>1 DEF Lands, Start
<1>4. CASE n # r
  <2>1. Vector!ShrinkToFit(Start(s, n, r), n) = Start(s, n, n)
    BY <1>1, <1>2, <1>4 DEF Vector!ShrinkToFit
  <2> QED BY <2>1 DEF Lands, Start
<1>5. QED
  BY <1>3, <1>4

(* The last elements destroyed.                                            *)
LEMMA CutIs ==
  ASSUME NEW s, NEW n \in Nat, NEW r \in Nat, n <= r, Whole(s, n), NEW m \in 0 .. n
  PROVE  Vector!DestroyDown(Start(s, n, r), n, m) = Start(s, m, r)
<1> DEFINE c == Stored(s, n, r)
           e == Filled(c, m, n, None)
<1>1. IsStore(c) /\ DOMAIN c = 0 .. r - 1 /\ Built(c, m, n)
  <2>1. IsStore(Stored(s, n, r)) /\ DOMAIN Stored(s, n, r) = 0 .. r - 1
    BY StoreIs
  <2>2. 0 <= m /\ m \in Int /\ n \in Int /\ n <= n
    OBVIOUS
  <2>3. Built(Stored(s, n, r), m, n)
    BY <2>2, StoreParts
  <2> QED BY <2>1, <2>3
<1>2. \A i \in 0 .. r - 1 : (i < n => c[i] = s[i + 1]) /\ (i >= n => c[i] = None)
  BY StoreAt
<1>3. e = [i \in 0 .. r - 1 |-> IF m <= i /\ i < n THEN None ELSE c[i]]
  BY <1>1 DEF Filled
<1> HIDE DEF c
<1>4. Vector!DestroyDown(Work(c, <<>>), n, m) = Work(e, <<>>)
  BY <1>1, DestroyDownIs
<1>5. \A i \in 0 .. r - 1 : (IF m <= i /\ i < n THEN None ELSE c[i]) = (IF i < m THEN s[i + 1] ELSE None)
  BY <1>2
<1> HIDE DEF e
<1>6. e = Stored(s, m, r)
  BY <1>3, <1>5 DEF Stored
<1>7. QED
  BY <1>4, <1>6 DEF Start, c

(* pop_back destroys the last.                                             *)
LEMMA PopIs ==
  ASSUME NEW s, NEW n \in Nat, NEW r \in Nat, n <= r, Whole(s, n), n > 0
  PROVE  Vector!Apart(Start(s, n, r), "old", n - 1) = Start(s, n - 1, r)
<1> DEFINE c == Stored(s, n, r)
           e == [c EXCEPT ![n - 1] = None]
<1>1. IsStore(c) /\ DOMAIN c = 0 .. r - 1
  BY StoreIs
<1>2. \A i \in 0 .. r - 1 : (i < n => c[i] = s[i + 1]) /\ (i >= n => c[i] = None)
  BY StoreAt
<1> HIDE DEF c
<1>3. n - 1 \in 0 .. r - 1 /\ c[n - 1] # None
  BY <1>2 DEF Whole
<1>4. e = [i \in 0 .. r - 1 |-> IF i = n - 1 THEN None ELSE c[i]]
  BY <1>1, <1>3 DEF IsStore
<1>5. Vector!Apart(Work(c, <<>>), "old", n - 1) = Work(e, <<>>)
  BY <1>1, <1>3, ApartOld
<1>6. \A i \in 0 .. r - 1 : (IF i = n - 1 THEN None ELSE c[i]) = (IF i < n - 1 THEN s[i + 1] ELSE None)
  BY <1>2
<1> HIDE DEF e
<1>7. e = Stored(s, n - 1, r)
  BY <1>4, <1>6 DEF Stored
<1>8. QED
  BY <1>5, <1>7 DEF Start, c

(* The same storage holds what is the same cell by cell.                   *)
LEMMA LandsAlike ==
  ASSUME NEW w, NEW s, NEW t, NEW m \in Nat, Lands(w, s, m), \A i \in 1 .. m : s[i] = t[i]
  PROVE  Lands(w, t, m)
<1>1. PICK r \in Nat : m <= r /\ w = Work(Stored(s, m, r), <<>>)
  BY DEF Lands
<1>2. \A i \in 0 .. r - 1 : (IF i < m THEN s[i + 1] ELSE None) = (IF i < m THEN t[i + 1] ELSE None)
  <2> TAKE i \in 0 .. r - 1
  <2>1. i < m => i + 1 \in 1 .. m
    OBVIOUS
  <2> QED BY <2>1
<1>3. Stored(s, m, r) = Stored(t, m, r)
  BY <1>2 DEF Stored
<1>4. QED
  BY <1>1, <1>3 DEF Lands

(* The elements, and after them as many of one value as make m.            *)
Topped(s, n, m, x) == [i \in 1 .. m |-> IF i <= n THEN s[i] ELSE x]

(* Copies of one value built behind the elements.                          *)
LEMMA FillIs ==
  ASSUME NEW s, NEW n \in Nat, NEW r \in Nat, Whole(s, n), NEW m \in Nat, n <= m, m <= r, NEW x, x # None
  PROVE  Lands(Vector!BuildEach(Start(s, n, r), "old", n, m, x), Topped(s, n, m, x), m)
<1> DEFINE c == Stored(s, n, r)
           e == Filled(c, n, m, x)
           t == Topped(s, n, m, x)
<1>1. IsStore(c) /\ DOMAIN c = 0 .. r - 1 /\ Raw(c, n, m)
  <2>1. n <= r /\ n \in Int /\ m \in Int /\ n <= n
    OBVIOUS
  <2>2. IsStore(Stored(s, n, r)) /\ DOMAIN Stored(s, n, r) = 0 .. r - 1
    BY <2>1, StoreIs
  <2>3. Raw(Stored(s, n, r), n, m)
    BY <2>1, StoreParts
  <2> QED BY <2>2, <2>3
<1>2. \A i \in 0 .. r - 1 : (i < n => c[i] = s[i + 1]) /\ (i >= n => c[i] = None)
  BY StoreAt
<1>3. \A i \in 1 .. m : t[i] = IF i <= n THEN s[i] ELSE x
  BY DEF Topped
<1> HIDE DEF c
<1>4. IsStore(e) /\ DOMAIN e = 0 .. r - 1
  BY <1>1 DEF Filled, IsStore
<1>5. \A i \in 0 .. r - 1 : e[i] = IF n <= i /\ i < m THEN x ELSE c[i]
  BY <1>1 DEF Filled
<1>6. Vector!BuildEach(Work(c, <<>>), "old", n, m, x) = Work(e, <<>>)
  BY <1>1, BuildEachOld
<1> HIDE DEF e, t
<1>7. HoldsFirst(e, t, m, r)
  <2>1. ASSUME NEW i \in 0 .. r - 1
        PROVE  (i < m => e[i] = t[i + 1]) /\ (i >= m => e[i] = None)
    <3>1. CASE i < m
      <4>1. i + 1 \in 1 .. m
        BY <3>1
      <4> QED BY <1>2, <1>3, <1>5, <3>1, <4>1
    <3>2. CASE i >= m
      BY <1>2, <1>5, <3>2
    <3> QED BY <3>1, <3>2
  <2> QED BY <1>4, <2>1 DEF HoldsFirst
<1>8. Lands(Work(e, <<>>), t, m)
  BY <1>7, LandsThere
<1>9. QED
  BY <1>6, <1>8 DEF Start, c, t

(* resize cuts, or adds copies of the value, in place or in larger storage.*)
LEMMA ResizeIs ==
  ASSUME NEW s, NEW n \in Nat, NEW r \in Nat, n <= r, Whole(s, n), NEW want \in Nat,
         NEW ref, NEW x, Stands(ref, s, n, x)
  PROVE  Lands(Vector!Resize(Start(s, n, r), n, want, ref), Topped(s, n, want, x), want)
<1> DEFINE w == Start(s, n, r)
           c == Stored(s, n, r)
           t == Topped(s, n, want, x)
<1>1. IsStore(c) /\ DOMAIN c = 0 .. r - 1 /\ Vector!Room(c) = r
  BY StoreIs
<1>2. x # None
  BY DEF Stands
<1>3. w.old = c /\ w = Work(c, <<>>)
  BY DEF Start, Work
<1>4. \A i \in 1 .. want : t[i] = IF i <= n THEN s[i] ELSE x
  BY DEF Topped
<1>5. \A i \in 0 .. r - 1 : (i < n => c[i] = s[i + 1]) /\ (i >= n => c[i] = None)
  BY StoreAt
<1>6. CASE want <= n
  <2>1. Vector!DestroyDown(w, n, want) = Start(s, want, r)
    BY <1>6, CutIs
  <2>2. Lands(Start(s, want, r), s, want)
    BY <1>6 DEF Lands, Start
  <2>3. \A i \in 1 .. want : s[i] = t[i]
    BY <1>4, <1>6
  <2> HIDE DEF t, w
  <2>4. Lands(Start(s, want, r), t, want)
    BY <2>2, <2>3, LandsAlike
  <2>5. Vector!Resize(w, n, want, ref) = Start(s, want, r)
    BY <1>6, <2>1 DEF Vector!Resize
  <2> QED BY <2>4, <2>5 DEF t, w
<1>7. CASE n < want /\ want <= r
  <2>1. Vector!Seen(w, ref) = x
    BY SeenIs DEF Start
  <2>2. Lands(Vector!BuildEach(Start(s, n, r), "old", n, want, x), Topped(s, n, want, x), want)
    BY <1>2, <1>7, FillIs
  <2> HIDE DEF w, c, t
  <2>3. Vector!Resize(w, n, want, ref) = Vector!BuildEach(w, "old", n, want, x)
    BY <1>1, <1>3, <1>7, <2>1 DEF Vector!Resize
  <2> QED BY <2>2, <2>3 DEF w
<1>8. CASE n < want /\ want > r
  <2> DEFINE g == Vector!Grown(w, want)
             d == Filled(Blank(g), n, want, x)
             e == Laid(d, 0, n, c, 0)
  <2>1. g \in Nat /\ g >= want
    BY MoreRoom DEF Start
  <2> HIDE DEF g
  <2>2. /\ IsStore(Blank(g)) /\ DOMAIN Blank(g) = 0 .. g - 1
        /\ \A i \in 0 .. g - 1 : Blank(g)[i] = None
    BY <2>1, BlankIs
  <2>3. Raw(Blank(g), n, want)
    BY <2>1, <2>2 DEF Raw
  <2>4. /\ IsStore(d) /\ DOMAIN d = 0 .. g - 1
        /\ \A i \in 0 .. g - 1 : d[i] = IF n <= i /\ i < want THEN x ELSE None
    BY <2>2 DEF IsStore, Filled
  <2>5. Raw(d, 0, n)
    <3> HIDE DEF d
    <3> QED BY <1>8, <2>1, <2>4 DEF Raw
  <2>6. Vector!Malloc(w, g) = Work(c, Blank(g))
    BY <1>3, <2>1, MallocIs
  <2>7. Vector!Seen(Work(c, Blank(g)), ref) = x
    BY SeenIs
  <2>8. Vector!BuildEach(Work(c, Blank(g)), "new", n, want, x) = Work(c, d)
    BY <1>2, <2>2, <2>3, BuildEachNew
  <2> HIDE DEF d
  <2>9. Vector!Relocate(Work(c, d), n) = Work(e, <<>>)
    BY <2>4, <2>5, RelocateIs
  <2>10. Vector!Resize(w, n, want, ref) = Work(e, <<>>)
    <3> HIDE DEF w, c, e
    <3> QED BY <1>1, <1>3, <1>8, <2>6, <2>7, <2>8, <2>9 DEF Vector!Resize, g
  <2>11. HoldsFirst(e, t, want, g)
    <3>1. IsStore(e) /\ DOMAIN e = 0 .. g - 1
      BY <2>4 DEF Laid, IsStore
    <3>2. \A i \in 0 .. g - 1 : e[i] = IF 0 <= i /\ i < n THEN c[i - 0] ELSE d[i]
      BY <2>4 DEF Laid
    <3> HIDE DEF e, c, t
    <3>3. ASSUME NEW i \in 0 .. g - 1
          PROVE  (i < want => e[i] = t[i + 1]) /\ (i >= want => e[i] = None)
      <4>1. CASE i < n
        <5>1. i \in 0 .. r - 1 /\ i - 0 = i /\ i + 1 \in 1 .. want
          BY <1>8, <4>1
        <5> QED BY <1>4, <1>5, <1>8, <3>2, <4>1, <5>1
      <4>2. CASE n <= i /\ i < want
        <5>1. i + 1 \in 1 .. want
          BY <4>2
        <5> QED BY <1>4, <2>4, <3>2, <4>2, <5>1
      <4>3. CASE i >= want
        BY <1>8, <2>4, <3>2, <4>3
      <4> QED BY <4>1, <4>2, <4>3
    <3> QED BY <3>1, <3>3 DEF HoldsFirst
  <2> HIDE DEF e, t, w
  <2>12. Lands(Work(e, <<>>), t, want)
    BY <2>1, <2>11, LandsThere
  <2> QED BY <2>10, <2>12 DEF t, w
<1>9. QED
  BY <1>6, <1>7, <1>8

(* assign: what was there goes first.                                      *)
LEMMA AssignIs ==
  ASSUME NEW s, NEW n \in Nat, NEW r \in Nat, n <= r, Whole(s, n), NEW want \in Nat, NEW ref, ref.value # None
  PROVE  Lands(Vector!Assign(Start(s, n, r), n, want, ref), Topped(s, 0, want, ref.value), want)
<1>1. Vector!DestroyDown(Start(s, n, r), n, 0) = Start(s, 0, r)
  BY CutIs
<1>2. Whole(s, 0) /\ 0 <= r
  BY DEF Whole
<1>3. PICK g \in Nat : want <= g /\ Vector!Reserve(Start(s, 0, r), 0, want) = Start(s, 0, g)
  BY <1>2, ReserveIs
<1>4. Lands(Vector!BuildEach(Start(s, 0, g), "old", 0, want, ref.value), Topped(s, 0, want, ref.value), want)
  BY <1>2, <1>3, FillIs
<1>5. Vector!Assign(Start(s, n, r), n, want, ref) = Vector!BuildEach(Start(s, 0, g), "old", 0, want, ref.value)
  BY <1>1, <1>3 DEF Vector!Assign
<1>6. QED
  BY <1>4, <1>5

(* Everything destroyed, and new storage taken.                            *)
LEMMA AnewIs ==
  ASSUME NEW s, NEW n \in Nat, NEW r \in Nat, n <= r, Whole(s, n), NEW m \in Nat, NEW u
  PROVE  Vector!Replaced(Vector!Malloc(Vector!DestroyDown(Start(s, n, r), n, 0), m)) = Start(u, 0, m)
<1>1. Vector!DestroyDown(Start(s, n, r), n, 0) = Start(s, 0, r)
  BY CutIs
<1>2. Vector!Malloc(Start(s, 0, r), m) = Work(Stored(s, 0, r), Blank(m))
  BY MallocIs DEF Start
<1>3. \A i \in DOMAIN Stored(s, 0, r) : Stored(s, 0, r)[i] = None
  BY DEF Stored
<1>4. Vector!Replaced(Work(Stored(s, 0, r), Blank(m))) = Work(Blank(m), <<>>)
  BY <1>3, ReplacedIs
<1>5. Blank(m) = Stored(u, 0, m)
  BY DEF Blank, Stored
<1>6. QED
  BY <1>1, <1>2, <1>4, <1>5 DEF Start

(* vector(n, value) and assign: that many copies, whatever was there.      *)
LEMMA FillBuildIs ==
  ASSUME NEW s, NEW n \in Nat, NEW r \in Nat, n <= r, Whole(s, n), NEW m \in Nat, NEW ref, ref.value # None
  PROVE  Lands(Vector!FillBuild(Start(s, n, r), n, ref, m), Topped(s, 0, m, ref.value), m)
<1>1. Vector!Replaced(Vector!Malloc(Vector!DestroyDown(Start(s, n, r), n, 0), m)) = Start(s, 0, m)
  BY AnewIs
<1>2. Whole(s, 0)
  BY DEF Whole
<1>3. Lands(Vector!BuildEach(Start(s, 0, m), "old", 0, m, ref.value), Topped(s, 0, m, ref.value), m)
  BY <1>2, FillIs
<1>4. QED
  BY <1>1, <1>3 DEF Vector!FillBuild

(* Copies of another vector's elements.                                    *)
LEMMA CopiedOver ==
  ASSUME NEW u, NEW m \in Nat, NEW q \in Nat, m <= q, Whole(u, m)
  PROVE  Lands(Vector!CopyOf(Start(u, 0, m), Stored(u, m, q), 0, m), u, m)
<1> DEFINE c == Stored(u, 0, m)
           src == Stored(u, m, q)
           e == Laid(c, 0, m, src, 0)
<1>1. IsStore(c) /\ DOMAIN c = 0 .. m - 1 /\ Raw(c, 0, m)
  <2>1. Whole(u, 0) /\ 0 <= m /\ m \in Int /\ 0 <= 0 /\ m <= m
    BY DEF Whole
  <2>2. IsStore(Stored(u, 0, m)) /\ DOMAIN Stored(u, 0, m) = 0 .. m - 1
    BY <2>1, StoreIs
  <2>3. Raw(Stored(u, 0, m), 0, m)
    BY <2>1, StoreParts
  <2> QED BY <2>2, <2>3
<1>2. Built(src, 0, m)
  <2>1. m \in Int /\ 0 <= 0 /\ m <= m
    OBVIOUS
  <2>2. Built(Stored(u, m, q), 0, m)
    BY <2>1, StoreParts
  <2> QED BY <2>2
<1>3. \A i \in 0 .. q - 1 : i < m => src[i] = u[i + 1]
  BY StoreAt
<1> HIDE DEF c, src
<1>4. Vector!CopyOf(Work(c, <<>>), src, 0, m) = Work(e, <<>>)
  BY <1>1, <1>2, CopyOfIs
<1>5. IsStore(e) /\ DOMAIN e = 0 .. m - 1
  BY <1>1 DEF Laid, IsStore
<1>6. \A i \in 0 .. m - 1 : e[i] = src[i]
  <2>1. \A i \in 0 .. m - 1 : e[i] = src[i - 0] /\ i - 0 = i
    BY <1>1 DEF Laid
  <2> HIDE DEF e
  <2> QED BY <2>1
<1> HIDE DEF e
<1>7. HoldsFirst(e, u, m, m)
  BY <1>3, <1>5, <1>6 DEF HoldsFirst
<1>8. Lands(Work(e, <<>>), u, m)
  BY <1>7, LandsThere
<1>9. QED
  BY <1>4, <1>8 DEF Start, c, src

(* vector(const vector &): the elements of the other.                      *)
LEMMA CopyBuildIs ==
  ASSUME NEW s, NEW n \in Nat, NEW r \in Nat, n <= r, Whole(s, n),
         NEW u, NEW m \in Nat, NEW q \in Nat, m <= q, Whole(u, m)
  PROVE  Lands(Vector!CopyBuild(Start(s, n, r), n, Stored(u, m, q), m), u, m)
<1>1. Vector!Replaced(Vector!Malloc(Vector!DestroyDown(Start(s, n, r), n, 0), m)) = Start(u, 0, m)
  BY AnewIs
<1>2. Lands(Vector!CopyOf(Start(u, 0, m), Stored(u, m, q), 0, m), u, m)
  BY CopiedOver
<1>3. QED
  BY <1>1, <1>2 DEF Vector!CopyBuild

(* operator=: anew in larger storage, or over the elements there are.      *)
LEMMA CopyAssignIs ==
  ASSUME NEW s, NEW n \in Nat, NEW r \in Nat, n <= r, Whole(s, n),
         NEW u, NEW m \in Nat, NEW q \in Nat, m <= q, Whole(u, m)
  PROVE  Lands(Vector!CopyAssign(Start(s, n, r), n, Stored(u, m, q), m), u, m)
<1> DEFINE w == Start(s, n, r)
           c == Stored(s, n, r)
           src == Stored(u, m, q)
<1>1. IsStore(c) /\ DOMAIN c = 0 .. r - 1 /\ Vector!Room(c) = r
  BY StoreIs
<1>2. w.old = c /\ w = Work(c, <<>>)
  BY DEF Start, Work
<1>3. CASE m > r
  <2>1. Vector!Replaced(Vector!Malloc(Vector!DestroyDown(w, n, 0), m)) = Start(u, 0, m)
    BY AnewIs
  <2>2. Lands(Vector!CopyOf(Start(u, 0, m), Stored(u, m, q), 0, m), u, m)
    BY CopiedOver
  <2> HIDE DEF w, c
  <2>3. Vector!CopyAssign(w, n, Stored(u, m, q), m) = Vector!CopyOf(Start(u, 0, m), Stored(u, m, q), 0, m)
    BY <1>1, <1>2, <1>3, <2>1 DEF Vector!CopyAssign
  <2> QED BY <2>2, <2>3 DEF w
<1>4. CASE m <= r
  <2> DEFINE both == IF m < n THEN m ELSE n
             a == Laid(c, 0, both, src, 0)
             b == Laid(a, both, m, src, 0)
             e == Filled(b, m, n, None)
  <2>1. \A i \in 0 .. r - 1 : (i < n => c[i] = s[i + 1] /\ c[i] # None) /\ (i >= n => c[i] = None)
    <3>1. ASSUME NEW i \in 0 .. r - 1, i < n PROVE s[i + 1] # None
      BY <3>1 DEF Whole
    <3> QED BY <3>1, StoreAt
  <2>2. \A i \in 0 .. q - 1 : i < m => src[i] = u[i + 1] /\ src[i] # None
    <3>1. ASSUME NEW i \in 0 .. q - 1, i < m PROVE u[i + 1] # None
      BY <3>1 DEF Whole
    <3> QED BY <3>1, StoreAt
  <2>3. DOMAIN src = 0 .. q - 1
    BY StoreIs
  <2> HIDE DEF w, c, src
  <2>4. both \in Int /\ 0 <= both /\ both <= m /\ both <= n /\ (both < m => both = n)
    OBVIOUS
  <2>5. Built(c, 0, both) /\ Built(src, 0, both) /\ Built(src, both, m)
    <3> HIDE DEF both
    <3> QED BY <1>1, <2>1, <2>2, <2>3, <2>4 DEF Built
  <2>6. Vector!PutEach(Work(c, <<>>), src, 0, both) = Work(a, <<>>)
    <3> HIDE DEF both
    <3> QED BY <1>1, <2>4, <2>5, PutEachIs
  <2>7. IsStore(a) /\ DOMAIN a = 0 .. r - 1
    BY <1>1 DEF Laid, IsStore
  <2>8. \A i \in 0 .. r - 1 : a[i] = IF i < both THEN src[i] ELSE c[i]
    <3> HIDE DEF both
    <3>1. \A i \in 0 .. r - 1 : a[i] = (IF 0 <= i /\ i < both THEN src[i - 0] ELSE c[i]) /\ i - 0 = i /\ 0 <= i
      BY <1>1 DEF Laid
    <3> HIDE DEF a
    <3> QED BY <3>1
  <2> HIDE DEF a, both
  <2>9. Raw(a, both, m)
    BY <1>4, <2>1, <2>4, <2>7, <2>8 DEF Raw
  <2>10. Vector!CopyOf(Work(a, <<>>), src, both, m) = Work(b, <<>>)
    BY <2>4, <2>5, <2>7, <2>9, CopyOfIs
  <2>11. IsStore(b) /\ DOMAIN b = 0 .. r - 1
    BY <2>7 DEF Laid, IsStore
  <2>12. \A i \in 0 .. r - 1 : b[i] = IF i < m THEN src[i] ELSE c[i]
    <3>1. \A i \in 0 .. r - 1 : b[i] = (IF both <= i /\ i < m THEN src[i - 0] ELSE a[i]) /\ i - 0 = i
      BY <2>7 DEF Laid
    <3> HIDE DEF b
    <3> QED BY <2>4, <2>8, <3>1
  <2> HIDE DEF b
  <2>13. Built(b, m, n)
    BY <2>1, <2>11, <2>12 DEF Built
  <2>14. Vector!DestroyDown(Work(b, <<>>), n, m) = Work(e, <<>>)
    BY <2>11, <2>13, DestroyDownIs
  <2>15. IsStore(e) /\ DOMAIN e = 0 .. r - 1
    BY <2>11 DEF Filled, IsStore
  <2>16. \A i \in 0 .. r - 1 : e[i] = IF m <= i /\ i < n THEN None ELSE b[i]
    BY <2>11 DEF Filled
  <2> HIDE DEF e
  <2>17. HoldsFirst(e, u, m, r)
    <3>1. ASSUME NEW i \in 0 .. r - 1
          PROVE  (i < m => e[i] = u[i + 1]) /\ (i >= m => e[i] = None)
      <4>1. i < m => i \in 0 .. q - 1
        OBVIOUS
      <4> QED BY <2>1, <2>2, <2>12, <2>16, <4>1
    <3> QED BY <2>15, <3>1 DEF HoldsFirst
  <2>18. Lands(Work(e, <<>>), u, m)
    BY <1>4, <2>17, LandsThere
  <2>19. Vector!CopyAssign(w, n, src, m) = Work(e, <<>>)
    <3>1. both = IF m < n THEN m ELSE n
      BY DEF both
    <3>2. Vector!CopyAssign(w, n, src, m) = Vector!DestroyDown(Vector!CopyOf(Vector!PutEach(w, src, 0, both), src, both, m), n, m)
      BY <1>1, <1>2, <1>4, <3>1 DEF Vector!CopyAssign
    <3> QED BY <1>2, <2>6, <2>10, <2>14, <3>2
  <2> QED BY <2>18, <2>19 DEF w, src
<1>5. QED
  BY <1>3, <1>4

(* erase of a range: those after it are put in its place.                  *)
Without(s, n, i, j) == [k \in 1 .. n - (j - i) |-> IF k <= i THEN s[k] ELSE s[k + (j - i)]]

(* erase lands on the sequence without the range.                          *)
LEMMA EraseIs ==
  ASSUME NEW s, NEW n \in Nat, NEW r \in Nat, n <= r, Whole(s, n), NEW j \in 0 .. n, NEW i \in 0 .. j
  PROVE  Lands(Vector!Erase(Start(s, n, r), n, i, j), Without(s, n, i, j), n - (j - i))
<1> DEFINE w == Start(s, n, r)
           c == Stored(s, n, r)
           by == j - i
           m == n - by
           t == Without(s, n, i, j)
           a == Laid(c, i, m, c, -by)
           e == Filled(a, m, n, None)
<1>1. IsStore(c) /\ DOMAIN c = 0 .. r - 1
  BY StoreIs
<1>2. w = Work(c, <<>>)
  BY DEF Start
<1>3. \A k \in 0 .. r - 1 : (k < n => c[k] = s[k + 1] /\ c[k] # None) /\ (k >= n => c[k] = None)
  <2>1. ASSUME NEW k \in 0 .. r - 1, k < n PROVE s[k + 1] # None
    BY <2>1 DEF Whole
  <2> QED BY <2>1, StoreAt
<1>4. by \in Nat /\ -by \in Int /\ j - by = i /\ m \in Nat /\ m <= n /\ i <= m /\ m + by = n /\ j + by = i + by + by
  OBVIOUS
<1>5. \A k \in 1 .. m : t[k] = IF k <= i THEN s[k] ELSE s[k + by]
  BY DEF Without
<1>6. CASE i = j
  <2>1. m = n /\ by = 0
    BY <1>6
  <2>2. Lands(w, s, n)
    BY DEF Lands, Start
  <2>3. \A k \in 1 .. m : t[k] = s[k]
    <3> HIDE DEF m, by, t
    <3> QED BY <1>5, <2>1
  <2>4. Vector!Erase(w, n, i, j) = w
    BY <1>6 DEF Vector!Erase
  <2> HIDE DEF w, t, by, m
  <2>5. Lands(w, t, m)
    BY <2>1, <2>2, <2>3, LandsAlike
  <2> QED BY <2>4, <2>5 DEF w, t, m, by
<1>7. CASE i # j
  <2>1. by > 0
    BY <1>7
  <2> HIDE DEF w, c, by, m
  <2>2. Built(c, i, n)
    BY <1>1, <1>3 DEF Built
  <2>3. Vector!PutDown(Work(c, <<>>), j, n, by) = Work(a, <<>>)
    <3>1. j - by = i /\ n - by = m
      BY <1>4
    <3>2. Built(c, j - by, n)
      BY <2>2, <3>1
    <3>3. Vector!PutDown(Work(c, <<>>), j, n, by) = Work(Laid(c, j - by, n - by, c, -by), <<>>)
      BY <1>1, <1>4, <2>1, <3>2, PutDownIs
    <3> QED BY <3>1, <3>3
  <2>4. IsStore(a) /\ DOMAIN a = 0 .. r - 1
    BY <1>1 DEF Laid, IsStore
  <2>5. \A k \in 0 .. r - 1 : a[k] = IF i <= k /\ k < m THEN c[k + by] ELSE c[k]
    <3>1. \A k \in 0 .. r - 1 : a[k] = (IF i <= k /\ k < m THEN c[k - (-by)] ELSE c[k]) /\ k - (-by) = k + by
      BY <1>1, <1>4 DEF Laid
    <3> HIDE DEF a
    <3> QED BY <3>1
  <2> HIDE DEF a
  <2>6. Built(a, m, n)
    BY <1>3, <1>4, <2>4, <2>5 DEF Built
  <2>7. Vector!DestroyDown(Work(a, <<>>), n, m) = Work(e, <<>>)
    BY <1>4, <2>4, <2>6, DestroyDownIs
  <2>8. IsStore(e) /\ DOMAIN e = 0 .. r - 1
    BY <2>4 DEF Filled, IsStore
  <2>9. \A k \in 0 .. r - 1 : e[k] = IF m <= k /\ k < n THEN None ELSE a[k]
    BY <2>4 DEF Filled
  <2> HIDE DEF e, t
  <2>10. HoldsFirst(e, t, m, r)
    <3>1. ASSUME NEW k \in 0 .. r - 1
          PROVE  (k < m => e[k] = t[k + 1]) /\ (k >= m => e[k] = None)
      <4>1. CASE k < i
        <5>1. k + 1 \in 1 .. m /\ k + 1 <= i /\ k < n /\ k < m
          BY <1>4, <4>1
        <5>2. e[k] = a[k] /\ a[k] = c[k]
          BY <1>4, <2>5, <2>9, <4>1, <5>1
        <5>3. c[k] = s[k + 1] /\ t[k + 1] = s[k + 1]
          BY <1>3, <1>5, <5>1
        <5> QED BY <1>4, <5>1, <5>2, <5>3
      <4>2. CASE i <= k /\ k < m
        <5>1. k + 1 \in 1 .. m /\ ~(k + 1 <= i) /\ k + by \in 0 .. r - 1 /\ k + by < n /\ (k + by) + 1 = (k + 1) + by
          BY <1>4, <4>2
        <5>2. e[k] = a[k] /\ a[k] = c[k + by]
          BY <1>4, <2>5, <2>9, <4>2
        <5>3. c[k + by] = s[(k + by) + 1] /\ t[k + 1] = s[(k + 1) + by]
          BY <1>3, <1>5, <5>1
        <5> QED BY <1>4, <4>2, <5>1, <5>2, <5>3
      <4>3. CASE k >= m
        BY <1>3, <1>4, <2>5, <2>9, <4>3
      <4> QED BY <1>4, <4>1, <4>2, <4>3
    <3> QED BY <2>8, <3>1 DEF HoldsFirst
  <2>11. Lands(Work(e, <<>>), t, m)
    BY <1>4, <2>10, LandsThere
  <2>12. Vector!Erase(w, n, i, j) = Work(e, <<>>)
    <3>1. by = j - i /\ m = n - by
      BY DEF by, m
    <3>2. Vector!Erase(w, n, i, j) = Vector!DestroyDown(Vector!PutDown(w, j, n, by), n, m)
      BY <1>7, <3>1 DEF Vector!Erase
    <3> QED BY <1>2, <2>3, <2>7, <3>2
  <2> QED BY <2>11, <2>12 DEF w, t, m, by
<1>8. QED
  BY <1>6, <1>7

(* One value put in before a position.                                     *)
Inserted(s, n, at, x) == [k \in 1 .. n + 1 |-> IF k <= at THEN s[k] ELSE IF k = at + 1 THEN x ELSE s[k - 1]]

(* __insert_one with room: a value that moved is read one place along.     *)
LEMMA InPlaceIs ==
  ASSUME NEW s, NEW n \in Nat, NEW r \in Nat, n < r, Whole(s, n), NEW at \in 0 .. n,
         NEW ref, NEW x, Stands(ref, s, n, x), ref = [at |-> ref.at, value |-> ref.value]
  PROVE  Lands(Vector!InsertInPlace(Start(s, n, r), n, at, ref), Inserted(s, n, at, x), n + 1)
<1> DEFINE w == Start(s, n, r)
           c == Stored(s, n, r)
           t == Inserted(s, n, at, x)
<1>1. IsStore(c) /\ DOMAIN c = 0 .. r - 1
  BY StoreIs
<1>2. w = Work(c, <<>>) /\ x # None
  BY DEF Start, Stands
<1>3. \A i \in 0 .. r - 1 : (i < n => c[i] = s[i + 1] /\ c[i] # None) /\ (i >= n => c[i] = None)
  <2>1. ASSUME NEW k \in 0 .. r - 1, k < n PROVE s[k + 1] # None
    BY <2>1 DEF Whole
  <2> QED BY <2>1, StoreAt
<1>4. \A k \in 1 .. n + 1 : t[k] = IF k <= at THEN s[k] ELSE IF k = at + 1 THEN x ELSE s[k - 1]
  BY DEF Inserted
<1>5. n \in 0 .. r - 1 /\ n + 1 \in Nat /\ n + 1 <= r
  OBVIOUS
<1>6. CASE at = n
  <2> DEFINE e == [c EXCEPT ![n] = x]
  <2>1. Vector!Seen(w, ref) = x
    BY SeenIs DEF Start
  <2>2. IsStore(e) /\ DOMAIN e = 0 .. r - 1
    BY <1>1 DEF IsStore
  <2>3. \A i \in 0 .. r - 1 : e[i] = IF i = n THEN x ELSE c[i]
    BY <1>1
  <2> HIDE DEF w, c, t
  <2>4. Vector!Build(Work(c, <<>>), "old", n, x) = Work(e, <<>>)
    BY <1>1, <1>2, <1>3, <1>5, BuildOld
  <2> HIDE DEF e
  <2>5. HoldsFirst(e, t, n + 1, r)
    <3>1. ASSUME NEW i \in 0 .. r - 1
          PROVE  (i < n + 1 => e[i] = t[i + 1]) /\ (i >= n + 1 => e[i] = None)
      <4>1. CASE i < n
        BY <1>3, <1>4, <1>6, <2>3, <4>1
      <4>2. CASE i = n
        BY <1>4, <1>6, <2>3, <4>2
      <4>3. CASE i > n
        BY <1>3, <2>3, <4>3
      <4> QED BY <4>1, <4>2, <4>3
    <3> QED BY <2>2, <3>1 DEF HoldsFirst
  <2>6. Lands(Work(e, <<>>), t, n + 1)
    BY <1>5, <2>5, LandsThere
  <2>7. Vector!InsertInPlace(w, n, at, ref) = Work(e, <<>>)
    BY <1>2, <1>6, <2>1, <2>4 DEF Vector!InsertInPlace
  <2> QED BY <2>6, <2>7 DEF w, t
<1>7. CASE at < n
  <2> DEFINE a == [c EXCEPT ![n] = c[n - 1]]
             b == Laid(a, at + 1, n, a, 1)
             e == [b EXCEPT ![at] = x]
             source == IF ref.at >= at THEN [ref EXCEPT !.at = ref.at + 1] ELSE ref
  <2> HIDE DEF w, c, t
  <2>1. n - 1 \in 0 .. r - 1 /\ c[n - 1] = s[n] /\ c[n - 1] # None
    <3>1. n - 1 \in 0 .. r - 1 /\ n - 1 < n /\ (n - 1) + 1 = n
      BY <1>7
    <3> QED BY <1>3, <3>1
  <2>2. IsStore(a) /\ DOMAIN a = 0 .. r - 1
    BY <1>1 DEF IsStore
  <2>3. \A i \in 0 .. r - 1 : a[i] = IF i = n THEN c[n - 1] ELSE c[i]
    BY <1>1
  <2>4. Vector!Build(Work(c, <<>>), "old", n, Vector!Look(Work(c, <<>>), "old", n - 1)) = Work(a, <<>>)
    <3>1. Vector!Look(Work(c, <<>>), "old", n - 1) = c[n - 1]
      BY <1>1, <2>1, LookOld
    <3>2. n \in DOMAIN c /\ c[n] = None
      BY <1>1, <1>3, <1>5
    <3> QED BY <2>1, <3>1, <3>2, BuildOld
  <2> HIDE DEF a
  <2>5. Built(a, at, n)
    BY <1>3, <2>2, <2>3 DEF Built
  <2>6. Vector!PutUp(Work(a, <<>>), n, at + 1) = Work(b, <<>>)
    <3>1. (at + 1) - 1 = at /\ at + 1 \in Int
      OBVIOUS
    <3>2. Built(a, (at + 1) - 1, n)
      BY <2>5, <3>1
    <3> QED BY <2>2, <3>1, <3>2, PutUpIs
  <2>7. IsStore(b) /\ DOMAIN b = 0 .. r - 1
    BY <2>2 DEF Laid, IsStore
  <2>8. \A i \in 0 .. r - 1 : b[i] = IF at + 1 <= i /\ i < n THEN a[i - 1] ELSE a[i]
    BY <2>2 DEF Laid
  <2> HIDE DEF b
  <2>9. \A i \in 0 .. r - 1 : /\ i <= at => b[i] = s[i + 1]
                              /\ at < i /\ i <= n => b[i] = s[i]
                              /\ i > n => b[i] = None
    <3> TAKE i \in 0 .. r - 1
    <3>1. CASE i <= at
      <4>1. b[i] = a[i] /\ a[i] = c[i] /\ c[i] = s[i + 1]
        BY <1>3, <1>7, <2>3, <2>8, <3>1
      <4> QED BY <3>1, <4>1
    <3>2. CASE at < i /\ i < n
      <4>1. i - 1 \in 0 .. r - 1 /\ i - 1 < n /\ i - 1 # n /\ (i - 1) + 1 = i /\ at + 1 <= i
        BY <3>2
      <4>2. b[i] = a[i - 1] /\ a[i - 1] = c[i - 1] /\ c[i - 1] = s[i]
        <5>1. b[i] = a[i - 1]
          BY <2>8, <3>2, <4>1
        <5>2. a[i - 1] = c[i - 1]
          BY <2>3, <4>1
        <5>3. c[i - 1] = s[(i - 1) + 1]
          BY <1>3, <4>1
        <5> QED BY <4>1, <5>1, <5>2, <5>3
      <4> QED BY <3>2, <4>2
    <3>3. CASE i = n
      <4>1. b[i] = a[i] /\ a[i] = c[n - 1]
        BY <2>3, <2>8, <3>3
      <4> QED BY <1>7, <2>1, <3>3, <4>1
    <3>4. CASE i > n
      <4>1. b[i] = a[i] /\ a[i] = c[i] /\ c[i] = None
        BY <1>3, <2>3, <2>8, <3>4
      <4> QED BY <1>7, <3>4, <4>1
    <3> QED BY <3>1, <3>2, <3>3, <3>4
  <2>10. Vector!Seen(Work(b, <<>>), source) = x
    <3>0. ref.at \in Int /\ (ref.at >= 0 => ref.at < n /\ x = s[ref.at + 1]) /\ (ref.at < 0 => x = ref.value)
      BY DEF Stands
    <3>1. CASE ref.at >= at
      <4>1. ref.at + 1 \in 0 .. r - 1 /\ at < ref.at + 1 /\ ref.at + 1 <= n /\ x = s[ref.at + 1]
        BY <3>0, <3>1
      <4>2. b[ref.at + 1] = x
        BY <2>9, <4>1
      <4>3. source.at = ref.at + 1
        BY <3>1
      <4>4. Vector!Look(Work(b, <<>>), "old", ref.at + 1) = x
        BY <2>7, <4>1, <4>2, LookOld
      <4> HIDE DEF source
      <4> QED BY <4>1, <4>3, <4>4 DEF Vector!Seen
    <3>2. CASE ref.at < at /\ ref.at >= 0
      <4>1. ref.at \in 0 .. r - 1 /\ ref.at <= at /\ x = s[ref.at + 1]
        BY <3>0, <3>2
      <4>2. b[ref.at] = x
        BY <2>9, <4>1
      <4>3. source = ref
        BY <3>0, <3>2
      <4>4. Vector!Look(Work(b, <<>>), "old", ref.at) = x
        BY <2>7, <4>1, <4>2, LookOld
      <4> HIDE DEF source
      <4> QED BY <3>2, <4>3, <4>4 DEF Vector!Seen
    <3>3. CASE ref.at < 0
      <4>1. source = ref
        BY <3>0, <3>3
      <4> HIDE DEF source
      <4> QED BY <3>0, <3>3, <4>1 DEF Vector!Seen
    <3> HIDE DEF source
    <3> QED BY <3>0, <3>1, <3>2, <3>3
  <2>11. at \in 0 .. r - 1 /\ b[at] # None
    <3>1. at \in 0 .. r - 1 /\ at + 1 \in 1 .. n
      BY <1>7
    <3> QED BY <2>9, <3>1 DEF Whole
  <2>12. Vector!Put(Work(b, <<>>), "old", at, x) = Work(e, <<>>)
    BY <1>2, <2>7, <2>11, PutOld
  <2>13. IsStore(e) /\ DOMAIN e = 0 .. r - 1
    BY <2>7 DEF IsStore
  <2>14. \A i \in 0 .. r - 1 : e[i] = IF i = at THEN x ELSE b[i]
    BY <2>7
  <2>15. Vector!InsertInPlace(w, n, at, ref) = Work(e, <<>>)
    <3> DEFINE longer == Vector!Build(w, "old", n, Vector!Look(w, "old", n - 1))
               moved == Vector!PutUp(longer, n, at + 1)
    <3>1. Vector!InsertInPlace(w, n, at, ref) = Vector!Put(moved, "old", at, Vector!Seen(moved, source))
      BY <1>7 DEF Vector!InsertInPlace
    <3>2. moved = Work(b, <<>>)
      BY <1>2, <2>4, <2>6
    <3> HIDE DEF moved, source, e
    <3> QED BY <2>10, <2>12, <3>1, <3>2
  <2> HIDE DEF e
  <2>16. HoldsFirst(e, t, n + 1, r)
    <3>1. ASSUME NEW i \in 0 .. r - 1
          PROVE  (i < n + 1 => e[i] = t[i + 1]) /\ (i >= n + 1 => e[i] = None)
      <4>1. CASE i < at
        <5>1. e[i] = b[i] /\ b[i] = s[i + 1] /\ t[i + 1] = s[i + 1]
          BY <1>4, <1>7, <2>9, <2>14, <4>1
        <5> QED BY <1>7, <4>1, <5>1
      <4>2. CASE i = at
        <5>1. e[i] = x /\ t[i + 1] = x
          BY <1>4, <1>7, <2>14, <4>2
        <5> QED BY <1>7, <4>2, <5>1
      <4>3. CASE at < i /\ i <= n
        <5>1. e[i] = b[i] /\ b[i] = s[i]
          BY <2>9, <2>14, <4>3
        <5>2. i + 1 \in 1 .. n + 1 /\ ~(i + 1 <= at) /\ i + 1 # at + 1 /\ (i + 1) - 1 = i
          BY <4>3
        <5>3. t[i + 1] = s[(i + 1) - 1]
          BY <1>4, <5>2
        <5> QED BY <4>3, <5>1, <5>2, <5>3
      <4>4. CASE i > n
        <5>1. e[i] = b[i] /\ b[i] = None
          BY <1>7, <2>9, <2>14, <4>4
        <5> QED BY <4>4, <5>1
      <4> QED BY <4>1, <4>2, <4>3, <4>4
    <3> QED BY <2>13, <3>1 DEF HoldsFirst
  <2>17. Lands(Work(e, <<>>), t, n + 1)
    BY <1>5, <2>16, LandsThere
  <2> QED BY <2>15, <2>17 DEF w, t
<1>8. QED
  BY <1>6, <1>7

(* __insert_one without room: the value is built first, then the rest      *)
(* moved round it.                                                         *)
LEMMA GrowingIs ==
  ASSUME NEW s, NEW n \in Nat, NEW r \in Nat, n <= r, Whole(s, n), NEW at \in 0 .. n,
         NEW ref, NEW x, Stands(ref, s, n, x)
  PROVE  Lands(Vector!InsertGrowing(Start(s, n, r), n, at, ref), Inserted(s, n, at, x), n + 1)
<1> DEFINE w == Start(s, n, r)
           c == Stored(s, n, r)
           t == Inserted(s, n, at, x)
           g == Vector!Grown(w, n + 1)
           d == [Blank(g) EXCEPT ![at] = x]
           p == Laid(d, at + 1, n + 1, c, 1)
           b == Filled(c, at, n, None)
           e == Laid(p, 0, at, b, 0)
           f == Filled(b, 0, at, None)
<1>1. IsStore(c) /\ DOMAIN c = 0 .. r - 1
  BY StoreIs
<1>2. w = Work(c, <<>>) /\ x # None
  BY DEF Start, Stands
<1>3. \A i \in 0 .. r - 1 : (i < n => c[i] = s[i + 1] /\ c[i] # None) /\ (i >= n => c[i] = None)
  <2>1. ASSUME NEW k \in 0 .. r - 1, k < n PROVE s[k + 1] # None
    BY <2>1 DEF Whole
  <2> QED BY <2>1, StoreAt
<1>4. \A k \in 1 .. n + 1 : t[k] = IF k <= at THEN s[k] ELSE IF k = at + 1 THEN x ELSE s[k - 1]
  BY DEF Inserted
<1>5. g \in Nat /\ g >= n + 1
  BY MoreRoom DEF Start
<1>6. Vector!Seen(Work(c, Blank(g)), ref) = x
  BY SeenIs
<1> HIDE DEF w, c, t, g
<1>7. /\ IsStore(Blank(g)) /\ DOMAIN Blank(g) = 0 .. g - 1
      /\ \A i \in 0 .. g - 1 : Blank(g)[i] = None
  BY <1>5, BlankIs
<1>8. Vector!Malloc(w, g) = Work(c, Blank(g))
  BY <1>2, <1>5, MallocIs
<1>9. at \in 0 .. g - 1 /\ at \in Int /\ at + 1 \in Int /\ n + 1 \in Int /\ n \in Int
  BY <1>5
<1>10. Vector!Build(Work(c, Blank(g)), "new", at, x) = Work(c, d)
  <2>1. at \in DOMAIN Blank(g) /\ Blank(g)[at] = None
    BY <1>7, <1>9
  <2> QED BY <1>2, <2>1, BuildNew
<1>11. /\ IsStore(d) /\ DOMAIN d = 0 .. g - 1
       /\ \A i \in 0 .. g - 1 : d[i] = IF i = at THEN x ELSE None
  BY <1>7 DEF IsStore
<1> HIDE DEF d
<1>12. Built(c, at, n) /\ Built(c, 0, at)
  BY <1>1, <1>3 DEF Built
<1>13. Raw(d, at + 1, n + 1)
  BY <1>5, <1>11 DEF Raw
<1>14. Vector!Copied(Work(c, d), at, n, 1) = Work(c, p)
  BY <1>9, <1>11, <1>12, <1>13, CopiedIs
<1>15. IsStore(p) /\ DOMAIN p = 0 .. g - 1
  BY <1>11 DEF Laid, IsStore
<1>16. \A i \in 0 .. g - 1 : p[i] = IF at + 1 <= i /\ i < n + 1 THEN c[i - 1] ELSE d[i]
  BY <1>11 DEF Laid
<1> HIDE DEF p
<1>17. Vector!Emptied(Work(c, p), at, n) = Work(b, p)
  BY <1>1, <1>12, EmptiedIs
<1>18. IsStore(b) /\ DOMAIN b = 0 .. r - 1
  BY <1>1 DEF Filled, IsStore
<1>19. \A i \in 0 .. r - 1 : b[i] = IF at <= i /\ i < n THEN None ELSE c[i]
  BY <1>1 DEF Filled
<1> HIDE DEF b
<1>20. Built(b, 0, at)
  BY <1>3, <1>18, <1>19 DEF Built
<1>21. Raw(p, 0, at)
  BY <1>5, <1>11, <1>15, <1>16 DEF Raw
<1>22. Vector!Copied(Work(b, p), 0, at, 0) = Work(b, e)
  <2>1. 0 + 0 = 0 /\ at + 0 = at
    OBVIOUS
  <2>2. Raw(p, 0 + 0, at + 0)
    BY <1>21, <2>1
  <2>3. Vector!Copied(Work(b, p), 0, at, 0) = Work(b, Laid(p, 0 + 0, at + 0, b, 0))
    BY <1>15, <1>20, <2>2, CopiedIs
  <2> QED BY <2>1, <2>3
<1>23. IsStore(e) /\ DOMAIN e = 0 .. g - 1
  BY <1>15 DEF Laid, IsStore
<1>24. \A i \in 0 .. g - 1 : e[i] = IF i < at THEN b[i] ELSE p[i]
  <2>1. \A i \in 0 .. g - 1 : e[i] = (IF 0 <= i /\ i < at THEN b[i - 0] ELSE p[i]) /\ i - 0 = i /\ 0 <= i
    BY <1>15 DEF Laid
  <2> HIDE DEF e
  <2> QED BY <2>1
<1> HIDE DEF e
<1>25. Vector!Emptied(Work(b, e), 0, at) = Work(f, e)
  BY <1>18, <1>20, EmptiedIs
<1>26. \A i \in DOMAIN f : f[i] = None
  <2>1. DOMAIN f = 0 .. r - 1 /\ \A i \in 0 .. r - 1 : f[i] = IF 0 <= i /\ i < at THEN None ELSE b[i]
    BY <1>18 DEF Filled
  <2> HIDE DEF f
  <2> QED BY <1>3, <1>19, <2>1
<1>27. Vector!Replaced(Work(f, e)) = Work(e, <<>>)
  BY <1>26, ReplacedIs
<1> HIDE DEF f
<1>28. Vector!InsertGrowing(w, n, at, ref) = Work(e, <<>>)
  <2> DEFINE fresh == Vector!Malloc(w, Vector!Grown(w, n + 1))
             placed == Vector!Build(fresh, "new", at, Vector!Seen(fresh, ref))
             behind == Vector!Emptied(Vector!Copied(placed, at, n, 1), at, n)
  <2>1. Vector!InsertGrowing(w, n, at, ref) = Vector!Replaced(Vector!Emptied(Vector!Copied(behind, 0, at, 0), 0, at))
    BY DEF Vector!InsertGrowing
  <2>2. fresh = Work(c, Blank(g))
    BY <1>8 DEF g
  <2>3. placed = Work(c, d)
    <3> HIDE DEF fresh
    <3> QED BY <1>6, <1>10, <2>2
  <2>4. behind = Work(b, p)
    <3> HIDE DEF placed
    <3> QED BY <1>14, <1>17, <2>3
  <2> HIDE DEF behind
  <2> QED BY <1>22, <1>25, <1>27, <2>1, <2>4
<1>29. HoldsFirst(e, t, n + 1, g)
  <2>1. ASSUME NEW i \in 0 .. g - 1
        PROVE  (i < n + 1 => e[i] = t[i + 1]) /\ (i >= n + 1 => e[i] = None)
    <3>1. CASE i < at
      <4>1. i \in 0 .. r - 1 /\ i < n /\ i + 1 \in 1 .. n + 1 /\ i + 1 <= at
        BY <3>1
      <4>2. e[i] = b[i] /\ b[i] = c[i] /\ c[i] = s[i + 1] /\ t[i + 1] = s[i + 1]
        BY <1>3, <1>4, <1>19, <1>24, <3>1, <4>1
      <4> QED BY <3>1, <4>2
    <3>2. CASE i = at
      <4>1. e[i] = p[i] /\ p[i] = d[i] /\ d[i] = x
        BY <1>11, <1>16, <1>24, <3>2
      <4>2. t[i + 1] = x
        BY <1>4, <3>2
      <4> QED BY <3>2, <4>1, <4>2
    <3>3. CASE at < i /\ i <= n
      <4>1. i - 1 \in 0 .. r - 1 /\ i - 1 < n /\ (i - 1) + 1 = i /\ at + 1 <= i /\ i < n + 1
            /\ i + 1 \in 1 .. n + 1 /\ ~(i + 1 <= at) /\ i + 1 # at + 1 /\ (i + 1) - 1 = i
        BY <3>3
      <4>2. e[i] = p[i] /\ p[i] = c[i - 1]
        BY <1>16, <1>24, <3>3, <4>1
      <4>3. c[i - 1] = s[(i - 1) + 1]
        BY <1>3, <4>1
      <4>4. t[i + 1] = s[(i + 1) - 1]
        BY <1>4, <4>1
      <4> QED BY <3>3, <4>1, <4>2, <4>3, <4>4
    <3>4. CASE i > n
      <4>1. e[i] = p[i] /\ p[i] = d[i] /\ d[i] = None
        BY <1>11, <1>16, <1>24, <3>4
      <4> QED BY <3>4, <4>1
    <3> QED BY <1>5, <3>1, <3>2, <3>3, <3>4
  <2> QED BY <1>23, <2>1 DEF HoldsFirst
<1>30. Lands(Work(e, <<>>), t, n + 1)
  BY <1>5, <1>29, LandsThere
<1>31. QED
  BY <1>28, <1>30 DEF w, t

(* __insert_one, either way.                                               *)
LEMMA InsertOneIs ==
  ASSUME NEW s, NEW n \in Nat, NEW r \in Nat, n <= r, Whole(s, n), NEW at \in 0 .. n,
         NEW ref, NEW x, Stands(ref, s, n, x), ref = [at |-> ref.at, value |-> ref.value]
  PROVE  Lands(Vector!InsertOne(Start(s, n, r), n, at, ref), Inserted(s, n, at, x), n + 1)
<1>1. Vector!Room(Start(s, n, r).old) = r
  BY StoreIs DEF Start, Work
<1>2. CASE n < r
  <2>1. Lands(Vector!InsertInPlace(Start(s, n, r), n, at, ref), Inserted(s, n, at, x), n + 1)
    BY <1>2, InPlaceIs
  <2>2. Vector!InsertOne(Start(s, n, r), n, at, ref) = Vector!InsertInPlace(Start(s, n, r), n, at, ref)
    BY <1>1, <1>2 DEF Vector!InsertOne
  <2> QED BY <2>1, <2>2
<1>3. CASE n = r
  <2>1. Lands(Vector!InsertGrowing(Start(s, n, r), n, at, ref), Inserted(s, n, at, x), n + 1)
    BY GrowingIs
  <2>2. Vector!InsertOne(Start(s, n, r), n, at, ref) = Vector!InsertGrowing(Start(s, n, r), n, at, ref)
    BY <1>1, <1>3 DEF Vector!InsertOne
  <2> QED BY <2>1, <2>2
<1>4. QED
  BY <1>2, <1>3

(* A range put in before a position, element by element.                   *)
Spliced(s, n, at, u, k) ==
  [i \in 1 .. n + k |-> IF i <= at THEN s[i] ELSE IF i <= at + k THEN u[i - at] ELSE s[i - k]]

(* insert of a range: one after another, each before the place the last    *)
(* went.                                                                   *)
LEMMA InsertAllIs ==
  ASSUME NEW s, NEW n \in Nat, NEW r \in Nat, n <= r, Whole(s, n), NEW at \in 0 .. n,
         NEW u, NEW m \in Nat, NEW q \in Nat, m <= q, Whole(u, m)
  PROVE  Lands(Vector!InsertAll(Start(s, n, r), n, at, Stored(u, m, q), m), Spliced(s, n, at, u, m), n + m)
<1> DEFINE w == Start(s, n, r)
           src == Stored(u, m, q)
           One(v, k) == Vector!InsertOne(v, n + k, at + k, [at |-> -1, value |-> src[k]])
           Follows(f, top) == f = [i \in 0 .. top |-> IF i = 0 THEN w ELSE One(f[i - 1], i - 1)]
<1>1. \A i \in 0 .. m - 1 : src[i] = u[i + 1] /\ src[i] # None
  <2> TAKE i \in 0 .. m - 1
  <2>1. i \in 0 .. q - 1 /\ i < m /\ i + 1 \in 1 .. m
    OBVIOUS
  <2>2. Stored(u, m, q)[i] = u[i + 1]
    BY <2>1, StoreAt
  <2> QED BY <2>1, <2>2 DEF Whole
<1>2. \E f : Follows(f, m)
  <2> DEFINE E == {k \in Nat : \E f : Follows(f, k)}
  <2> HIDE DEF One
  <2>1. 0 \in E
    <3> DEFINE f == [i \in 0 .. 0 |-> w]
    <3>1. f = [i \in 0 .. 0 |-> IF i = 0 THEN w ELSE One(f[i - 1], i - 1)]
      OBVIOUS
    <3> HIDE DEF f
    <3>2. Follows(f, 0)
      BY <3>1
    <3> QED BY <3>2
  <2>2. ASSUME NEW k \in Nat, k \in E PROVE k + 1 \in E
    <3>1. PICK f : Follows(f, k)
      BY <2>2
    <3> DEFINE h == [i \in 0 .. k + 1 |-> IF i <= k THEN f[i] ELSE One(f[k], k)]
    <3>2. \A i \in 0 .. k : h[i] = f[i]
      OBVIOUS
    <3>3. h[k + 1] = One(f[k], k)
      OBVIOUS
    <3>4. h = [i \in 0 .. k + 1 |-> h[i]]
      OBVIOUS
    <3> HIDE DEF h
    <3>5. \A i \in 0 .. k + 1 : h[i] = IF i = 0 THEN w ELSE One(h[i - 1], i - 1)
      <4> TAKE i \in 0 .. k + 1
      <4>1. CASE i = 0
        <5>1. f[0] = w
          BY <3>1
        <5> QED BY <3>2, <4>1, <5>1
      <4>2. CASE i # 0 /\ i <= k
        <5>1. i \in 0 .. k /\ i - 1 \in 0 .. k
          BY <4>2
        <5>2. f[i] = One(f[i - 1], i - 1)
          BY <3>1, <4>2, <5>1
        <5> QED BY <3>2, <4>2, <5>1, <5>2
      <4>3. CASE i = k + 1
        <5>1. i - 1 = k /\ k \in 0 .. k /\ i # 0
          BY <4>3
        <5> QED BY <3>2, <3>3, <4>3, <5>1
      <4> QED BY <4>1, <4>2, <4>3
    <3>6. Follows(h, k + 1)
      BY <3>4, <3>5
    <3> QED BY <3>6
  <2> HIDE DEF E
  <2>3. m \in E
    BY <2>1, <2>2, SetInduction
  <2> QED BY <2>3 DEF E
<1> DEFINE f == CHOOSE f : Follows(f, m)
<1>3. Follows(f, m)
  <2> HIDE DEF Follows
  <2> QED BY <1>2, Zenon
<1>4. Vector!InsertAll(w, n, at, src, m) = f[m]
  <2>1. Vector!InsertAll(w, n, at, src, m)
          = (CHOOSE g : g = [i \in 0 .. (IF m > 0 THEN m ELSE 0) |-> IF i = 0 THEN w ELSE One(g[i - 1], i - 1)])[IF m > 0 THEN m ELSE 0]
    BY Zenon DEF Vector!InsertAll, Vector!Up
  <2>2. (IF m > 0 THEN m ELSE 0) = m
    OBVIOUS
  <2> HIDE DEF One
  <2> QED BY <2>1, <2>2, Zenon
<1>5. f[0] = w /\ \A k \in 0 .. m - 1 : f[k + 1] = One(f[k], k)
  <2> HIDE DEF f, One, w
  <2>1. f[0] = w
    BY <1>3
  <2>2. ASSUME NEW k \in 0 .. m - 1 PROVE f[k + 1] = One(f[k], k)
    <3>1. k + 1 \in 0 .. m /\ (k + 1) - 1 = k /\ k + 1 # 0
      OBVIOUS
    <3> QED BY <1>3, <3>1
  <2> QED BY <2>1, <2>2
<1> HIDE DEF f, Follows, src
<1>6. ASSUME NEW k \in 0 .. m - 1, Lands(f[k], Spliced(s, n, at, u, k), n + k)
      PROVE  Lands(f[k + 1], Spliced(s, n, at, u, k + 1), n + (k + 1))
  <2> DEFINE t == Spliced(s, n, at, u, k)
             v == Spliced(s, n, at, u, k + 1)
             l == n + k
             ref == [at |-> -1, value |-> src[k]]
  <2>1. PICK g \in Nat : l <= g /\ f[k] = Start(t, l, g)
    BY <1>6 DEF Lands, Start
  <2>2. \A i \in 1 .. l : t[i] = IF i <= at THEN s[i] ELSE IF i <= at + k THEN u[i - at] ELSE s[i - k]
    BY DEF Spliced
  <2>3. \A i \in 1 .. l + 1 : v[i] = IF i <= at THEN s[i] ELSE IF i <= at + (k + 1) THEN u[i - at] ELSE s[i - (k + 1)]
    BY DEF Spliced
  <2>4. l \in Nat /\ at + k \in 0 .. l /\ l = n + k /\ l + 1 = n + (k + 1)
    OBVIOUS
  <2> HIDE DEF t, v, l
  <2>5. Whole(t, l)
    <3> SUFFICES ASSUME NEW i \in 1 .. l PROVE t[i] # None
      BY DEF Whole
    <3>1. CASE i <= at
      <4>1. i \in 1 .. n /\ t[i] = s[i]
        BY <2>2, <3>1
      <4> QED BY <4>1 DEF Whole
    <3>2. CASE at < i /\ i <= at + k
      <4>1. i - at \in 1 .. m /\ t[i] = u[i - at]
        BY <2>2, <2>4, <3>2
      <4> QED BY <4>1 DEF Whole
    <3>3. CASE i > at + k
      <4>1. i - k \in 1 .. n /\ t[i] = s[i - k]
        BY <2>2, <2>4, <3>3
      <4> QED BY <4>1 DEF Whole
    <3> QED BY <2>4, <3>1, <3>2, <3>3
  <2>6. Stands(ref, t, l, src[k]) /\ ref = [at |-> ref.at, value |-> ref.value]
    BY <1>1 DEF Stands
  <2>7. f[k + 1] = Vector!InsertOne(Start(t, l, g), l, at + k, ref)
    BY <1>5, <2>1 DEF l
  <2> HIDE DEF ref
  <2>8. Lands(f[k + 1], Inserted(t, l, at + k, src[k]), l + 1)
    BY <2>1, <2>4, <2>5, <2>6, <2>7, InsertOneIs
  <2> DEFINE z == Inserted(t, l, at + k, src[k])
  <2>9. \A i \in 1 .. l + 1 : z[i] = IF i <= at + k THEN t[i] ELSE IF i = (at + k) + 1 THEN src[k] ELSE t[i - 1]
    BY DEF Inserted
  <2> HIDE DEF z
  <2>10. ASSUME NEW i \in 1 .. l + 1 PROVE z[i] = v[i]
    <3>1. CASE i <= at
      <4>1. i \in 1 .. l /\ i <= at + k
        BY <2>4, <3>1
      <4>2. z[i] = t[i] /\ t[i] = s[i] /\ v[i] = s[i]
        BY <2>2, <2>3, <2>9, <3>1, <4>1
      <4> QED BY <4>2
    <3>2. CASE at < i /\ i <= at + k
      <4>1. i \in 1 .. l /\ ~(i <= at) /\ i <= at + (k + 1)
        BY <2>4, <3>2
      <4>2. z[i] = t[i] /\ t[i] = u[i - at] /\ v[i] = u[i - at]
        BY <2>2, <2>3, <2>9, <3>2, <4>1
      <4> QED BY <4>2
    <3>3. CASE i = (at + k) + 1
      <4>1. ~(i <= at + k) /\ ~(i <= at) /\ i <= at + (k + 1) /\ i - at = k + 1
        BY <3>3
      <4>2. z[i] = src[k] /\ v[i] = u[k + 1]
        BY <2>3, <2>9, <3>3, <4>1
      <4> QED BY <1>1, <4>2
    <3>4. CASE i > (at + k) + 1
      <4>1. /\ i - 1 \in 1 .. l /\ ~(i - 1 <= at) /\ ~(i - 1 <= at + k) /\ (i - 1) - k = i - (k + 1)
            /\ ~(i <= at + k) /\ i # (at + k) + 1 /\ ~(i <= at) /\ ~(i <= at + (k + 1))
        BY <2>4, <3>4
      <4>2. z[i] = t[i - 1] /\ t[i - 1] = s[(i - 1) - k] /\ v[i] = s[i - (k + 1)]
        BY <2>2, <2>3, <2>9, <4>1
      <4> QED BY <4>1, <4>2
    <3> QED BY <2>4, <3>1, <3>2, <3>3, <3>4
  <2>11. Lands(f[k + 1], v, l + 1)
    <3>1. Lands(f[k + 1], z, l + 1)
      BY <2>8 DEF z
    <3> QED BY <2>4, <2>10, <3>1, LandsAlike
  <2> QED BY <2>4, <2>11 DEF v
<1>7. Lands(f[0], Spliced(s, n, at, u, 0), n + 0)
  <2> DEFINE t == Spliced(s, n, at, u, 0)
  <2>1. Lands(w, s, n)
    BY DEF Lands, Start
  <2>2. \A i \in 1 .. n : s[i] = t[i]
    <3>1. \A i \in 1 .. n + 0 : t[i] = IF i <= at THEN s[i] ELSE IF i <= at + 0 THEN u[i - at] ELSE s[i - 0]
      BY DEF Spliced
    <3> HIDE DEF t
    <3> QED BY <3>1
  <2> HIDE DEF w, t
  <2>3. Lands(w, t, n)
    BY <2>1, <2>2, LandsAlike
  <2> QED BY <1>5, <2>3 DEF t
<1>8. Lands(f[m], Spliced(s, n, at, u, m), n + m)
  <2> DEFINE E == {k \in Nat : k <= m => Lands(f[k], Spliced(s, n, at, u, k), n + k)}
  <2>1. 0 \in E
    BY <1>7
  <2>2. ASSUME NEW k \in Nat, k \in E PROVE k + 1 \in E
    BY <1>6, <2>2
  <2> HIDE DEF E
  <2>3. m \in E
    BY <2>1, <2>2, SetInduction
  <2> QED BY <2>3 DEF E
<1>9. QED
  BY <1>4, <1>8 DEF src

(* What a vector's storage may be: so many elements, and room behind them. *)
Kept(c, n) == \E r \in Nat : \E s \in [1 .. n -> Values] : n <= r /\ c = Stored(s, n, r)

VectorAsked == vcall # Idle => \E o \in Vectors : vcall \in Vector!Calls(o)

VectorInv == /\ sound = TRUE
             /\ count \in [Vectors -> Nat]
             /\ items = [o \in Vectors |-> items[o]]
             /\ \A o \in Vectors : Kept(items[o], count[o])
             /\ VectorAsked

(* What an argument by reference may be, to a vector of n elements.        *)
Reference(ref, n) ==
  /\ ref = [at |-> ref.at, value |-> ref.value]
  /\ ref.at \in Int /\ ref.at < n
  /\ ref.value \in Values

(* The references a program may pass are those.                            *)
LEMMA ReferenceIs ==
  ASSUME NEW o, count[o] \in Nat, NEW ref \in Vector!Refs(o)
  PROVE  Reference(ref, count[o])
BY VectorAssumption DEF Vector!Refs, Vector!Elsewhere, Vector!Inside, Reference

(* What a call may be.                                                     *)
MayAsk(q, o) ==
  /\ q # Idle /\ q.on = o
  /\ q.op = "push_back" => Reference(q.ref, count[o])
  /\ q.op = "pop_back" => count[o] > 0
  /\ q.op \in {"reserve", "resize"} => q.n \in Nat
  /\ q.op = "resize_with" => q.n \in Nat /\ Reference(q.ref, count[o])
  /\ q.op \in {"assign", "fill"} => q.n \in Nat /\ q.ref.value \in Values
  /\ q.op = "insert" => q.i \in 0 .. count[o] /\ Reference(q.ref, count[o])
  /\ q.op = "erase" => q.j \in 0 .. count[o] /\ q.i \in 0 .. q.j
  /\ q.op = "insert_all" => q.i \in 0 .. count[o] /\ q.from \in Vectors
  /\ q.op \in {"operator=", "copy"} => q.from \in Vectors
  /\ q.op = "swap" => q.from \in Vectors \ {o}
  /\ q.op # "push_front" /\ q.op # "pop_front"

(* Every call a program may make is one of those.                          *)
LEMMA VectorAskedIs ==
  ASSUME NEW o \in Vectors, count[o] \in Nat, NEW q \in Vector!Calls(o)
  PROVE  MayAsk(q, o)
<1> DEFINE n == count[o]
           Names == [at : Int, value : Values]
<1>0. Vector!Refs(o) \subseteq Names /\ Vector!Elsewhere \subseteq Names
  BY VectorAssumption DEF Vector!Refs, Vector!Elsewhere, Vector!Inside
<1>r. \A ref \in Vector!Refs(o) : Reference(ref, n)
  BY ReferenceIs
<1>e. \A ref \in Vector!Elsewhere : ref.value \in Values
  BY DEF Vector!Elsewhere
<1>m. \A i : i \in 0 .. VectorMost \/ i \in 0 .. VectorMost + 1 \/ i \in 0 .. n => i \in Nat
  OBVIOUS
<1>1. CASE q \in [op : {"push_back"}, on : {o}, ref : Vector!Refs(o)]
  <2>1. q \in [op : {"push_back"}, on : Vectors, ref : Names]
    BY <1>0, <1>1
  <2>2. q # Idle
    <3> HIDE DEF Names
    <3> QED BY <2>1, VectorAssumption DEF Names
  <2> QED BY <1>r, <1>1, <2>2 DEF MayAsk
<1>2. CASE q \in [op : {"pop_back"}, on : {o}] /\ n > 0
  <2>2. q # Idle
    BY <1>2, VectorAssumption
  <2> QED BY <1>2, <2>2 DEF MayAsk
<1>3. CASE q \in [op : {"clear", "shrink_to_fit"}, on : {o}]
  <2>2. q # Idle
    BY <1>3, VectorAssumption
  <2> QED BY <1>3, <2>2 DEF MayAsk
<1>4. CASE q \in [op : {"reserve"}, on : {o}, n : 0 .. VectorMost + 1]
  <2>2. q # Idle
    BY <1>m, <1>4, VectorAssumption
  <2> QED BY <1>m, <1>4, <2>2 DEF MayAsk
<1>5. CASE q \in [op : {"resize"}, on : {o}, n : 0 .. VectorMost]
  <2>2. q # Idle
    BY <1>m, <1>5, VectorAssumption
  <2> QED BY <1>m, <1>5, <2>2 DEF MayAsk
<1>6. CASE q \in [op : {"resize_with"}, on : {o}, n : 0 .. VectorMost, ref : Vector!Refs(o)]
  <2>1. q \in [op : {"resize_with"}, on : Vectors, n : Nat, ref : Names]
    BY <1>0, <1>m, <1>6
  <2>2. q # Idle
    BY <2>1, VectorAssumption
  <2> QED BY <1>m, <1>r, <1>6, <2>2 DEF MayAsk
<1>7. CASE q \in [op : {"assign", "fill"}, on : {o}, n : 0 .. VectorMost, ref : Vector!Elsewhere]
  <2>1. q \in [op : {"assign", "fill"}, on : Vectors, n : Nat, ref : Names]
    BY <1>0, <1>m, <1>7
  <2>2. q # Idle
    BY <2>1, VectorAssumption
  <2> QED BY <1>m, <1>e, <1>7, <2>2 DEF MayAsk
<1>8. CASE q \in [op : {"insert"}, on : {o}, i : 0 .. n, ref : Vector!Refs(o)]
  <2>1. q \in [op : {"insert"}, on : Vectors, i : Nat, ref : Names]
    BY <1>0, <1>m, <1>8
  <2>2. q # Idle
    BY <2>1, VectorAssumption
  <2> QED BY <1>r, <1>8, <2>2 DEF MayAsk
<1>9. CASE q \in [op : {"erase"}, on : {o}, i : 0 .. n, j : 0 .. n] /\ q.i <= q.j
  <2>2. q # Idle
    BY <1>m, <1>9, VectorAssumption
  <2> QED BY <1>9, <2>2 DEF MayAsk
<1>10. CASE q \in [op : {"insert_all"}, on : {o}, i : 0 .. n, from : Vectors \ {o}]
  <2>2. q # Idle
    BY <1>m, <1>10, VectorAssumption
  <2> QED BY <1>10, <2>2 DEF MayAsk
<1>11. CASE q \in [op : {"operator="}, on : {o}, from : Vectors]
  <2>2. q # Idle
    BY <1>11, VectorAssumption
  <2> QED BY <1>11, <2>2 DEF MayAsk
<1>12. CASE q \in [op : {"copy", "swap"}, on : {o}, from : Vectors \ {o}]
  <2>2. q # Idle
    BY <1>12, VectorAssumption
  <2> QED BY <1>12, <2>2 DEF MayAsk
<1>13. QED
  BY <1>1, <1>2, <1>3, <1>4, <1>5, <1>6, <1>7, <1>8, <1>9, <1>10, <1>11, <1>12 DEF Vector!Calls

(* The vector a call is made on.                                           *)
LEMMA VectorOn == VectorInv /\ vcall # Idle => vcall.on \in Vectors /\ MayAsk(vcall, vcall.on)
<1> SUFFICES ASSUME VectorInv, vcall # Idle PROVE vcall.on \in Vectors /\ MayAsk(vcall, vcall.on)
  OBVIOUS
<1>1. PICK o \in Vectors : vcall \in Vector!Calls(o)
  BY DEF VectorInv, VectorAsked
<1>2. MayAsk(vcall, o)
  BY <1>1, VectorAskedIs DEF VectorInv
<1>3. vcall.on = o
  BY <1>2 DEF MayAsk
<1>4. QED
  BY <1>2, <1>3

(* The sequence a vector holds.                                            *)
LEMMA ContentsOf ==
  ASSUME NEW c, NEW n \in Nat, NEW r \in Nat, n <= r, NEW s \in [1 .. n -> Values], c = Stored(s, n, r)
  PROVE  [i \in 1 .. n |-> c[i - 1]] = s
<1>1. ASSUME NEW i \in 1 .. n PROVE c[i - 1] = s[i]
  <2>1. i - 1 \in 0 .. r - 1 /\ i - 1 < n /\ (i - 1) + 1 = i
    OBVIOUS
  <2>2. Stored(s, n, r)[i - 1] = s[(i - 1) + 1]
    BY <2>1, StoreAt
  <2> QED BY <2>1, <2>2
<1>2. QED
  BY <1>1

(* The first elements of a sequence, and those after them.                 *)
LEMMA BeforeIs ==
  ASSUME NEW s, NEW n, Numbered(s, n), NEW b \in 0 .. n
  PROVE  SubSeq(s, 1, b) = [i \in 1 .. b |-> s[i]]
<1>0. n \in Nat /\ 1 \in 1 .. n + 1
  BY DEF Numbered
<1>1. SubSeq(s, 1, b) = [i \in 1 .. (IF 1 <= b THEN b - 1 + 1 ELSE 0) |-> s[1 + i - 1]]
  BY <1>0, SubSeqIs
<1>2. (IF 1 <= b THEN b - 1 + 1 ELSE 0) = b
  BY <1>0
<1>3. \A i \in 1 .. b : 1 + i - 1 = i
  BY <1>0
<1>4. QED
  BY <1>1, <1>2, <1>3

(* The elements from a position to the end.                                *)
LEMMA FromIs ==
  ASSUME NEW s, NEW n, Numbered(s, n), Len(s) = n, NEW b \in 0 .. n
  PROVE  SubSeq(s, b + 1, Len(s)) = [i \in 1 .. n - b |-> s[b + i]]
<1>0. n \in Nat /\ b + 1 \in 1 .. n + 1 /\ n \in 0 .. n
  BY DEF Numbered
<1>1. SubSeq(s, b + 1, n) = [i \in 1 .. (IF b + 1 <= n THEN n - (b + 1) + 1 ELSE 0) |-> s[(b + 1) + i - 1]]
  BY <1>0, SubSeqIs
<1>2. (IF b + 1 <= n THEN n - (b + 1) + 1 ELSE 0) = n - b
  BY <1>0
<1>3. \A i \in 1 .. n - b : (b + 1) + i - 1 = b + i
  BY <1>0
<1>4. QED
  BY <1>1, <1>2, <1>3

(* A sequence with another put in before a position, and with a part gone. *)
LEMMA SplicedIs ==
  ASSUME NEW s, NEW n, Numbered(s, n), Len(s) = n, NEW at \in 0 .. n, NEW u, NEW m, Numbered(u, m)
  PROVE  SubSeq(s, 1, at) \o u \o SubSeq(s, at + 1, Len(s)) = Spliced(s, n, at, u, m)
<1> DEFINE a == SubSeq(s, 1, at)
           b == SubSeq(s, at + 1, Len(s))
           au == a \o u
           t == Spliced(s, n, at, u, m)
<1>0. n \in Nat /\ m \in Nat
  BY DEF Numbered
<1>1. a = [i \in 1 .. at |-> s[i]]
  BY BeforeIs
<1>2. b = [i \in 1 .. n - at |-> s[at + i]]
  BY FromIs
<1> HIDE DEF a, b
<1>3. Numbered(a, at) /\ Numbered(b, n - at)
  BY <1>0, <1>1, <1>2 DEF Numbered
<1>4. au = [i \in 1 .. at + m |-> IF i <= at THEN a[i] ELSE u[i - at]]
  BY <1>3, ConcatIs
<1> HIDE DEF au
<1>5. Numbered(au, at + m)
  BY <1>0, <1>4 DEF Numbered
<1>6. au \o b = [i \in 1 .. (at + m) + (n - at) |-> IF i <= at + m THEN au[i] ELSE b[i - (at + m)]]
  BY <1>3, <1>5, ConcatIs
<1>7. (at + m) + (n - at) = n + m
  BY <1>0
<1>8. ASSUME NEW i \in 1 .. n + m
      PROVE  (IF i <= at + m THEN au[i] ELSE b[i - (at + m)])
               = (IF i <= at THEN s[i] ELSE IF i <= at + m THEN u[i - at] ELSE s[i - m])
  <2>1. CASE i <= at
    BY <1>0, <1>1, <1>4, <2>1
  <2>2. CASE at < i /\ i <= at + m
    BY <1>0, <1>4, <2>2
  <2>3. CASE i > at + m
    <3>1. i - (at + m) \in 1 .. n - at /\ at + (i - (at + m)) = i - m /\ ~(i <= at) /\ ~(i <= at + m)
      BY <1>0, <2>3
    <3>2. b[i - (at + m)] = s[at + (i - (at + m))]
      BY <1>2, <3>1
    <3> QED BY <3>1, <3>2
  <2> QED BY <1>0, <2>1, <2>2, <2>3
<1>9. au \o b = t
  BY <1>6, <1>7, <1>8 DEF Spliced
<1>10. QED
  BY <1>9 DEF au, a, b

(* Those before a range and those after it are the sequence without it.    *)
LEMMA WithoutRangeIs ==
  ASSUME NEW s, NEW n, Numbered(s, n), Len(s) = n, NEW j \in 0 .. n, NEW i \in 0 .. j
  PROVE  SubSeq(s, 1, i) \o SubSeq(s, j + 1, Len(s)) = Without(s, n, i, j)
<1> DEFINE a == SubSeq(s, 1, i)
           b == SubSeq(s, j + 1, Len(s))
<1>0. n \in Nat /\ i \in 0 .. n
  BY DEF Numbered
<1>1. a = [k \in 1 .. i |-> s[k]]
  BY <1>0, BeforeIs
<1>2. b = [k \in 1 .. n - j |-> s[j + k]]
  BY FromIs
<1> HIDE DEF a, b
<1>3. Numbered(a, i) /\ Numbered(b, n - j)
  BY <1>0, <1>1, <1>2 DEF Numbered
<1>4. a \o b = [k \in 1 .. i + (n - j) |-> IF k <= i THEN a[k] ELSE b[k - i]]
  BY <1>3, ConcatIs
<1>5. i + (n - j) = n - (j - i)
  BY <1>0
<1>6. ASSUME NEW k \in 1 .. n - (j - i)
      PROVE  (IF k <= i THEN a[k] ELSE b[k - i]) = (IF k <= i THEN s[k] ELSE s[k + (j - i)])
  <2>1. CASE k <= i
    BY <1>0, <1>1, <2>1
  <2>2. CASE k > i
    <3>1. k - i \in 1 .. n - j /\ j + (k - i) = k + (j - i)
      BY <1>0, <2>2
    <3>2. b[k - i] = s[j + (k - i)]
      BY <1>2, <3>1
    <3> QED BY <1>0, <2>2, <3>1, <3>2
  <2> QED BY <1>0, <2>1, <2>2
<1>7. a \o b = Without(s, n, i, j)
  BY <1>4, <1>5, <1>6 DEF Without
<1>8. QED
  BY <1>7 DEF a, b

(* What C++ says of each call.                                             *)
LEMMA VectorMeanings ==
  ASSUME NEW q, NEW s, s = Vector!Contents[q.on]
  PROVE  /\ q.op = "push_back" => Vector!Promise!Meaning(q) = Append(s, Vector!Promise!Named(s, q.ref))
         /\ q.op = "pop_back" => Vector!Promise!Meaning(q) = SubSeq(s, 1, Len(s) - 1)
         /\ q.op = "clear" => Vector!Promise!Meaning(q) = <<>>
         /\ q.op = "resize" => Vector!Promise!Meaning(q) = Vector!Promise!Resized(s, q.n, Zero)
         /\ q.op = "resize_with" => Vector!Promise!Meaning(q) = Vector!Promise!Resized(s, q.n, Vector!Promise!Named(s, q.ref))
         /\ q.op \in {"assign", "fill"} => Vector!Promise!Meaning(q) = [i \in 1 .. q.n |-> q.ref.value]
         /\ q.op = "insert" => Vector!Promise!Meaning(q) = SubSeq(s, 1, q.i) \o <<Vector!Promise!Named(s, q.ref)>> \o SubSeq(s, q.i + 1, Len(s))
         /\ q.op = "insert_all" => Vector!Promise!Meaning(q) = SubSeq(s, 1, q.i) \o Vector!Contents[q.from] \o SubSeq(s, q.i + 1, Len(s))
         /\ q.op = "erase" => Vector!Promise!Meaning(q) = SubSeq(s, 1, q.i) \o SubSeq(s, q.j + 1, Len(s))
         /\ q.op \in {"operator=", "copy", "swap"} => Vector!Promise!Meaning(q) = Vector!Contents[q.from]
         /\ q.op \in {"reserve", "shrink_to_fit"} => Vector!Promise!Meaning(q) = s
<1> HIDE DEF Vector!Contents
<1> USE DEF Vector!Promise!Meaning
<1>1. q.op = "push_back" => Vector!Promise!Meaning(q) = Append(s, Vector!Promise!Named(s, q.ref))
  OBVIOUS
<1>2. q.op = "pop_back" => Vector!Promise!Meaning(q) = SubSeq(s, 1, Len(s) - 1)
  BY DEF Vector!Promise!Before
<1>3. q.op = "clear" => Vector!Promise!Meaning(q) = <<>>
  OBVIOUS
<1>4. q.op = "resize" => Vector!Promise!Meaning(q) = Vector!Promise!Resized(s, q.n, Zero)
  OBVIOUS
<1>5. q.op = "resize_with" => Vector!Promise!Meaning(q) = Vector!Promise!Resized(s, q.n, Vector!Promise!Named(s, q.ref))
  OBVIOUS
<1>6. q.op \in {"assign", "fill"} => Vector!Promise!Meaning(q) = [i \in 1 .. q.n |-> q.ref.value]
  BY DEF Vector!Promise!Copies
<1>7. q.op = "insert" => Vector!Promise!Meaning(q) = SubSeq(s, 1, q.i) \o <<Vector!Promise!Named(s, q.ref)>> \o SubSeq(s, q.i + 1, Len(s))
  BY DEF Vector!Promise!Before, Vector!Promise!From
<1>8. q.op = "insert_all" => Vector!Promise!Meaning(q) = SubSeq(s, 1, q.i) \o Vector!Contents[q.from] \o SubSeq(s, q.i + 1, Len(s))
  BY DEF Vector!Promise!Before, Vector!Promise!From
<1>9. q.op = "erase" => Vector!Promise!Meaning(q) = SubSeq(s, 1, q.i) \o SubSeq(s, q.j + 1, Len(s))
  BY DEF Vector!Promise!Before, Vector!Promise!From
<1>10. q.op \in {"operator=", "copy", "swap"} => Vector!Promise!Meaning(q) = Vector!Contents[q.from]
  OBVIOUS
<1>11. q.op \in {"reserve", "shrink_to_fit"} => Vector!Promise!Meaning(q) = s
  OBVIOUS
<1> HIDE DEF Vector!Promise!Meaning
<1>12. QED
  BY <1>1, <1>2, <1>3, <1>4, <1>5, <1>6, <1>7, <1>8, <1>9, <1>10, <1>11

(* What is known of one vector: its elements are in its first cells.       *)
LEMMA VectorHolds ==
  ASSUME VectorInv, NEW o \in Vectors
  PROVE  /\ count[o] \in Nat
         /\ Vector!Contents[o] \in [1 .. count[o] -> Values]
         /\ \E r \in Nat : count[o] <= r /\ items[o] = Stored(Vector!Contents[o], count[o], r)
<1>1. count[o] \in Nat
  BY DEF VectorInv
<1>2. PICK r \in Nat, s \in [1 .. count[o] -> Values] : count[o] <= r /\ items[o] = Stored(s, count[o], r)
  BY DEF VectorInv, Kept
<1>3. Vector!Contents[o] = [i \in 1 .. count[o] |-> items[o][i - 1]]
  BY DEF Vector!Contents
<1>4. [i \in 1 .. count[o] |-> items[o][i - 1]] = s
  BY <1>1, <1>2, ContentsOf
<1>5. Vector!Contents[o] = s
  BY <1>3, <1>4
<1>6. QED
  BY <1>1, <1>2, <1>5

(* A sequence of values has nothing raw in it, and its length is its       *)
(* count.                                                                  *)
LEMMA ElementsAre ==
  ASSUME NEW n \in Nat, NEW s \in [1 .. n -> Values]
  PROVE  Whole(s, n) /\ Numbered(s, n) /\ Len(s) = n
BY VectorAssumption DEF Whole, Numbered

(* A call that leaves one vector with the elements C++ says it has.        *)
LEMMA VectorPerforms ==
  ASSUME VectorInv, vcall # Idle, vcall.op # "swap", NEW m \in Nat, NEW t \in [1 .. m -> Values],
         NEW w, Lands(w, t, m), Vector!Done(w, m), Vector!Promise!Meaning(vcall) = t
  PROVE  VectorInv' /\ Vector!Promise!Next
<1> DEFINE o == vcall.on
<1>1. o \in Vectors
  BY VectorOn
<1>2. /\ items' = [items EXCEPT ![o] = w.old] /\ count' = [count EXCEPT ![o] = m]
      /\ sound' = (sound /\ w.ok) /\ vcall' = Idle
  BY DEF Vector!Done
<1> HIDE DEF o
<1>3. PICK r \in Nat : m <= r /\ w = Work(Stored(t, m, r), <<>>)
  BY DEF Lands
<1>4. w.old = Stored(t, m, r) /\ w.ok = TRUE
  BY <1>3 DEF Work
<1>5. sound' = TRUE
  BY <1>2, <1>4 DEF VectorInv
<1>6. count' \in [Vectors -> Nat] /\ items' = [p \in Vectors |-> items'[p]]
  BY <1>1, <1>2 DEF VectorInv
<1>7. /\ items'[o] = Stored(t, m, r) /\ count'[o] = m
      /\ \A p \in Vectors \ {o} : items'[p] = items[p] /\ count'[p] = count[p]
  BY <1>1, <1>2, <1>4 DEF VectorInv
<1>8. \A p \in Vectors : Kept(items'[p], count'[p])
  <2> TAKE p \in Vectors
  <2>1. CASE p = o
    BY <1>3, <1>7, <2>1 DEF Kept
  <2>2. CASE p # o
    BY <1>7, <2>2 DEF VectorInv
  <2> QED BY <2>1, <2>2
<1>9. VectorInv'
  BY <1>2, <1>5, <1>6, <1>8 DEF VectorInv, VectorAsked
<1>10. Vector!Contents' = [p \in Vectors |-> IF p = o THEN t ELSE Vector!Contents[p]]
  <2>1. Vector!Contents' = [p \in Vectors |-> [i \in 1 .. count'[p] |-> items'[p][i - 1]]]
    BY DEF Vector!Contents
  <2>2. [i \in 1 .. m |-> Stored(t, m, r)[i - 1]] = t
    BY <1>3, ContentsOf
  <2>3. \A p \in Vectors \ {o} : Vector!Contents[p] = [i \in 1 .. count[p] |-> items[p][i - 1]]
    BY DEF Vector!Contents
  <2>4. ASSUME NEW p \in Vectors
        PROVE  [i \in 1 .. count'[p] |-> items'[p][i - 1]] = IF p = o THEN t ELSE Vector!Contents[p]
    <3>1. CASE p = o
      BY <1>7, <2>2, <3>1
    <3>2. CASE p # o
      <4>1. items'[p] = items[p] /\ count'[p] = count[p] /\ p \in Vectors \ {o}
        BY <1>7, <3>2
      <4> QED BY <2>3, <3>2, <4>1
    <3> QED BY <3>1, <3>2
  <2> QED BY <2>1, <2>4
<1>11. Vector!Promise!Perform
  <2> HIDE DEF Vector!Contents, Vector!Promise!Meaning
  <2>1. ASSUME NEW p \in Vectors
        PROVE  (IF p = o THEN t ELSE Vector!Contents[p])
                 = IF p = vcall.on THEN Vector!Promise!Meaning(vcall)
                   ELSE IF vcall.op = "swap" /\ p = vcall.from THEN Vector!Contents[vcall.on]
                   ELSE Vector!Contents[p]
    BY DEF o
  <2>2. Vector!Contents' = [p \in Vectors |->
                              IF p = vcall.on THEN Vector!Promise!Meaning(vcall)
                              ELSE IF vcall.op = "swap" /\ p = vcall.from THEN Vector!Contents[vcall.on]
                              ELSE Vector!Contents[p]]
    BY <1>10, <2>1
  <2> QED BY <1>2, <2>2, Zenon DEF Vector!Promise!Perform
<1>12. QED
  BY <1>9, <1>11 DEF Vector!Promise!Next

(* An argument by reference stands for what C++ says it does.              *)
LEMMA ReferenceStands ==
  ASSUME NEW n \in Nat, NEW s \in [1 .. n -> Values], NEW ref, Reference(ref, n)
  PROVE  /\ Stands(ref, s, n, Vector!Promise!Named(s, ref))
         /\ Vector!Promise!Named(s, ref) \in Values
<1> DEFINE x == Vector!Promise!Named(s, ref)
<1>1. x = IF ref.at >= 0 THEN s[ref.at + 1] ELSE ref.value
  BY DEF Vector!Promise!Named
<1>2. ref.at \in Int /\ ref.at < n /\ ref.value \in Values
  BY DEF Reference
<1> HIDE DEF x
<1>3. CASE ref.at >= 0
  <2>1. ref.at + 1 \in 1 .. n /\ x = s[ref.at + 1]
    BY <1>1, <1>2, <1>3
  <2>2. x \in Values
    BY <2>1
  <2> QED BY <1>2, <1>3, <2>1, <2>2, VectorAssumption DEF Stands, x
<1>4. CASE ref.at < 0
  <2>1. x = ref.value
    BY <1>1, <1>2, <1>4
  <2> QED BY <1>2, <1>4, <2>1, VectorAssumption DEF Stands, x
<1>5. QED
  BY <1>2, <1>3, <1>4

(* The work a call finds.                                                  *)
LEMMA VectorWorks ==
  ASSUME VectorInv, vcall # Idle, NEW o, o = vcall.on
  PROVE  /\ o \in Vectors /\ MayAsk(vcall, o)
         /\ count[o] \in Nat /\ Vector!n0 = count[o]
         /\ Vector!Contents[o] \in [1 .. count[o] -> Values]
         /\ \E r \in Nat : count[o] <= r /\ Vector!w0 = Start(Vector!Contents[o], count[o], r)
<1>1. o \in Vectors /\ MayAsk(vcall, o)
  BY VectorOn
<1>2. /\ count[o] \in Nat
      /\ Vector!Contents[o] \in [1 .. count[o] -> Values]
      /\ \E r \in Nat : count[o] <= r /\ items[o] = Stored(Vector!Contents[o], count[o], r)
  BY <1>1, VectorHolds
<1>3. Vector!n0 = count[o] /\ Vector!w0 = Work(items[o], <<>>)
  BY DEF Vector!n0, Vector!w0, Vector!Found, Work
<1> HIDE DEF Vector!Contents
<1>4. QED
  BY <1>1, <1>2, <1>3 DEF Start

(* push_back appends.                                                      *)
LEMMA VectorPushBack == ASSUME VectorInv, Vector!push_back PROVE VectorInv' /\ Vector!Promise!Next
<1> DEFINE o == vcall.on
           n == count[o]
           s == Vector!Contents[o]
<1>1. vcall # Idle /\ vcall.op = "push_back"
  BY DEF Vector!push_back, Vector!Making
<1>2. o \in Vectors /\ MayAsk(vcall, o) /\ n \in Nat /\ Vector!n0 = n /\ s \in [1 .. n -> Values]
  BY <1>1, VectorWorks
<1>3. PICK r \in Nat : n <= r /\ Vector!w0 = Start(s, n, r)
  BY <1>1, VectorWorks
<1>4. Whole(s, n) /\ Numbered(s, n) /\ Len(s) = n
  BY <1>2, ElementsAre
<1>5. s = Vector!Contents[vcall.on]
  OBVIOUS
<1> HIDE DEF n, s, o
<1> DEFINE x == Vector!Promise!Named(s, vcall.ref)
<1>x. Stands(vcall.ref, s, n, x) /\ x \in Values
  <2>1. Reference(vcall.ref, n)
    BY <1>1, <1>2 DEF MayAsk, n
  <2> QED BY <1>2, <2>1, ReferenceStands
<1> HIDE DEF x
<1> DEFINE m == n + 1
           t == OneMore(s, n, x)
           w == Vector!PushBack(Vector!w0, n, vcall.ref)
<1>6. m \in Nat /\ t \in [1 .. m -> Values]
  BY <1>2, <1>x DEF OneMore
<1>7. Lands(w, t, m)
  BY <1>2, <1>3, <1>4, <1>x, VectorPushBackIs
<1>8. Vector!Promise!Meaning(vcall) = t
  <2>1. Vector!Promise!Meaning(vcall) = Append(s, x)
    BY <1>1, <1>5, VectorMeanings DEF x
  <2>2. \A y : Append(s, y) = [i \in 1 .. n + 1 |-> IF i <= n THEN s[i] ELSE y]
    BY <1>4, AppendIs
  <2>3. Append(s, x) = [i \in 1 .. n + 1 |-> IF i <= n THEN s[i] ELSE x]
    BY <2>2
  <2> QED BY <2>1, <2>3 DEF OneMore
<1>9. Vector!Done(w, m)
  BY <1>2, <1>3 DEF Vector!push_back
<1> HIDE DEF m, t, w
<1>10. QED
  BY <1>1, <1>6, <1>7, <1>8, <1>9, VectorPerforms

(* pop_back takes the last away.                                           *)
LEMMA VectorPopBack == ASSUME VectorInv, Vector!pop_back PROVE VectorInv' /\ Vector!Promise!Next
<1> DEFINE o == vcall.on
           n == count[o]
           s == Vector!Contents[o]
<1>1. vcall # Idle /\ vcall.op = "pop_back"
  BY DEF Vector!pop_back, Vector!Making
<1>2. o \in Vectors /\ MayAsk(vcall, o) /\ n \in Nat /\ Vector!n0 = n /\ s \in [1 .. n -> Values]
  BY <1>1, VectorWorks
<1>3. PICK r \in Nat : n <= r /\ Vector!w0 = Start(s, n, r)
  BY <1>1, VectorWorks
<1>4. Whole(s, n) /\ Numbered(s, n) /\ Len(s) = n
  BY <1>2, ElementsAre
<1>5. s = Vector!Contents[vcall.on]
  OBVIOUS
<1> HIDE DEF n, s, o
<1>p. n > 0
  BY <1>1, <1>2 DEF MayAsk, n
<1> DEFINE m == n - 1
           t == [i \in 1 .. n - 1 |-> s[i]]
           w == Vector!Apart(Vector!w0, "old", n - 1)
<1>6. m \in Nat /\ t \in [1 .. m -> Values]
  BY <1>2, <1>p
<1>7. Lands(w, t, m)
  <2>1. w = Start(s, n - 1, r)
    BY <1>2, <1>3, <1>4, <1>p, PopIs
  <2>2. n - 1 \in Nat /\ n - 1 <= r
    BY <1>2, <1>3, <1>p
  <2>3. Lands(w, s, n - 1)
    BY <2>1, <2>2 DEF Lands, Start
  <2>4. \A i \in 1 .. n - 1 : s[i] = t[i]
    OBVIOUS
  <2> HIDE DEF w, t
  <2> QED BY <2>2, <2>3, <2>4, LandsAlike DEF m
<1>8. Vector!Promise!Meaning(vcall) = t
  <2>1. Vector!Promise!Meaning(vcall) = SubSeq(s, 1, n - 1)
    BY <1>1, <1>4, <1>5, VectorMeanings
  <2>2. n - 1 \in 0 .. n
    BY <1>2, <1>p
  <2>3. SubSeq(s, 1, n - 1) = [i \in 1 .. n - 1 |-> s[i]]
    BY <1>4, <2>2, BeforeIs
  <2> QED BY <2>1, <2>3
<1>9. Vector!Done(w, m)
  BY <1>2, <1>3 DEF Vector!pop_back
<1> HIDE DEF m, t, w
<1>10. QED
  BY <1>1, <1>6, <1>7, <1>8, <1>9, VectorPerforms

(* clear leaves nothing.                                                   *)
LEMMA VectorClears == ASSUME VectorInv, Vector!clear PROVE VectorInv' /\ Vector!Promise!Next
<1> DEFINE o == vcall.on
           n == count[o]
           s == Vector!Contents[o]
<1>1. vcall # Idle /\ vcall.op = "clear"
  BY DEF Vector!clear, Vector!Making
<1>2. o \in Vectors /\ MayAsk(vcall, o) /\ n \in Nat /\ Vector!n0 = n /\ s \in [1 .. n -> Values]
  BY <1>1, VectorWorks
<1>3. PICK r \in Nat : n <= r /\ Vector!w0 = Start(s, n, r)
  BY <1>1, VectorWorks
<1>4. Whole(s, n) /\ Numbered(s, n) /\ Len(s) = n
  BY <1>2, ElementsAre
<1>5. s = Vector!Contents[vcall.on]
  OBVIOUS
<1> HIDE DEF n, s, o
<1> DEFINE m == 0
           t == <<>>
           w == Vector!DestroyDown(Vector!w0, n, 0)
<1>6. m \in Nat /\ t \in [1 .. m -> Values]
  <2>1. 1 .. 0 = {}
    OBVIOUS
  <2> QED BY <2>1
<1>7. Lands(w, t, m)
  <2>1. w = Start(s, 0, r)
    BY <1>2, <1>3, <1>4, CutIs
  <2>2. Lands(w, s, 0)
    BY <2>1 DEF Lands, Start
  <2>3. \A i \in 1 .. 0 : s[i] = t[i]
    OBVIOUS
  <2> HIDE DEF w, t
  <2> QED BY <2>2, <2>3, LandsAlike DEF m
<1>8. Vector!Promise!Meaning(vcall) = t
  BY <1>1, <1>5, VectorMeanings
<1>9. Vector!Done(w, m)
  BY <1>2, <1>3 DEF Vector!clear
<1> HIDE DEF m, t, w
<1>10. QED
  BY <1>1, <1>6, <1>7, <1>8, <1>9, VectorPerforms

(* shrink_to_fit and reserve leave the elements as they are.               *)
LEMMA VectorShrinks == ASSUME VectorInv, Vector!shrink_to_fit PROVE VectorInv' /\ Vector!Promise!Next
<1> DEFINE o == vcall.on
           n == count[o]
           s == Vector!Contents[o]
<1>1. vcall # Idle /\ vcall.op = "shrink_to_fit"
  BY DEF Vector!shrink_to_fit, Vector!Making
<1>2. o \in Vectors /\ MayAsk(vcall, o) /\ n \in Nat /\ Vector!n0 = n /\ s \in [1 .. n -> Values]
  BY <1>1, VectorWorks
<1>3. PICK r \in Nat : n <= r /\ Vector!w0 = Start(s, n, r)
  BY <1>1, VectorWorks
<1>4. Whole(s, n) /\ Numbered(s, n) /\ Len(s) = n
  BY <1>2, ElementsAre
<1>5. s = Vector!Contents[vcall.on]
  OBVIOUS
<1> HIDE DEF n, s, o
<1> DEFINE m == n
           t == s
           w == Vector!ShrinkToFit(Vector!w0, n)
<1>6. m \in Nat /\ t \in [1 .. m -> Values]
  BY <1>2
<1>7. Lands(w, t, m)
  BY <1>2, <1>3, <1>4, ShrinkIs
<1>8. Vector!Promise!Meaning(vcall) = t
  BY <1>1, <1>5, VectorMeanings
<1>9. Vector!Done(w, m)
  BY <1>2, <1>3 DEF Vector!shrink_to_fit
<1> HIDE DEF m, t, w
<1>10. QED
  BY <1>1, <1>6, <1>7, <1>8, <1>9, VectorPerforms

(* reserve.                                                                *)
LEMMA VectorReserves == ASSUME VectorInv, Vector!reserve PROVE VectorInv' /\ Vector!Promise!Next
<1> DEFINE o == vcall.on
           n == count[o]
           s == Vector!Contents[o]
<1>1. vcall # Idle /\ vcall.op = "reserve"
  BY DEF Vector!reserve, Vector!Making
<1>2. o \in Vectors /\ MayAsk(vcall, o) /\ n \in Nat /\ Vector!n0 = n /\ s \in [1 .. n -> Values]
  BY <1>1, VectorWorks
<1>3. PICK r \in Nat : n <= r /\ Vector!w0 = Start(s, n, r)
  BY <1>1, VectorWorks
<1>4. Whole(s, n) /\ Numbered(s, n) /\ Len(s) = n
  BY <1>2, ElementsAre
<1>5. s = Vector!Contents[vcall.on]
  OBVIOUS
<1> HIDE DEF n, s, o
<1>k. vcall.n \in Nat
  BY <1>1, <1>2 DEF MayAsk
<1> DEFINE m == n
           t == s
           w == Vector!Reserve(Vector!w0, n, vcall.n)
<1>6. m \in Nat /\ t \in [1 .. m -> Values]
  BY <1>2
<1>7. Lands(w, t, m)
  <2>0. \E g \in Nat : n <= g /\ vcall.n <= g /\ Vector!Reserve(Start(s, n, r), n, vcall.n) = Start(s, n, g)
    BY <1>2, <1>3, <1>4, <1>k, ReserveIs
  <2>1. PICK g \in Nat : n <= g /\ w = Start(s, n, g)
    BY <1>3, <2>0
  <2> QED BY <2>1 DEF Lands, Start
<1>8. Vector!Promise!Meaning(vcall) = t
  BY <1>1, <1>5, VectorMeanings
<1>9. Vector!Done(w, m)
  BY <1>2, <1>3 DEF Vector!reserve
<1> HIDE DEF m, t, w
<1>10. QED
  BY <1>1, <1>6, <1>7, <1>8, <1>9, VectorPerforms

(* resize, as C++ says it.                                                 *)
LEMMA ResizedIs ==
  ASSUME NEW n \in Nat, NEW s, Numbered(s, n), Len(s) = n, NEW m \in Nat, NEW x
  PROVE  Vector!Promise!Resized(s, m, x) = Topped(s, n, m, x)
<1>1. CASE m <= n
  <2>1. Vector!Promise!Resized(s, m, x) = SubSeq(s, 1, m)
    BY <1>1 DEF Vector!Promise!Resized, Vector!Promise!Before
  <2>2. SubSeq(s, 1, m) = [i \in 1 .. m |-> s[i]]
    BY <1>1, BeforeIs
  <2>3. \A i \in 1 .. m : i <= n
    BY <1>1
  <2>4. [i \in 1 .. m |-> s[i]] = [i \in 1 .. m |-> IF i <= n THEN s[i] ELSE x]
    BY <2>3
  <2> QED BY <2>1, <2>2, <2>4 DEF Topped
<1>2. CASE m > n
  <2> DEFINE d == m - n
             c == [i \in 1 .. d |-> x]
  <2>1. Vector!Promise!Resized(s, m, x) = s \o c
    BY <1>2 DEF Vector!Promise!Resized, Vector!Promise!Copies
  <2>2. Numbered(c, d) /\ \A i \in 1 .. d : c[i] = x
    BY <1>2 DEF Numbered
  <2>4. n + d = m
    BY <1>2
  <2> HIDE DEF c, d
  <2>3. s \o c = [i \in 1 .. n + d |-> IF i <= n THEN s[i] ELSE c[i - n]]
    BY <2>2, ConcatIs
  <2>5. \A i \in 1 .. m : (IF i <= n THEN s[i] ELSE c[i - n]) = (IF i <= n THEN s[i] ELSE x)
    BY <2>2, <2>4 DEF Numbered
  <2> QED BY <2>1, <2>3, <2>4, <2>5 DEF Topped
<1>3. QED
  BY <1>1, <1>2

(* resize cuts, or adds elements built from nothing.                       *)
LEMMA VectorResizes == ASSUME VectorInv, Vector!resize PROVE VectorInv' /\ Vector!Promise!Next
<1> DEFINE o == vcall.on
           n == count[o]
           s == Vector!Contents[o]
<1>1. vcall # Idle /\ vcall.op = "resize"
  BY DEF Vector!resize, Vector!Making
<1>2. o \in Vectors /\ MayAsk(vcall, o) /\ n \in Nat /\ Vector!n0 = n /\ s \in [1 .. n -> Values]
  BY <1>1, VectorWorks
<1>3. PICK r \in Nat : n <= r /\ Vector!w0 = Start(s, n, r)
  BY <1>1, VectorWorks
<1>4. Whole(s, n) /\ Numbered(s, n) /\ Len(s) = n
  BY <1>2, ElementsAre
<1>5. s = Vector!Contents[vcall.on]
  OBVIOUS
<1> HIDE DEF n, s, o
<1>k. vcall.n \in Nat
  BY <1>1, <1>2 DEF MayAsk
<1>x. Stands([at |-> -1, value |-> Zero], s, n, Zero) /\ Zero \in Values
  BY VectorAssumption DEF Stands
<1> DEFINE m == vcall.n
           t == Topped(s, n, vcall.n, Zero)
           w == Vector!Resize(Vector!w0, n, vcall.n, [at |-> -1, value |-> Zero])
<1>6. m \in Nat /\ t \in [1 .. m -> Values]
  BY <1>2, <1>k, <1>x DEF Topped
<1>7. Lands(w, t, m)
  BY <1>2, <1>3, <1>4, <1>k, <1>x, ResizeIs
<1>8. Vector!Promise!Meaning(vcall) = t
  <2>1. Vector!Promise!Meaning(vcall) = Vector!Promise!Resized(s, vcall.n, Zero)
    BY <1>1, <1>5, VectorMeanings
  <2>2. Vector!Promise!Resized(s, vcall.n, Zero) = t
    BY <1>2, <1>4, <1>k, ResizedIs
  <2> QED BY <2>1, <2>2
<1>9. Vector!Done(w, m)
  BY <1>2, <1>3 DEF Vector!resize
<1> HIDE DEF m, t, w
<1>10. QED
  BY <1>1, <1>6, <1>7, <1>8, <1>9, VectorPerforms

(* resize cuts, or adds copies of a value.                                 *)
LEMMA VectorResizesWith == ASSUME VectorInv, Vector!resize_with PROVE VectorInv' /\ Vector!Promise!Next
<1> DEFINE o == vcall.on
           n == count[o]
           s == Vector!Contents[o]
<1>1. vcall # Idle /\ vcall.op = "resize_with"
  BY DEF Vector!resize_with, Vector!Making
<1>2. o \in Vectors /\ MayAsk(vcall, o) /\ n \in Nat /\ Vector!n0 = n /\ s \in [1 .. n -> Values]
  BY <1>1, VectorWorks
<1>3. PICK r \in Nat : n <= r /\ Vector!w0 = Start(s, n, r)
  BY <1>1, VectorWorks
<1>4. Whole(s, n) /\ Numbered(s, n) /\ Len(s) = n
  BY <1>2, ElementsAre
<1>5. s = Vector!Contents[vcall.on]
  OBVIOUS
<1> HIDE DEF n, s, o
<1>k. vcall.n \in Nat
  BY <1>1, <1>2 DEF MayAsk
<1> DEFINE x == Vector!Promise!Named(s, vcall.ref)
<1>x. Stands(vcall.ref, s, n, x) /\ x \in Values
  <2>1. Reference(vcall.ref, n)
    BY <1>1, <1>2 DEF MayAsk, n
  <2> QED BY <1>2, <2>1, ReferenceStands
<1> HIDE DEF x
<1> DEFINE m == vcall.n
           t == Topped(s, n, vcall.n, x)
           w == Vector!Resize(Vector!w0, n, vcall.n, vcall.ref)
<1>6. m \in Nat /\ t \in [1 .. m -> Values]
  BY <1>2, <1>k, <1>x DEF Topped
<1>7. Lands(w, t, m)
  BY <1>2, <1>3, <1>4, <1>k, <1>x, ResizeIs
<1>8. Vector!Promise!Meaning(vcall) = t
  <2>1. Vector!Promise!Meaning(vcall) = Vector!Promise!Resized(s, vcall.n, x)
    BY <1>1, <1>5, VectorMeanings DEF x
  <2>2. Vector!Promise!Resized(s, vcall.n, x) = t
    BY <1>2, <1>4, <1>k, ResizedIs
  <2> QED BY <2>1, <2>2
<1>9. Vector!Done(w, m)
  BY <1>2, <1>3 DEF Vector!resize_with
<1> HIDE DEF m, t, w
<1>10. QED
  BY <1>1, <1>6, <1>7, <1>8, <1>9, VectorPerforms

(* assign leaves so many copies of a value.                                *)
LEMMA VectorAssigns == ASSUME VectorInv, Vector!assign PROVE VectorInv' /\ Vector!Promise!Next
<1> DEFINE o == vcall.on
           n == count[o]
           s == Vector!Contents[o]
<1>1. vcall # Idle /\ vcall.op = "assign"
  BY DEF Vector!assign, Vector!Making
<1>2. o \in Vectors /\ MayAsk(vcall, o) /\ n \in Nat /\ Vector!n0 = n /\ s \in [1 .. n -> Values]
  BY <1>1, VectorWorks
<1>3. PICK r \in Nat : n <= r /\ Vector!w0 = Start(s, n, r)
  BY <1>1, VectorWorks
<1>4. Whole(s, n) /\ Numbered(s, n) /\ Len(s) = n
  BY <1>2, ElementsAre
<1>5. s = Vector!Contents[vcall.on]
  OBVIOUS
<1> HIDE DEF n, s, o
<1>k. vcall.n \in Nat /\ vcall.ref.value \in Values /\ vcall.ref.value # None
  BY <1>1, <1>2, VectorAssumption DEF MayAsk
<1> DEFINE m == vcall.n
           t == Topped(s, 0, vcall.n, vcall.ref.value)
           w == Vector!Assign(Vector!w0, n, vcall.n, vcall.ref)
<1>6. m \in Nat /\ t \in [1 .. m -> Values]
  <2>1. \A i \in 1 .. vcall.n : ~(i <= 0)
    OBVIOUS
  <2> QED BY <1>k, <2>1 DEF Topped
<1>7. Lands(w, t, m)
  BY <1>2, <1>3, <1>4, <1>k, AssignIs
<1>8. Vector!Promise!Meaning(vcall) = t
  <2>1. Vector!Promise!Meaning(vcall) = [i \in 1 .. vcall.n |-> vcall.ref.value]
    BY <1>1, <1>5, VectorMeanings
  <2>2. \A i \in 1 .. vcall.n : ~(i <= 0)
    OBVIOUS
  <2> QED BY <2>1, <2>2 DEF Topped
<1>9. Vector!Done(w, m)
  BY <1>2, <1>3 DEF Vector!assign
<1> HIDE DEF m, t, w
<1>10. QED
  BY <1>1, <1>6, <1>7, <1>8, <1>9, VectorPerforms

(* So does building a vector of them in its place.                         *)
LEMMA VectorFills == ASSUME VectorInv, Vector!fill_build PROVE VectorInv' /\ Vector!Promise!Next
<1> DEFINE o == vcall.on
           n == count[o]
           s == Vector!Contents[o]
<1>1. vcall # Idle /\ vcall.op = "fill"
  BY DEF Vector!fill_build, Vector!Making
<1>2. o \in Vectors /\ MayAsk(vcall, o) /\ n \in Nat /\ Vector!n0 = n /\ s \in [1 .. n -> Values]
  BY <1>1, VectorWorks
<1>3. PICK r \in Nat : n <= r /\ Vector!w0 = Start(s, n, r)
  BY <1>1, VectorWorks
<1>4. Whole(s, n) /\ Numbered(s, n) /\ Len(s) = n
  BY <1>2, ElementsAre
<1>5. s = Vector!Contents[vcall.on]
  OBVIOUS
<1> HIDE DEF n, s, o
<1>k. vcall.n \in Nat /\ vcall.ref.value \in Values /\ vcall.ref.value # None
  BY <1>1, <1>2, VectorAssumption DEF MayAsk
<1> DEFINE m == vcall.n
           t == Topped(s, 0, vcall.n, vcall.ref.value)
           w == Vector!FillBuild(Vector!w0, n, vcall.ref, vcall.n)
<1>6. m \in Nat /\ t \in [1 .. m -> Values]
  <2>1. \A i \in 1 .. vcall.n : ~(i <= 0)
    OBVIOUS
  <2> QED BY <1>k, <2>1 DEF Topped
<1>7. Lands(w, t, m)
  BY <1>2, <1>3, <1>4, <1>k, FillBuildIs
<1>8. Vector!Promise!Meaning(vcall) = t
  <2>1. Vector!Promise!Meaning(vcall) = [i \in 1 .. vcall.n |-> vcall.ref.value]
    BY <1>1, <1>5, VectorMeanings
  <2>2. \A i \in 1 .. vcall.n : ~(i <= 0)
    OBVIOUS
  <2> QED BY <2>1, <2>2 DEF Topped
<1>9. Vector!Done(w, m)
  BY <1>2, <1>3 DEF Vector!fill_build
<1> HIDE DEF m, t, w
<1>10. QED
  BY <1>1, <1>6, <1>7, <1>8, <1>9, VectorPerforms

(* insert puts a value in before a position.                               *)
LEMMA VectorInserts == ASSUME VectorInv, Vector!insert PROVE VectorInv' /\ Vector!Promise!Next
<1> DEFINE o == vcall.on
           n == count[o]
           s == Vector!Contents[o]
<1>1. vcall # Idle /\ vcall.op = "insert"
  BY DEF Vector!insert, Vector!Making
<1>2. o \in Vectors /\ MayAsk(vcall, o) /\ n \in Nat /\ Vector!n0 = n /\ s \in [1 .. n -> Values]
  BY <1>1, VectorWorks
<1>3. PICK r \in Nat : n <= r /\ Vector!w0 = Start(s, n, r)
  BY <1>1, VectorWorks
<1>4. Whole(s, n) /\ Numbered(s, n) /\ Len(s) = n
  BY <1>2, ElementsAre
<1>5. s = Vector!Contents[vcall.on]
  OBVIOUS
<1> HIDE DEF n, s, o
<1>k. vcall.i \in 0 .. n /\ vcall.ref = [at |-> vcall.ref.at, value |-> vcall.ref.value]
  BY <1>1, <1>2 DEF MayAsk, Reference, n
<1> DEFINE x == Vector!Promise!Named(s, vcall.ref)
<1>x. Stands(vcall.ref, s, n, x) /\ x \in Values
  <2>1. Reference(vcall.ref, n)
    BY <1>1, <1>2 DEF MayAsk, n
  <2> QED BY <1>2, <2>1, ReferenceStands
<1> HIDE DEF x
<1> DEFINE m == n + 1
           t == Inserted(s, n, vcall.i, x)
           w == Vector!InsertOne(Vector!w0, n, vcall.i, vcall.ref)
<1>6. m \in Nat /\ t \in [1 .. m -> Values]
  <2>1. ASSUME NEW k \in 1 .. n + 1
        PROVE  (IF k <= vcall.i THEN s[k] ELSE IF k = vcall.i + 1 THEN x ELSE s[k - 1]) \in Values
    <3>1. CASE k <= vcall.i
      BY <1>2, <1>k, <3>1
    <3>2. CASE k = vcall.i + 1
      BY <1>k, <1>x, <3>2
    <3>3. CASE k > vcall.i + 1
      <4>1. k - 1 \in 1 .. n /\ ~(k <= vcall.i) /\ k # vcall.i + 1
        BY <1>2, <1>k, <3>3
      <4> QED BY <1>2, <4>1
    <3> QED BY <1>2, <1>k, <3>1, <3>2, <3>3
  <2> QED BY <1>2, <2>1 DEF Inserted
<1>7. Lands(w, t, m)
  BY <1>2, <1>3, <1>4, <1>k, <1>x, InsertOneIs
<1>8. Vector!Promise!Meaning(vcall) = t
  <2> DEFINE u == <<x>>
  <2>1. Vector!Promise!Meaning(vcall) = SubSeq(s, 1, vcall.i) \o u \o SubSeq(s, vcall.i + 1, Len(s))
    BY <1>1, <1>5, VectorMeanings DEF x
  <2>2. Numbered(u, 1) /\ u[1] = x
    BY DEF Numbered
  <2> HIDE DEF u
  <2>3. SubSeq(s, 1, vcall.i) \o u \o SubSeq(s, vcall.i + 1, Len(s)) = Spliced(s, n, vcall.i, u, 1)
    BY <1>4, <1>k, <2>2, SplicedIs
  <2>4. ASSUME NEW k \in 1 .. n + 1
        PROVE  (IF k <= vcall.i THEN s[k] ELSE IF k <= vcall.i + 1 THEN u[k - vcall.i] ELSE s[k - 1])
                 = (IF k <= vcall.i THEN s[k] ELSE IF k = vcall.i + 1 THEN x ELSE s[k - 1])
    <3>1. CASE k = vcall.i + 1
      <4>1. k - vcall.i = 1
        BY <1>k, <3>1
      <4> QED BY <1>k, <2>2, <3>1, <4>1
    <3>2. CASE k # vcall.i + 1
      <4>1. k <= vcall.i + 1 => k <= vcall.i
        BY <1>2, <1>k, <3>2
      <4> QED BY <3>2, <4>1
    <3> QED BY <3>1, <3>2
  <2>5. Spliced(s, n, vcall.i, u, 1) = t
    BY <2>4 DEF Spliced, Inserted
  <2> QED BY <2>1, <2>3, <2>5
<1>9. Vector!Done(w, m)
  BY <1>2, <1>3 DEF Vector!insert
<1> HIDE DEF m, t, w
<1>10. QED
  BY <1>1, <1>6, <1>7, <1>8, <1>9, VectorPerforms

(* insert of a range puts another vector in before a position.             *)
LEMMA VectorInsertsAll == ASSUME VectorInv, Vector!insert_all PROVE VectorInv' /\ Vector!Promise!Next
<1> DEFINE o == vcall.on
           n == count[o]
           s == Vector!Contents[o]
<1>1. vcall # Idle /\ vcall.op = "insert_all"
  BY DEF Vector!insert_all, Vector!Making
<1>2. o \in Vectors /\ MayAsk(vcall, o) /\ n \in Nat /\ Vector!n0 = n /\ s \in [1 .. n -> Values]
  BY <1>1, VectorWorks
<1>3. PICK r \in Nat : n <= r /\ Vector!w0 = Start(s, n, r)
  BY <1>1, VectorWorks
<1>4. Whole(s, n) /\ Numbered(s, n) /\ Len(s) = n
  BY <1>2, ElementsAre
<1>5. s = Vector!Contents[vcall.on]
  OBVIOUS
<1> HIDE DEF n, s, o
<1> DEFINE p == vcall.from
           k == count[p]
           u == Vector!Contents[p]
<1>p. p \in Vectors /\ vcall.i \in 0 .. n
  BY <1>1, <1>2 DEF MayAsk, n
<1> HIDE DEF k, u, p
<1>f. PICK q \in Nat : k <= q /\ items[p] = Stored(u, k, q)
  BY <1>p, VectorHolds DEF k, u
<1>g. k \in Nat /\ u \in [1 .. k -> Values]
  BY <1>p, VectorHolds DEF k, u
<1>h. Whole(u, k) /\ Numbered(u, k)
  BY <1>g, ElementsAre
<1> DEFINE m == n + k
           t == Spliced(s, n, vcall.i, u, k)
           w == Vector!InsertAll(Vector!w0, n, vcall.i, items[p], k)
<1>6. m \in Nat /\ t \in [1 .. m -> Values]
  <2>1. ASSUME NEW i \in 1 .. n + k
        PROVE  (IF i <= vcall.i THEN s[i] ELSE IF i <= vcall.i + k THEN u[i - vcall.i] ELSE s[i - k]) \in Values
    <3>1. CASE i <= vcall.i
      BY <1>2, <1>p, <3>1
    <3>2. CASE vcall.i < i /\ i <= vcall.i + k
      <4>1. i - vcall.i \in 1 .. k /\ ~(i <= vcall.i)
        BY <1>2, <1>p, <1>g, <3>2
      <4> QED BY <1>g, <3>2, <4>1
    <3>3. CASE i > vcall.i + k
      <4>1. i - k \in 1 .. n /\ ~(i <= vcall.i) /\ ~(i <= vcall.i + k)
        BY <1>2, <1>p, <1>g, <3>3
      <4> QED BY <1>2, <4>1
    <3> QED BY <1>2, <1>p, <1>g, <3>1, <3>2, <3>3
  <2> QED BY <1>2, <1>g, <2>1 DEF Spliced
<1>7. Lands(w, t, m)
  BY <1>2, <1>3, <1>4, <1>p, <1>f, <1>g, <1>h, InsertAllIs
<1>8. Vector!Promise!Meaning(vcall) = t
  <2>1. Vector!Promise!Meaning(vcall) = SubSeq(s, 1, vcall.i) \o u \o SubSeq(s, vcall.i + 1, Len(s))
    BY <1>1, <1>5, VectorMeanings DEF u, p
  <2>2. SubSeq(s, 1, vcall.i) \o u \o SubSeq(s, vcall.i + 1, Len(s)) = Spliced(s, n, vcall.i, u, k)
    BY <1>4, <1>p, <1>h, SplicedIs
  <2> QED BY <2>1, <2>2
<1>9. Vector!Done(w, m)
  BY <1>2, <1>3 DEF Vector!insert_all, k, p
<1> HIDE DEF m, t, w
<1>10. QED
  BY <1>1, <1>6, <1>7, <1>8, <1>9, VectorPerforms

(* erase takes a range away.                                               *)
LEMMA VectorErases == ASSUME VectorInv, Vector!erase PROVE VectorInv' /\ Vector!Promise!Next
<1> DEFINE o == vcall.on
           n == count[o]
           s == Vector!Contents[o]
<1>1. vcall # Idle /\ vcall.op = "erase"
  BY DEF Vector!erase, Vector!Making
<1>2. o \in Vectors /\ MayAsk(vcall, o) /\ n \in Nat /\ Vector!n0 = n /\ s \in [1 .. n -> Values]
  BY <1>1, VectorWorks
<1>3. PICK r \in Nat : n <= r /\ Vector!w0 = Start(s, n, r)
  BY <1>1, VectorWorks
<1>4. Whole(s, n) /\ Numbered(s, n) /\ Len(s) = n
  BY <1>2, ElementsAre
<1>5. s = Vector!Contents[vcall.on]
  OBVIOUS
<1> HIDE DEF n, s, o
<1> DEFINE i == vcall.i
           j == vcall.j
<1>k. j \in 0 .. n /\ i \in 0 .. j
  BY <1>1, <1>2 DEF MayAsk, n
<1> HIDE DEF i, j
<1> DEFINE m == n - (j - i)
           t == Without(s, n, i, j)
           w == Vector!Erase(Vector!w0, n, i, j)
<1>6. m \in Nat /\ t \in [1 .. m -> Values]
  <2>1. ASSUME NEW k \in 1 .. n - (j - i)
        PROVE  (IF k <= i THEN s[k] ELSE s[k + (j - i)]) \in Values
    <3>1. CASE k <= i
      BY <1>2, <1>k, <3>1
    <3>2. CASE k > i
      <4>1. k + (j - i) \in 1 .. n /\ ~(k <= i)
        BY <1>2, <1>k, <3>2
      <4> QED BY <1>2, <4>1
    <3> QED BY <1>k, <3>1, <3>2
  <2>2. n - (j - i) \in Nat
    BY <1>2, <1>k
  <2> QED BY <2>1, <2>2 DEF Without
<1>7. Lands(w, t, m)
  BY <1>2, <1>3, <1>4, <1>k, EraseIs
<1>8. Vector!Promise!Meaning(vcall) = t
  <2>1. Vector!Promise!Meaning(vcall) = SubSeq(s, 1, i) \o SubSeq(s, j + 1, Len(s))
    BY <1>1, <1>5, VectorMeanings DEF i, j
  <2>2. SubSeq(s, 1, i) \o SubSeq(s, j + 1, Len(s)) = Without(s, n, i, j)
    BY <1>4, <1>k, WithoutRangeIs
  <2> QED BY <2>1, <2>2
<1>9. Vector!Done(w, m)
  BY <1>2, <1>3 DEF Vector!erase, i, j
<1> HIDE DEF m, t, w
<1>10. QED
  BY <1>1, <1>6, <1>7, <1>8, <1>9, VectorPerforms

(* operator= makes of it the other vector.                                 *)
LEMMA VectorCopyAssigns == ASSUME VectorInv, Vector!copy_assign PROVE VectorInv' /\ Vector!Promise!Next
<1> DEFINE o == vcall.on
           n == count[o]
           s == Vector!Contents[o]
<1>1. vcall # Idle /\ vcall.op = "operator="
  BY DEF Vector!copy_assign, Vector!Making
<1>2. o \in Vectors /\ MayAsk(vcall, o) /\ n \in Nat /\ Vector!n0 = n /\ s \in [1 .. n -> Values]
  BY <1>1, VectorWorks
<1>3. PICK r \in Nat : n <= r /\ Vector!w0 = Start(s, n, r)
  BY <1>1, VectorWorks
<1>4. Whole(s, n) /\ Numbered(s, n) /\ Len(s) = n
  BY <1>2, ElementsAre
<1>5. s = Vector!Contents[vcall.on]
  OBVIOUS
<1> HIDE DEF n, s, o
<1> DEFINE p == vcall.from
           k == count[p]
           u == Vector!Contents[p]
<1>p. p \in Vectors
  BY <1>1, <1>2 DEF MayAsk
<1> HIDE DEF k, u, p
<1>f. PICK q \in Nat : k <= q /\ items[p] = Stored(u, k, q)
  BY <1>p, VectorHolds DEF k, u
<1>g. k \in Nat /\ u \in [1 .. k -> Values]
  BY <1>p, VectorHolds DEF k, u
<1>h. Whole(u, k) /\ Numbered(u, k)
  BY <1>g, ElementsAre
<1> DEFINE w == IF p = o THEN Vector!w0 ELSE Vector!CopyAssign(Vector!w0, n, items[p], k)
<1>7. Lands(w, u, k)
  <2>1. CASE p = o
    <3>1. u = s /\ k = n
      BY <2>1 DEF u, s, k, n
    <3> QED BY <1>3, <2>1, <3>1 DEF Lands, Start
  <2>2. CASE p # o
    BY <1>2, <1>3, <1>4, <1>f, <1>g, <1>h, <2>2, CopyAssignIs
  <2> QED BY <2>1, <2>2
<1>8. Vector!Promise!Meaning(vcall) = u
  BY <1>1, <1>5, VectorMeanings DEF u, p
<1>9. Vector!Done(w, k)
  <2>1. CASE p = o
    <3>1. k = n
      BY <2>1 DEF k, n
    <3> QED BY <1>2, <2>1, <3>1 DEF Vector!copy_assign, p, o
  <2>2. CASE p # o
    BY <1>2, <2>2 DEF Vector!copy_assign, p, o, k
  <2> QED BY <2>1, <2>2
<1> HIDE DEF w
<1>10. QED
  BY <1>1, <1>7, <1>8, <1>9, <1>g, VectorPerforms

(* So does building a copy of it in its place.                             *)
LEMMA VectorCopies == ASSUME VectorInv, Vector!copy_build PROVE VectorInv' /\ Vector!Promise!Next
<1> DEFINE o == vcall.on
           n == count[o]
           s == Vector!Contents[o]
<1>1. vcall # Idle /\ vcall.op = "copy"
  BY DEF Vector!copy_build, Vector!Making
<1>2. o \in Vectors /\ MayAsk(vcall, o) /\ n \in Nat /\ Vector!n0 = n /\ s \in [1 .. n -> Values]
  BY <1>1, VectorWorks
<1>3. PICK r \in Nat : n <= r /\ Vector!w0 = Start(s, n, r)
  BY <1>1, VectorWorks
<1>4. Whole(s, n) /\ Numbered(s, n) /\ Len(s) = n
  BY <1>2, ElementsAre
<1>5. s = Vector!Contents[vcall.on]
  OBVIOUS
<1> HIDE DEF n, s, o
<1> DEFINE p == vcall.from
           k == count[p]
           u == Vector!Contents[p]
<1>p. p \in Vectors
  BY <1>1, <1>2 DEF MayAsk
<1> HIDE DEF k, u, p
<1>f. PICK q \in Nat : k <= q /\ items[p] = Stored(u, k, q)
  BY <1>p, VectorHolds DEF k, u
<1>g. k \in Nat /\ u \in [1 .. k -> Values]
  BY <1>p, VectorHolds DEF k, u
<1>h. Whole(u, k) /\ Numbered(u, k)
  BY <1>g, ElementsAre
<1> DEFINE m == k
           t == u
           w == Vector!CopyBuild(Vector!w0, n, items[p], k)
<1>6. m \in Nat /\ t \in [1 .. m -> Values]
  BY <1>g
<1>7. Lands(w, t, m)
  BY <1>2, <1>3, <1>4, <1>f, <1>g, <1>h, CopyBuildIs
<1>8. Vector!Promise!Meaning(vcall) = t
  BY <1>1, <1>5, VectorMeanings DEF u, p
<1>9. Vector!Done(w, m)
  BY <1>2, <1>3 DEF Vector!copy_build, k, p
<1> HIDE DEF m, t, w
<1>10. QED
  BY <1>1, <1>6, <1>7, <1>8, <1>9, VectorPerforms

(* swap exchanges two vectors' storage.                                    *)
LEMMA VectorSwaps == ASSUME VectorInv, Vector!swap PROVE VectorInv' /\ Vector!Promise!Next
<1> DEFINE o == vcall.on
           p == vcall.from
<1>1. vcall # Idle /\ vcall.op = "swap"
  BY DEF Vector!swap, Vector!Making
<1>2. o \in Vectors /\ p \in Vectors \ {o}
  BY <1>1, VectorOn DEF MayAsk
<1>3. /\ items' = [items EXCEPT ![o] = items[p], ![p] = items[o]]
      /\ count' = [count EXCEPT ![o] = count[p], ![p] = count[o]]
      /\ vcall' = Idle /\ sound' = sound
  BY DEF Vector!swap
<1>4. Vector!Promise!Meaning(vcall) = Vector!Contents[p]
  BY <1>1, VectorMeanings
<1> HIDE DEF o, p
<1>5. count' \in [Vectors -> Nat] /\ items' = [k \in Vectors |-> items'[k]]
  BY <1>2, <1>3 DEF VectorInv
<1>6. /\ items'[o] = items[p] /\ count'[o] = count[p]
      /\ items'[p] = items[o] /\ count'[p] = count[o]
      /\ \A k \in Vectors \ {o, p} : items'[k] = items[k] /\ count'[k] = count[k]
  BY <1>2, <1>3 DEF VectorInv
<1>7. \A k \in Vectors : Kept(items'[k], count'[k])
  BY <1>2, <1>6 DEF VectorInv
<1>8. VectorInv'
  BY <1>3, <1>5, <1>7 DEF VectorInv, VectorAsked
<1> DEFINE after == [k \in Vectors |-> IF k = vcall.on THEN Vector!Promise!Meaning(vcall)
                                       ELSE IF vcall.op = "swap" /\ k = vcall.from THEN Vector!Contents[vcall.on]
                                       ELSE Vector!Contents[k]]
<1>9. Vector!Contents' = after
  <2>1. Vector!Contents' = [k \in Vectors |-> [i \in 1 .. count'[k] |-> items'[k][i - 1]]]
    BY DEF Vector!Contents
  <2>2. \A k \in Vectors : Vector!Contents[k] = [i \in 1 .. count[k] |-> items[k][i - 1]]
    BY DEF Vector!Contents
  <2> HIDE DEF Vector!Contents, Vector!Promise!Meaning
  <2>3. ASSUME NEW k \in Vectors PROVE [i \in 1 .. count'[k] |-> items'[k][i - 1]] = after[k]
    <3>1. CASE k = o
      <4>1. after[k] = Vector!Contents[p]
        BY <1>2, <1>4, <3>1 DEF o, p
      <4> QED BY <1>2, <1>6, <2>2, <3>1, <4>1
    <3>2. CASE k = p
      <4>1. after[k] = Vector!Contents[o]
        BY <1>1, <1>2, <3>2 DEF o, p
      <4> QED BY <1>2, <1>6, <2>2, <3>2, <4>1
    <3>3. CASE k # o /\ k # p
      <4>1. after[k] = Vector!Contents[k]
        BY <3>3 DEF o, p
      <4> QED BY <1>6, <2>2, <3>3, <4>1
    <3> QED BY <3>1, <3>2, <3>3
  <2>4. after = [k \in Vectors |-> after[k]]
    OBVIOUS
  <2> HIDE DEF after
  <2> QED BY <2>1, <2>3, <2>4
<1>10. Vector!Promise!Perform
  <2> HIDE DEF Vector!Contents, Vector!Promise!Meaning
  <2> QED BY <1>1, <1>3, <1>9, Zenon DEF Vector!Promise!Perform
<1>11. QED
  BY <1>8, <1>10 DEF Vector!Promise!Next

(* Vectors begin empty and sound.                                          *)
LEMMA VectorStarts == Vector!Init => VectorInv /\ Vector!Promise!Init
<1> SUFFICES ASSUME Vector!Init PROVE VectorInv /\ Vector!Promise!Init
  OBVIOUS
<1>1. /\ items = [o \in Vectors |-> <<>>] /\ count = [o \in Vectors |-> 0]
      /\ vcall = Idle /\ sound = TRUE
  BY DEF Vector!Init
<1>2. Kept(<<>>, 0)
  <2> DEFINE s == [i \in 1 .. 0 |-> Zero]
  <2>1. s \in [1 .. 0 -> Values]
    BY VectorAssumption
  <2> HIDE DEF s
  <2>2. <<>> = Stored(s, 0, 0)
    BY EmptyStore
  <2>3. 0 \in Nat /\ 0 <= 0
    OBVIOUS
  <2> QED BY <2>1, <2>2, <2>3, Zenon DEF Kept
<1>3. VectorInv
  BY <1>1, <1>2 DEF VectorInv, VectorAsked
<1>4. Vector!Contents = [o \in Vectors |-> <<>>]
  <2>1. ASSUME NEW o \in Vectors PROVE [i \in 1 .. count[o] |-> items[o][i - 1]] = <<>>
    BY <1>1
  <2> QED BY <2>1 DEF Vector!Contents
<1>5. QED
  BY <1>1, <1>3, <1>4 DEF Vector!Promise!Init

(* To the vector as C++ sees it, making a call changes nothing.            *)
LEMMA VectorBegins == VectorInv /\ Vector!Begin => VectorInv' /\ Vector!Promise!Next
<1> SUFFICES ASSUME VectorInv, Vector!Begin PROVE VectorInv' /\ Vector!Promise!Next
  OBVIOUS
<1>1. vcall = Idle /\ UNCHANGED <<items, count, sound>>
  BY DEF Vector!Begin
<1>2. PICK o \in Vectors : vcall' \in Vector!Calls(o)
  BY DEF Vector!Begin
<1>3. vcall' # Idle
  <2>1. MayAsk(vcall', o)
    BY <1>2, VectorAskedIs DEF VectorInv
  <2> QED BY <2>1 DEF MayAsk
<1>4. Vector!Contents' = Vector!Contents
  BY <1>1 DEF Vector!Contents
<1>5. Vector!Promise!Next
  BY <1>1, <1>3, <1>4 DEF Vector!Promise!Next, Vector!Promise!Begin
<1>6. Vector!Calls(o)' = Vector!Calls(o)
  BY <1>1 DEF Vector!Calls, Vector!Refs, Vector!Inside
<1>7. VectorAsked'
  BY <1>2, <1>6 DEF VectorAsked
<1>8. QED
  BY <1>1, <1>5, <1>7 DEF VectorInv, Kept

(* Every step of a vector, and what C++ sees of it.                        *)
LEMMA VectorSteps == VectorInv /\ [Vector!Next]_(Vector!vars) => VectorInv' /\ [Vector!Promise!Next]_(Vector!Promise!vars)
<1> SUFFICES ASSUME VectorInv, [Vector!Next]_(Vector!vars) PROVE VectorInv' /\ [Vector!Promise!Next]_(Vector!Promise!vars)
  OBVIOUS
<1>0. CASE UNCHANGED Vector!vars
  <2>1. UNCHANGED <<items, count, vcall, sound>>
    BY <1>0 DEF Vector!vars
  <2>2. VectorAsked'
    BY <2>1 DEF VectorInv, VectorAsked, Vector!Calls, Vector!Refs, Vector!Inside
  <2>3. VectorInv'
    BY <2>1, <2>2 DEF VectorInv, Kept
  <2>4. UNCHANGED Vector!Promise!vars
    BY <2>1 DEF Vector!Promise!vars, Vector!Contents
  <2> QED BY <2>3, <2>4
<1>1. CASE Vector!Begin
  BY <1>1, VectorBegins
<1>2. CASE Vector!push_back
  BY <1>2, VectorPushBack
<1>3. CASE Vector!pop_back
  BY <1>3, VectorPopBack
<1>4. CASE Vector!clear
  BY <1>4, VectorClears
<1>5. CASE Vector!shrink_to_fit
  BY <1>5, VectorShrinks
<1>6. CASE Vector!reserve
  BY <1>6, VectorReserves
<1>7. CASE Vector!resize
  BY <1>7, VectorResizes
<1>8. CASE Vector!resize_with
  BY <1>8, VectorResizesWith
<1>9. CASE Vector!assign
  BY <1>9, VectorAssigns
<1>10. CASE Vector!insert
  BY <1>10, VectorInserts
<1>11. CASE Vector!erase
  BY <1>11, VectorErases
<1>12. CASE Vector!insert_all
  BY <1>12, VectorInsertsAll
<1>13. CASE Vector!copy_assign
  BY <1>13, VectorCopyAssigns
<1>14. CASE Vector!copy_build
  BY <1>14, VectorCopies
<1>15. CASE Vector!fill_build
  BY <1>15, VectorFills
<1>16. CASE Vector!swap
  BY <1>16, VectorSwaps
<1>17. QED
  BY <1>0, <1>1, <1>2, <1>3, <1>4, <1>5, <1>6, <1>7, <1>8, <1>9, <1>10, <1>11, <1>12, <1>13, <1>14, <1>15, <1>16
     DEF Vector!Next

(* An element is where count says, and no cell was ever built over, read   *)
(* or destroyed with nothing in it, or freed with an element left.         *)
THEOREM VectorElementOnce == Vector!Spec => []Vector!EachElementOnce
<1>1. VectorInv => Vector!EachElementOnce
  <2> SUFFICES ASSUME VectorInv PROVE Vector!EachElementOnce
    OBVIOUS
  <2>1. ASSUME NEW o \in Vectors
        PROVE  /\ \A i \in DOMAIN items[o] : (items[o][i] # None) = (i < count[o])
               /\ count[o] <= Vector!Room(items[o])
    <3> DEFINE n == count[o]
               c == items[o]
    <3>1. n \in Nat
      BY DEF VectorInv
    <3>2. PICK r \in Nat, s \in [1 .. n -> Values] : n <= r /\ c = Stored(s, n, r)
      BY DEF VectorInv, Kept
    <3> HIDE DEF n, c
    <3>3. DOMAIN c = 0 .. r - 1 /\ Vector!Room(c) = r
      BY <3>1, <3>2, StoreIs
    <3>4. ASSUME NEW i \in 0 .. r - 1 PROVE (c[i] # None) = (i < n)
      <4>1. CASE i < n
        <5>1. i + 1 \in 1 .. n
          BY <3>1, <4>1
        <5>2. c[i] = s[i + 1]
          BY <3>1, <3>2, <4>1, StoreAt
        <5>3. c[i] \in Values
          BY <3>2, <5>1, <5>2
        <5> QED BY <4>1, <5>3, VectorAssumption
      <4>2. CASE i >= n
        <5>1. c[i] = None /\ ~(i < n)
          BY <3>1, <3>2, <4>2, StoreAt
        <5> QED BY <5>1
      <4> QED BY <3>1, <4>1, <4>2
    <3>5. (\A i \in DOMAIN c : (c[i] # None) = (i < n)) /\ n <= Vector!Room(c)
      BY <3>2, <3>3, <3>4
    <3> QED BY <3>5 DEF n, c
  <2> QED BY <2>1 DEF VectorInv, Vector!EachElementOnce
<1>2. Vector!Init => VectorInv
  BY VectorStarts
<1>3. VectorInv /\ [Vector!Next]_(Vector!vars) => VectorInv'
  BY VectorSteps
<1>4. QED
  BY <1>1, <1>2, <1>3, PTL DEF Vector!Spec

(* Whichever storage a vector works in, it is the sequence C++ says it is. *)
THEOREM VectorIsASequence == Vector!Spec => Vector!IsASequence
<1>1. Vector!Init => VectorInv /\ Vector!Promise!Init
  BY VectorStarts
<1>2. VectorInv /\ [Vector!Next]_(Vector!vars) => VectorInv' /\ [Vector!Promise!Next]_(Vector!Promise!vars)
  BY VectorSteps
<1>3. QED
  BY <1>1, <1>2, PTL DEF Vector!Spec, Vector!IsASequence, Vector!Promise!Spec

-----------------------------------------------------------------------------
(* A program makes the calls of one container, and leaves the others be.   *)
LEMMA EachOnItsOwn == Spec => Vector!Spec /\ Map!Spec /\ Deque!Spec /\ List!Spec
<1>1. Init => Vector!Init /\ Map!Init /\ Deque!Init /\ List!Init
  BY DEF Init
<1>2. [Next]_<<which, vectors, deques, lists, maps>>
        => [Vector!Next]_(Vector!vars) /\ [Map!Next]_(Map!vars) /\ [Deque!Next]_(Deque!vars) /\ [List!Next]_(List!vars)
  <2> SUFFICES ASSUME [Next]_<<which, vectors, deques, lists, maps>>
               PROVE  [Vector!Next]_(Vector!vars) /\ [Map!Next]_(Map!vars) /\ [Deque!Next]_(Deque!vars) /\ [List!Next]_(List!vars)
    OBVIOUS
  <2>0. Vector!Next \/ UNCHANGED Vector!vars
    BY DEF Next, vectors, Vector!vars
  <2>1. Map!Next \/ UNCHANGED Map!vars
    BY DEF Next, maps, Map!vars
  <2>2. Deque!Next \/ UNCHANGED Deque!vars
    BY DEF Next, deques, Deque!vars
  <2>3. List!Next \/ UNCHANGED List!vars
    BY DEF Next, lists, List!vars
  <2> QED BY <2>0, <2>1, <2>2, <2>3
<1>3. QED
  BY <1>1, <1>2, PTL DEF Spec, Vector!Spec, Map!Spec, Deque!Spec, List!Spec

(* Whatever is stored, inserted and erased, a walk over the map or set     *)
(* meets its keys in order and once each (_MAP_HEADER's __slot, erase).    *)
THEOREM MapsWalkInOrder == Spec => []WalksInOrder
  BY EachOnItsOwn, MapWalksInOrder, PTL DEF WalksInOrder

(* Whatever is pushed and popped, no element of a deque is written or kept *)
(* outside its array (_DEQUE_HEADER's push_back, push_front and __grow).   *)
THEOREM DequesStayInside == Spec => []StaysInside
  BY EachOnItsOwn, DequeStaysInside, PTL DEF StaysInside

(* Whatever is pushed and popped, a list is the same nodes from either     *)
(* end, and every node made and not deleted is in one (_LIST_HEADER).      *)
THEOREM ListsAreLinkedBothWays == Spec => []LinkedBothWays
  BY EachOnItsOwn, ListLinkedBothWays, PTL DEF LinkedBothWays

(* No member function of a vector builds over an element, reads or         *)
(* destroys what is not there, or frees storage with one in it, and after  *)
(* each the elements are the first count cells (_VECTOR_HEADER).           *)
THEOREM VectorsKeepEachElementOnce == Spec => []EachElementOnce
  BY EachOnItsOwn, VectorElementOnce, PTL DEF EachElementOnce

(* Every container is, in every behaviour, the sequence or the function    *)
(* C++ says it is: the whole of KeepTheirPromises.                         *)
THEOREM ContainersKeepTheirPromises == Spec => KeepTheirPromises
  BY EachOnItsOwn, VectorIsASequence, DequeIsASequence, ListIsASequence, MapIsADictionary DEF KeepTheirPromises
=============================================================================
