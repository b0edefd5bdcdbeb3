------------------------------ MODULE CxxVector -----------------------------
(***************************************************************************)
(* py2bin's own std::vector, the C++ text of _VECTOR_HEADER.  Storage is   *)
(* raw until an element is built in it: a cell holds an element or None,   *)
(* and which of the two the loops of each member function find there is    *)
(* what they can get wrong.  Every loop is run in the code's order.        *)
(***************************************************************************)
EXTENDS Integers, Sequences, FiniteSets

CONSTANTS Objects,    \* the vectors of the program
          Values,     \* what an element may be
          Zero,       \* the element built from nothing
          None,       \* a cell with no element in it
          Idle,
          MaxCount    \* bound: no vector holds more elements, nor reserves more than one above

VARIABLES items,      \* each vector's storage: cells from 0 to room - 1
          count,
          call,       \* the call that is being made, or Idle
          sound       \* no cell outside storage, nothing built twice, nothing read or destroyed that is not there

vars == <<items, count, call, sound>>

Init == /\ items = [o \in Objects |-> <<>>]
        /\ count = [o \in Objects |-> 0]
        /\ call = Idle
        /\ sound = TRUE

Room(cells) == Cardinality(DOMAIN cells)

(***************************************************************************)
(* A member function at work: the storage it found (old), the storage it   *)
(* has taken (new), and whether all it did so far was sound.               *)
(***************************************************************************)
Found(o) == [old |-> items[o], new |-> <<>>, ok |-> TRUE]

Malloc(w, n) == [w EXCEPT !.new = [i \in 0 .. n - 1 |-> None]]

Look(w, a, i) == IF i \in DOMAIN w[a] THEN w[a][i] ELSE None

\* __py2bin_copy_into: into a cell that holds nothing, from one that does.
Build(w, a, i, x) == IF i \in DOMAIN w[a] /\ Look(w, a, i) = None /\ x # None
                     THEN [w EXCEPT ![a][i] = x] ELSE [w EXCEPT !.ok = FALSE]

\* Assignment, to an element from an element.
Put(w, a, i, x) == IF Look(w, a, i) # None /\ x # None
                   THEN [w EXCEPT ![a][i] = x] ELSE [w EXCEPT !.ok = FALSE]

\* ~T()
Apart(w, a, i) == IF Look(w, a, i) # None
                  THEN [w EXCEPT ![a][i] = None] ELSE [w EXCEPT !.ok = FALSE]

\* free(items); items = fresh.  No element may be left in what is freed.
Replaced(w) == [old |-> w.new, new |-> <<>>,
                ok |-> w.ok /\ \A i \in DOMAIN w.old : w.old[i] = None]

\* for (i = lo; i < hi; i++), and the same downwards.
Up(Step(_, _), w, lo, hi) ==
  LET s[i \in lo .. (IF hi > lo THEN hi ELSE lo)] == IF i = lo THEN w ELSE Step(s[i - 1], i - 1)
  IN  s[IF hi > lo THEN hi ELSE lo]
Down(Step(_, _), w, hi, lo) == Up(LAMBDA s, i : Step(s, hi - 1 - (i - lo)), w, lo, hi)

DestroyDown(w, hi, lo) == Down(LAMBDA s, i : Apart(s, "old", i), w, hi, lo)
BuildEach(w, a, lo, hi, x) == Up(LAMBDA s, i : Build(s, a, i, x), w, lo, hi)
CopyOf(w, src, lo, hi) == Up(LAMBDA s, i : Build(s, "old", i, src[i]), w, lo, hi)
PutEach(w, src, lo, hi) == Up(LAMBDA s, i : Put(s, "old", i, src[i]), w, lo, hi)

\* From the old storage to the new, so many cells up; and what is left there goes.
Copied(w, lo, hi, by) == Up(LAMBDA s, i : Build(s, "new", i + by, Look(s, "old", i)), w, lo, hi)
Emptied(w, lo, hi)    == Up(LAMBDA s, i : Apart(s, "old", i), w, lo, hi)
Relocate(w, n)        == Replaced(Emptied(Copied(w, 0, n, 0), 0, n))

\* Elements assigned to the cells so many down, first to last; or one up, last to first.
PutDown(w, lo, hi, by) == Up(LAMBDA s, k : Put(s, "old", k - by, Look(s, "old", k)), w, lo, hi)
PutUp(w, hi, lo)       == Down(LAMBDA s, k : Put(s, "old", k, Look(s, "old", k - 1)), w, hi, lo)

Grown(w, want) == IF 2 * Room(w.old) > want THEN 2 * Room(w.old) ELSE want

\* What a reference names at this moment: a cell of the old storage, or a value elsewhere.
Seen(w, ref) == IF ref.at >= 0 THEN Look(w, "old", ref.at) ELSE ref.value

(***************************************************************************)
(* The member functions, on work w over a vector of n elements.            *)
(***************************************************************************)
PushBack(w, n, ref) ==
  IF n = Room(w.old)
  THEN LET fresh == Malloc(w, Grown(w, n + 1))
       IN  Relocate(Build(fresh, "new", n, Seen(fresh, ref)), n)
  ELSE Build(w, "old", n, Seen(w, ref))

Reserve(w, n, want) == IF want <= Room(w.old) THEN w ELSE Relocate(Malloc(w, want), n)

ShrinkToFit(w, n) == IF n = Room(w.old) THEN w ELSE Relocate(Malloc(w, n), n)

Resize(w, n, want, ref) ==
  IF want <= n THEN DestroyDown(w, n, want)
  ELSE IF want > Room(w.old)
  THEN LET fresh == Malloc(w, Grown(w, want))
       IN  Relocate(BuildEach(fresh, "new", n, want, Seen(fresh, ref)), n)
  ELSE BuildEach(w, "old", n, want, Seen(w, ref))

\* A mutant: what the elements after the hole leave behind is not taken apart.
EraseLeaving(w, n, i, j) == PutDown(w, j, n, j - i)

Erase(w, n, i, j) ==
  IF i = j THEN w ELSE DestroyDown(PutDown(w, j, n, j - i), n, n - (j - i))

\* A mutant: the value is read where it was before its part was moved.
InsertInPlaceStale(w, n, at, ref) ==
  IF at = n THEN Build(w, "old", n, Seen(w, ref))
  ELSE LET longer == Build(w, "old", n, Look(w, "old", n - 1))
           moved  == PutUp(longer, n, at + 1)
       IN  Put(moved, "old", at, Seen(moved, ref))

InsertInPlace(w, n, at, ref) ==
  IF at = n THEN Build(w, "old", n, Seen(w, ref))
  ELSE LET source == IF ref.at >= at THEN [ref EXCEPT !.at = ref.at + 1] ELSE ref
           longer == Build(w, "old", n, Look(w, "old", n - 1))
           moved  == PutUp(longer, n, at + 1)
       IN  Put(moved, "old", at, Seen(moved, source))

InsertGrowing(w, n, at, ref) ==
  LET fresh  == Malloc(w, Grown(w, n + 1))
      placed == Build(fresh, "new", at, Seen(fresh, ref))
      behind == Emptied(Copied(placed, at, n, 1), at, n)
  IN  Replaced(Emptied(Copied(behind, 0, at, 0), 0, at))

InsertOne(w, n, at, ref) ==
  IF n < Room(w.old) THEN InsertInPlace(w, n, at, ref) ELSE InsertGrowing(w, n, at, ref)

\* Each element of the range is copied out before it is inserted.
InsertAll(w, n, at, src, m) ==
  Up(LAMBDA s, k : InsertOne(s, n + k, at + k, [at |-> -1, value |-> src[k]]), w, 0, m)

Assign(w, n, want, ref) ==
  BuildEach(Reserve(DestroyDown(w, n, 0), 0, want), "old", 0, want, ref.value)

CopyAssign(w, n, src, m) ==
  IF m > Room(w.old)
  THEN CopyOf(Replaced(Malloc(DestroyDown(w, n, 0), m)), src, 0, m)
  ELSE LET both == IF m < n THEN m ELSE n
       IN  DestroyDown(CopyOf(PutEach(w, src, 0, both), src, both, m), n, m)

\* One object goes, and another is built in its place: a copy, or m of one value.
CopyBuild(w, n, src, m) == CopyOf(Replaced(Malloc(DestroyDown(w, n, 0), m)), src, 0, m)
FillBuild(w, n, ref, m) == BuildEach(Replaced(Malloc(DestroyDown(w, n, 0), m)), "old", 0, m, ref.value)

(***************************************************************************)
(* The calls a program may make: C++ asks that positions be in the vector  *)
(* and that assign, insert of a range and copy take nothing from inside it.*)
(***************************************************************************)
Elsewhere == {[at |-> -1, value |-> x] : x \in Values}
Inside(o) == {[at |-> i, value |-> Zero] : i \in 0 .. count[o] - 1}
Refs(o)   == Elsewhere \cup Inside(o)

Calls(o) ==
  LET n == count[o]  others == Objects \ {o}
  IN  {q \in [op : {"push_back"}, on : {o}, ref : Refs(o)] : n < MaxCount}
      \cup {q \in [op : {"pop_back"}, on : {o}] : n > 0}
      \cup [op : {"clear", "shrink_to_fit"}, on : {o}]
      \cup [op : {"reserve"}, on : {o}, n : 0 .. MaxCount + 1]
      \cup [op : {"resize"}, on : {o}, n : 0 .. MaxCount]
      \cup [op : {"resize_with"}, on : {o}, n : 0 .. MaxCount, ref : Refs(o)]
      \cup [op : {"assign", "fill"}, on : {o}, n : 0 .. MaxCount, ref : Elsewhere]
      \cup {q \in [op : {"insert"}, on : {o}, i : 0 .. n, ref : Refs(o)] : n < MaxCount}
      \cup {q \in [op : {"erase"}, on : {o}, i : 0 .. n, j : 0 .. n] : q.i <= q.j}
      \cup {q \in [op : {"insert_all"}, on : {o}, i : 0 .. n, from : others] : n + count[q.from] <= MaxCount}
      \cup [op : {"operator="}, on : {o}, from : Objects]
      \cup [op : {"copy", "swap"}, on : {o}, from : others]

Begin == /\ call = Idle
         /\ \E o \in Objects : call' \in Calls(o)
         /\ UNCHANGED <<items, count, sound>>

\* The call leaves work w and n elements behind it.
Done(w, n) == /\ items' = [items EXCEPT ![call.on] = w.old]
              /\ count' = [count EXCEPT ![call.on] = n]
              /\ sound' = (sound /\ w.ok)
              /\ call' = Idle

Making(op) == call # Idle /\ call.op = op
w0 == Found(call.on)
n0 == count[call.on]

push_back     == Making("push_back") /\ Done(PushBack(w0, n0, call.ref), n0 + 1)
pop_back      == Making("pop_back") /\ Done(Apart(w0, "old", n0 - 1), n0 - 1)
clear         == Making("clear") /\ Done(DestroyDown(w0, n0, 0), 0)
shrink_to_fit == Making("shrink_to_fit") /\ Done(ShrinkToFit(w0, n0), n0)
reserve       == Making("reserve") /\ Done(Reserve(w0, n0, call.n), n0)
resize        == Making("resize") /\ Done(Resize(w0, n0, call.n, [at |-> -1, value |-> Zero]), call.n)
resize_with   == Making("resize_with") /\ Done(Resize(w0, n0, call.n, call.ref), call.n)
assign        == Making("assign") /\ Done(Assign(w0, n0, call.n, call.ref), call.n)
insert        == Making("insert") /\ Done(InsertOne(w0, n0, call.i, call.ref), n0 + 1)
erase         == Making("erase") /\ Done(Erase(w0, n0, call.i, call.j), n0 - (call.j - call.i))
insert_all    == /\ Making("insert_all")
                 /\ Done(InsertAll(w0, n0, call.i, items[call.from], count[call.from]), n0 + count[call.from])
copy_assign   == /\ Making("operator=")
                 /\ IF call.from = call.on THEN Done(w0, n0)
                    ELSE Done(CopyAssign(w0, n0, items[call.from], count[call.from]), count[call.from])
copy_build    == /\ Making("copy")
                 /\ Done(CopyBuild(w0, n0, items[call.from], count[call.from]), count[call.from])
fill_build    == Making("fill") /\ Done(FillBuild(w0, n0, call.ref, call.n), call.n)
swap          == /\ Making("swap")
                 /\ items' = [items EXCEPT ![call.on] = items[call.from], ![call.from] = items[call.on]]
                 /\ count' = [count EXCEPT ![call.on] = count[call.from], ![call.from] = count[call.on]]
                 /\ call' = Idle
                 /\ UNCHANGED sound

Next == \/ Begin
        \/ push_back \/ pop_back \/ clear \/ shrink_to_fit \/ reserve \/ resize \/ resize_with
        \/ assign \/ insert \/ erase \/ insert_all \/ copy_assign \/ copy_build \/ fill_build \/ swap

Spec == Init /\ [][Next]_vars

(* Elements live in the first count cells of their vector's storage and    *)
(* nowhere else, and no member function ever builds over one, reads or     *)
(* destroys what is not there, or frees storage with one still in it.      *)
EachElementOnce ==
  /\ sound
  /\ \A o \in Objects : \A i \in DOMAIN items[o] : (items[o][i] # None) = (i < count[o])
  /\ \A o \in Objects : count[o] <= Room(items[o])

Contents == [o \in Objects |-> [i \in 1 .. count[o] |-> items[o][i - 1]]]

(* Every member function does to the elements what C++ says it does,       *)
(* whichever storage it worked in and wherever its argument was.           *)
Promise == INSTANCE CxxSequence WITH contents <- Contents
IsASequence == Promise!Spec
=============================================================================
