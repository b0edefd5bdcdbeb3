------------------------------- MODULE CxxMap -------------------------------
(***************************************************************************)
(* py2bin's own std::map and std::set, the C++ text of _MAP_HEADER and     *)
(* _SET_HEADER: entries in one array kept in key order.  An entry that is  *)
(* taken away stays in its cell, behind the used ones, until another is    *)
(* written over it.                                                        *)
(***************************************************************************)
EXTENDS Integers, Sequences

CONSTANTS Keys,         \* numbers: the order of the keys
          Values, Zero,
          Idle,
          LeastRoom,    \* the first room taken: 8 in the code
          ReadsMake     \* TRUE if the program reads m[k] for a key that is not there

VARIABLES entries,      \* cells 1 to room, each a key and a value
          used,
          call,
          given         \* what the last m[k] that was read answered, or Idle

vars == <<entries, used, call, given>>

Init == entries = <<>> /\ used = 0 /\ call = Idle /\ given = Idle

Room == Len(entries)
Raw  == [first |-> 0, second |-> Zero]    \* malloc answers with cleared storage

\* reserve: the used entries at the start of a larger array.
Reserved(cells, n) == [i \in 1 .. n |-> IF i <= used THEN cells[i] ELSE Raw]
Roomy == IF used < Room THEN entries
         ELSE Reserved(entries, IF Room = 0 THEN LeastRoom ELSE 2 * Room)

\* find: the first used entry with this key, or the one past them all.
Find(k) == CHOOSE i \in 1 .. used + 1 :
             /\ i <= used => entries[i].first = k
             /\ \A j \in 1 .. i - 1 : entries[j].first # k

Has(k) == Find(k) # used + 1

\* A mutant: a new key goes to the end.
PlaceLast(k) == used + 1

\* Where a new key belongs: before the first greater one.
Place(k) == CHOOSE i \in 1 .. used + 1 :
              /\ i <= used => k < entries[i].first
              /\ \A j \in 1 .. i - 1 : ~(k < entries[j].first)

\* while (back > at) entries[back] = entries[back - 1]; and the key alone is written.
Opened(k) == LET at == Place(k)
             IN  [i \in DOMAIN Roomy |->
                    CASE i = at -> [Roomy[i] EXCEPT !.first = k]
                      [] i > at /\ i <= used + 1 -> Roomy[i - 1]
                      [] OTHER -> Roomy[i]]

\* __slot: the entries with k among them, and where it is.
Slot(k) == IF Has(k) THEN [cells |-> entries, at |-> Find(k), used |-> used]
           ELSE [cells |-> Opened(k), at |-> Place(k), used |-> used + 1]

Calls == [op : {"write", "insert"}, k : Keys, v : Values]
         \cup {q \in [op : {"read"}, k : Keys] : ReadsMake \/ Has(q.k)}
         \cup [op : {"erase"}, k : Keys]
         \cup [op : {"clear"}]

Begin == call = Idle /\ call' \in Calls /\ UNCHANGED <<entries, used, given>>

Making(op) == call # Idle /\ call.op = op

Stored(s, v) == /\ entries' = [s.cells EXCEPT ![s.at].second = v]
                /\ used' = s.used
                /\ given' = Idle
                /\ call' = Idle

\* m[k] = v
write == Making("write") /\ Stored(Slot(call.k), call.v)

\* insert leaves a key that is there alone.
insert == /\ Making("insert")
          /\ IF Has(call.k)
             THEN UNCHANGED <<entries, used>> /\ given' = Idle /\ call' = Idle
             ELSE Stored(Slot(call.k), call.v)

\* x = m[k], which makes the entry if there is none.
read == /\ Making("read")
        /\ LET s == Slot(call.k)
           IN  /\ entries' = s.cells
               /\ used' = s.used
               /\ given' = s.cells[s.at].second
        /\ call' = Idle

\* Everything after the entry moves down one; the last cell keeps what it had.
erase == /\ Making("erase")
         /\ IF ~Has(call.k) THEN UNCHANGED <<entries, used>>
            ELSE /\ entries' = [i \in DOMAIN entries |->
                                  IF i >= Find(call.k) /\ i < used THEN entries[i + 1] ELSE entries[i]]
                 /\ used' = used - 1
         /\ given' = Idle
         /\ call' = Idle

clear == Making("clear") /\ used' = 0 /\ given' = Idle /\ call' = Idle /\ UNCHANGED entries

Next == Begin \/ write \/ insert \/ read \/ erase \/ clear

Spec == Init /\ [][Next]_vars

(* A walk from begin to end visits the keys in order, each of them once.   *)
WalksInOrder == \A i, j \in 1 .. used : i < j => entries[i].first < entries[j].first

Held == [k \in {entries[i].first : i \in 1 .. used} |-> entries[Find(k)].second]

(* Whatever cells the entries moved through, a map is the function from    *)
(* keys to values C++ says it is: m[k] of a key that is not there is a new *)
(* value of the type, and nothing else is disturbed.                       *)
Promise == INSTANCE CxxDictionary WITH held <- Held
IsADictionary == Promise!Spec

(* tools/cpp_corpus/a_map_keyed_by_string.cpp adds to m[k] before anything *)
(* was stored under k: the value it is given must be zero.                 *)
NewKeysAreZero == [][read /\ ~Has(call.k) => given' = Zero]_vars
=============================================================================
