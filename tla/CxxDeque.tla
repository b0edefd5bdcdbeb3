------------------------------ MODULE CxxDeque ------------------------------
(***************************************************************************)
(* py2bin's own std::deque, the C++ text of _DEQUE_HEADER: one array with  *)
(* a start that moves.  Elements are plain values; what a deque can get    *)
(* wrong is where it puts them.                                            *)
(***************************************************************************)
EXTENDS Integers, Sequences

CONSTANTS Objects, Values, Zero, Idle,
          None,        \* a cell nothing was written to
          LeastRoom,   \* the first room taken: 8 in the code
          MaxCount,    \* bound on the elements
          MaxRoom,     \* bound on the room: no call is made that would take more
          FrontFirst   \* TRUE if push_front may be the call that finds a deque empty

VARIABLES items,       \* the cells of each deque's storage, from 0 to room - 1
          first, count,
          call,
          inside       \* nothing was written or read outside storage

vars == <<items, first, count, call, inside>>

Init == /\ items = [o \in Objects |-> <<>>]
        /\ first = [o \in Objects |-> 0]
        /\ count = [o \in Objects |-> 0]
        /\ call = Idle
        /\ inside = TRUE

\* The array is indexed from 0, and has as many cells as malloc was asked for.
RoomOf(cells) == IF cells = <<>> THEN 0 ELSE 1 + CHOOSE i \in DOMAIN cells : i + 1 \notin DOMAIN cells
Room(o) == RoomOf(items[o])

Wider(o) == IF Room(o) = 0 THEN LeastRoom ELSE 2 * Room(o)

\* __grow: the elements go to the start of a new array; the old one is not given back.
Grown(o, want) ==
  IF want <= Room(o) THEN items[o]
  ELSE LET room == IF want < LeastRoom THEN LeastRoom ELSE want
       IN  [i \in 0 .. room - 1 |-> IF i < count[o] THEN items[o][first[o] + i] ELSE None]

\* The loop that moves count cells by so many places, each way in the order that is safe for it.
MovedDown(cells, by, n) ==
  LET s[i \in 0 .. n] == IF i = 0 THEN cells ELSE [s[i - 1] EXCEPT ![i - 1] = s[i - 1][by + i - 1]]
  IN  s[n]
MovedUp(cells, by, n) ==
  LET s[i \in 0 .. n] == IF i = 0 THEN cells ELSE [s[i - 1] EXCEPT ![n - i + by] = s[i - 1][n - i]]
  IN  s[n]

Full(o) == first[o] + count[o] = Room(o)

\* What storage and start push_back and push_front write to.
BackReady(o) ==
  IF ~Full(o) THEN [cells |-> items[o], first |-> first[o]]
  ELSE IF first[o] > 0 THEN [cells |-> MovedDown(items[o], first[o], count[o]), first |-> 0]
  ELSE [cells |-> Grown(o, Wider(o)), first |-> 0]

\* A mutant: the array is thought large enough if it has a cell to spare.
FrontReadyTight(o) ==
  IF first[o] # 0 THEN [cells |-> items[o], first |-> first[o]]
  ELSE [cells |-> MovedUp(Grown(o, count[o] + 1), count[o], count[o]), first |-> count[o]]

FrontReady(o) ==
  IF first[o] # 0 THEN [cells |-> items[o], first |-> first[o]]
  ELSE [cells |-> MovedUp(Grown(o, Wider(o)), count[o], count[o]), first |-> count[o]]

Elsewhere == {[at |-> -1, value |-> x] : x \in Values}

Calls(o) ==
  {q \in [op : {"push_back"}, on : {o}, ref : Elsewhere] :
     /\ count[o] < MaxCount
     /\ Full(o) /\ first[o] = 0 => Wider(o) <= MaxRoom}
  \cup {q \in [op : {"push_front"}, on : {o}, ref : Elsewhere] :
     /\ count[o] < MaxCount
     /\ first[o] = 0 => Wider(o) <= MaxRoom
     /\ count[o] = 0 /\ first[o] = 0 => FrontFirst}
  \cup {q \in [op : {"pop_front", "pop_back"}, on : {o}] : count[o] > 0}
  \cup [op : {"clear"}, on : {o}]

Begin == /\ call = Idle
         /\ \E o \in Objects : call' \in Calls(o)
         /\ UNCHANGED <<items, first, count, inside>>

Making(op) == call # Idle /\ call.op = op

\* Value x is written at cell i of ready storage, which becomes the deque's.
Written(o, ready, i, from) ==
  /\ items' = [items EXCEPT ![o] = IF i \in DOMAIN ready.cells
                                   THEN [ready.cells EXCEPT ![i] = call.ref.value] ELSE ready.cells]
  /\ inside' = (inside /\ i \in DOMAIN ready.cells)
  /\ first' = [first EXCEPT ![o] = from]
  /\ count' = [count EXCEPT ![o] = @ + 1]
  /\ call' = Idle

push_back == /\ Making("push_back")
             /\ LET o == call.on  ready == BackReady(o)
                IN  Written(o, ready, ready.first + count[o], ready.first)

push_front == /\ Making("push_front")
              /\ LET o == call.on  ready == FrontReady(o)
                 IN  Written(o, ready, ready.first - 1, ready.first - 1)

Left(o, start, n) == /\ first' = [first EXCEPT ![o] = start]
                     /\ count' = [count EXCEPT ![o] = n]
                     /\ call' = Idle
                     /\ UNCHANGED <<items, inside>>

pop_front == Making("pop_front") /\ Left(call.on, first[call.on] + 1, count[call.on] - 1)
pop_back  == Making("pop_back") /\ Left(call.on, first[call.on], count[call.on] - 1)
clear     == Making("clear") /\ Left(call.on, 0, 0)

Next == Begin \/ push_back \/ push_front \/ pop_front \/ pop_back \/ clear

Spec == Init /\ [][Next]_vars

(* Nothing is ever written outside the array, and the elements the deque   *)
(* says it has are all in it: from first, count of them.                   *)
StaysInside == /\ inside
               /\ \A o \in Objects : first[o] >= 0 /\ first[o] + count[o] <= Room(o)

Contents == [o \in Objects |-> [i \in 1 .. count[o] |-> items[o][first[o] + i - 1]]]

(* Pushed and popped at both ends, a deque is the sequence C++ says it is. *)
Promise == INSTANCE CxxSequence WITH contents <- Contents
IsASequence == Promise!Spec
=============================================================================
