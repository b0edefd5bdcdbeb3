---------------------------- MODULE MCContainers ----------------------------
(***************************************************************************)
(* The containers py2bin writes out, each on its own: a program that uses  *)
(* one of them as its calls allow.  What the other modules keep stays as   *)
(* it was.                                                                 *)
(***************************************************************************)
EXTENDS Integers, Sequences, FiniteSets

CONSTANTS Vectors, Deques, Lists, Values, Zero, None, Null, Idle, Nodes,
          Keys, Scores, NoScore,                    \* of the map: its keys, its values, the one a new key has
          LeastRoom, VectorMost, DequeMost, RoomMost

VARIABLES which,
          vcall, dcall, lcall, mcall,               \* the call that is being made on each
          items, count, sound,                      \* of the vectors
          cells, first, length, inside,             \* of the deques
          node, head, tail, size,                   \* of the lists
          entries, used, given                      \* of the map

vectors == <<vcall, items, count, sound>>
deques  == <<dcall, cells, first, length, inside>>
lists   == <<lcall, node, head, tail, size>>
maps    == <<mcall, entries, used, given>>

Vector == INSTANCE CxxVector WITH Objects <- Vectors, call <- vcall, MaxCount <- VectorMost
Deque  == INSTANCE CxxDeque WITH Objects <- Deques, call <- dcall, items <- cells, count <- length,
                                 MaxCount <- DequeMost, MaxRoom <- RoomMost, FrontFirst <- FALSE
List   == INSTANCE CxxList WITH Objects <- Lists, call <- lcall, count <- size
Map    == INSTANCE CxxMap WITH call <- mcall, Values <- Scores, Zero <- NoScore, ReadsMake <- FALSE

ASSUME VectorAssumption ==
    /\ None \notin Values /\ Zero \in Values
    /\ LET Names == [at : Int, value : Values]
       IN  Idle \notin [op : {"push_back"}, on : Vectors, ref : Names]
                 \cup [op : {"pop_back", "clear", "shrink_to_fit"}, on : Vectors]
                 \cup [op : {"reserve", "resize"}, on : Vectors, n : Nat]
                 \cup [op : {"resize_with", "assign", "fill"}, on : Vectors, n : Nat, ref : Names]
                 \cup [op : {"insert"}, on : Vectors, i : Nat, ref : Names]
                 \cup [op : {"erase"}, on : Vectors, i : Nat, j : Nat]
                 \cup [op : {"insert_all"}, on : Vectors, i : Nat, from : Vectors]
                 \cup [op : {"operator=", "copy", "swap"}, on : Vectors, from : Vectors]

ASSUME DequeAssumption ==
    /\ LeastRoom \in Nat \ {0}
    /\ \A q \in [op : {"push_back", "push_front"}, on : Deques, ref : [at : {-1}, value : Values]]
                \cup [op : {"pop_front", "pop_back", "clear"}, on : Deques] : q # Idle

ASSUME ListAssumption ==
    /\ IsFiniteSet(Nodes) /\ Null \notin Nodes
    /\ \A q \in [op : {"push_back", "push_front"}, on : Lists, ref : [at : {-1}, value : Values]]
                \cup [op : {"pop_front", "pop_back", "clear"}, on : Lists] : q # Idle

ASSUME MapAssumption ==
    /\ Keys \subseteq Int
    /\ LeastRoom \in Nat \ {0}
    /\ NoScore \in Scores
    /\ Idle \notin [op : {"write", "insert"}, k : Keys, v : Scores]
                   \cup [op : {"read", "erase"}, k : Keys] \cup [op : {"clear"}]

Init == /\ which \in {"vector", "deque", "list", "map"}
        /\ Vector!Init /\ Deque!Init /\ List!Init /\ Map!Init

Next == /\ UNCHANGED which
        /\ \/ which = "vector" /\ Vector!Next /\ UNCHANGED <<deques, lists, maps>>
           \/ which = "deque" /\ Deque!Next /\ UNCHANGED <<vectors, lists, maps>>
           \/ which = "list" /\ List!Next /\ UNCHANGED <<vectors, deques, maps>>
           \/ which = "map" /\ Map!Next /\ UNCHANGED <<vectors, deques, lists>>

Spec == Init /\ [][Next]_<<which, vectors, deques, lists, maps>>

(* Elements are built, read and destroyed where they are, once: CxxVector. *)
EachElementOnce == Vector!EachElementOnce

(* A deque writes inside its array: CxxDeque.                              *)
StaysInside == Deque!StaysInside

(* A list is the same nodes from either end: CxxList.                      *)
LinkedBothWays == List!LinkedBothWays

(* A map is walked in the order of its keys: CxxMap.                       *)
WalksInOrder == Map!WalksInOrder

(* Each container is the sequence, or the function, C++ says it is.        *)
KeepTheirPromises == /\ Vector!IsASequence
                     /\ Deque!IsASequence
                     /\ List!IsASequence
                     /\ Map!IsADictionary
=============================================================================
