------------------------------- MODULE CxxList ------------------------------
(***************************************************************************)
(* py2bin's own std::list, the C++ text of _LIST_HEADER: nodes linked both *)
(* ways, a head, a tail and a count that must agree with each other after  *)
(* any mix of operations at the two ends.                                  *)
(***************************************************************************)
EXTENDS Integers, Sequences, FiniteSets

CONSTANTS Objects, Values, Zero, Idle,
          Nodes,        \* what new may answer with; a bound on the elements
          Null

VARIABLES node,         \* the nodes that have been made and not deleted
          head, tail, count,
          call

vars == <<node, head, tail, count, call>>

Init == /\ node = <<>>
        /\ head = [o \in Objects |-> Null]
        /\ tail = [o \in Objects |-> Null]
        /\ count = [o \in Objects |-> 0]
        /\ call = Idle

Free == Nodes \ DOMAIN node

Elsewhere == {[at |-> -1, value |-> x] : x \in Values}

Calls(o) == {q \in [op : {"push_back", "push_front"}, on : {o}, ref : Elsewhere] : Free # {}}
            \cup {q \in [op : {"pop_back", "pop_front"}, on : {o}] : count[o] > 0}
            \cup [op : {"clear"}, on : {o}]

Begin == /\ call = Idle
         /\ \E o \in Objects : call' \in Calls(o)
         /\ UNCHANGED <<node, head, tail, count>>

Making(op) == call # Idle /\ call.op = op

\* The pool with node n linked as given, after its neighbour was told of it.
With(pool, n, made) == [m \in DOMAIN pool \cup {n} |-> IF m = n THEN made ELSE pool[m]]
Told(pool, n, side, to) == IF n = Null THEN pool ELSE [pool EXCEPT ![n][side] = to]
Without(pool, n) == [m \in DOMAIN pool \ {n} |-> pool[m]]

push_back ==
  /\ Making("push_back")
  /\ LET o == call.on
     IN  \E made \in Free :
           /\ node' = With(Told(node, tail[o], "next", made), made,
                           [value |-> call.ref.value, next |-> Null, prev |-> tail[o]])
           /\ head' = IF tail[o] = Null THEN [head EXCEPT ![o] = made] ELSE head
           /\ tail' = [tail EXCEPT ![o] = made]
           /\ count' = [count EXCEPT ![o] = @ + 1]
  /\ call' = Idle

push_front ==
  /\ Making("push_front")
  /\ LET o == call.on
     IN  \E made \in Free :
           /\ node' = With(Told(node, head[o], "prev", made), made,
                           [value |-> call.ref.value, next |-> head[o], prev |-> Null])
           /\ tail' = IF head[o] = Null THEN [tail EXCEPT ![o] = made] ELSE tail
           /\ head' = [head EXCEPT ![o] = made]
           /\ count' = [count EXCEPT ![o] = @ + 1]
  /\ call' = Idle

\* A mutant: the tail of a list that has become empty is left.
PopFrontTailed(l) ==
  IF l.head = Null THEN l
  ELSE LET next == l.pool[l.head].next
       IN  [pool |-> Without(Told(l.pool, next, "prev", Null), l.head),
            head |-> next, tail |-> l.tail, count |-> l.count - 1]

\* What pop_front leaves of a list: its pool, head, tail and count.
PopFront(l) ==
  IF l.head = Null THEN l
  ELSE LET next == l.pool[l.head].next
       IN  [pool |-> Without(Told(l.pool, next, "prev", Null), l.head),
            head |-> next, tail |-> IF next = Null THEN Null ELSE l.tail, count |-> l.count - 1]

PopBack(l) ==
  IF l.tail = Null THEN l
  ELSE LET prev == l.pool[l.tail].prev
       IN  [pool |-> Without(Told(l.pool, prev, "next", Null), l.tail),
            head |-> IF prev = Null THEN Null ELSE l.head, tail |-> prev, count |-> l.count - 1]

Here(o) == [pool |-> node, head |-> head[o], tail |-> tail[o], count |-> count[o]]

\* while (count > 0) pop_front();
Cleared(l) == LET left[n \in 0 .. l.count] == IF n = l.count THEN l ELSE PopFront(left[n + 1])
              IN  left[0]

Left(o, l) == /\ node' = l.pool
              /\ head' = [head EXCEPT ![o] = l.head]
              /\ tail' = [tail EXCEPT ![o] = l.tail]
              /\ count' = [count EXCEPT ![o] = l.count]
              /\ call' = Idle

pop_front == Making("pop_front") /\ Left(call.on, PopFront(Here(call.on)))
pop_back  == Making("pop_back") /\ Left(call.on, PopBack(Here(call.on)))
clear     == Making("clear") /\ Left(call.on, Cleared(Here(call.on)))

Next == Begin \/ push_back \/ push_front \/ pop_front \/ pop_back \/ clear

Spec == Init /\ [][Next]_vars

\* The first n nodes from a node on, one way or the other.
Walk(start, side, n) ==
  LET at[i \in 1 .. n] == IF i = 1 THEN start ELSE node[at[i - 1]][side]
  IN  at

Forward(o)  == Walk(head[o], "next", count[o])
Backward(o) == Walk(tail[o], "prev", count[o])

(* Walked from either end a list is the same nodes, the last of them links *)
(* to nothing, and every node that was made and not deleted is in exactly  *)
(* one list.                                                               *)
LinkedBothWays ==
  /\ \A o \in Objects :
       /\ \A i \in 1 .. count[o] : Forward(o)[i] = Backward(o)[count[o] + 1 - i]
       /\ IF count[o] = 0 THEN head[o] = Null /\ tail[o] = Null
          ELSE node[tail[o]].next = Null /\ node[head[o]].prev = Null
  /\ \A n \in DOMAIN node : Cardinality({oi \in Objects \X (1 .. Cardinality(Nodes)) :
                              oi[2] <= count[oi[1]] /\ Forward(oi[1])[oi[2]] = n}) = 1

Contents == [o \in Objects |-> [i \in 1 .. count[o] |-> node[Forward(o)[i]].value]]

(* Pushed and popped at both ends, a list is the sequence C++ says it is.  *)
Promise == INSTANCE CxxSequence WITH contents <- Contents
IsASequence == Promise!Spec
=============================================================================
