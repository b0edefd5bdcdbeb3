------------------------------- MODULE Storage -------------------------------
(***************************************************************************)
(* What an allocator promises a program: every block it grants lies in the *)
(* storage there is and apart from every other block the program has, and  *)
(* it takes back only what the program gives.  Which block, and when, is   *)
(* its own affair.  NativeHeap implements it.                              *)
(***************************************************************************)
EXTENDS Integers

CONSTANTS Storage,        \* the addresses there are
          Starts, Sizes   \* where a block may begin, and how long it may be

VARIABLE blocks           \* the size of every block the program has, by address

Extent(a, n) == a .. a + n - 1

Init == blocks = <<>>

Grant(a, n) == /\ n > 0
               /\ Extent(a, n) \subseteq Storage
               /\ \A b \in DOMAIN blocks : Extent(a, n) \cap Extent(b, blocks[b]) = {}
               /\ blocks' = [b \in DOMAIN blocks \cup {a} |->
                               IF b = a THEN n ELSE blocks[b]]

TakeBack(a) == /\ a \in DOMAIN blocks
               /\ blocks' = [b \in DOMAIN blocks \ {a} |-> blocks[b]]

Next == \/ \E a \in Starts, n \in Sizes : Grant(a, n)
        \/ \E a \in DOMAIN blocks : TakeBack(a)

Spec == Init /\ [][Next]_blocks
=============================================================================
