----------------------------- MODULE CxxSequence ----------------------------
(***************************************************************************)
(* What C++ promises of vector, deque and list: each object is a sequence  *)
(* of values, and a member function does to it what Meaning says, whatever *)
(* storage stands behind it.  A call names the object it is made on, the   *)
(* function and its arguments; an argument taken by reference is the value *)
(* it had when the call was made, even if it is an element of the object.  *)
(***************************************************************************)
EXTENDS Integers, Sequences

CONSTANTS Objects, Values, Zero, Idle

VARIABLES contents,   \* the sequence each object is
          call        \* the call that is being made, or Idle

vars == <<contents, call>>

Init == contents = [o \in Objects |-> <<>>] /\ call = Idle

Copies(n, x) == [i \in 1 .. n |-> x]

\* Positions are C++'s: 0 is the first element.
Before(s, i) == SubSeq(s, 1, i)
From(s, i)   == SubSeq(s, i + 1, Len(s))

\* The value a reference stands for: an element of s, or a value elsewhere.
Named(s, ref) == IF ref.at >= 0 THEN s[ref.at + 1] ELSE ref.value

Resized(s, n, x) == IF n <= Len(s) THEN Before(s, n)
                    ELSE s \o Copies(n - Len(s), x)

\* What the object of call q holds once it has been made.
Meaning(q) ==
  LET s == contents[q.on]
  IN  CASE q.op = "push_back"   -> Append(s, Named(s, q.ref))
        [] q.op = "push_front"  -> <<Named(s, q.ref)>> \o s
        [] q.op = "pop_back"    -> Before(s, Len(s) - 1)
        [] q.op = "pop_front"   -> Tail(s)
        [] q.op = "clear"       -> <<>>
        [] q.op = "resize"      -> Resized(s, q.n, Zero)
        [] q.op = "resize_with" -> Resized(s, q.n, Named(s, q.ref))
        [] q.op \in {"assign", "fill"} -> Copies(q.n, q.ref.value)
        [] q.op = "insert"      -> Before(s, q.i) \o <<Named(s, q.ref)>> \o From(s, q.i)
        [] q.op = "insert_all"  -> Before(s, q.i) \o contents[q.from] \o From(s, q.i)
        [] q.op = "erase"       -> Before(s, q.i) \o From(s, q.j)
        [] q.op \in {"operator=", "copy"} -> contents[q.from]
        [] q.op = "swap"        -> contents[q.from]
        [] q.op \in {"reserve", "shrink_to_fit"} -> s

Begin == /\ call = Idle
         /\ call' # Idle
         /\ UNCHANGED contents

Perform == /\ call # Idle
           /\ contents' = [o \in Objects |->
                IF o = call.on THEN Meaning(call)
                ELSE IF call.op = "swap" /\ o = call.from THEN contents[call.on]
                ELSE contents[o]]
           /\ call' = Idle

Next == Begin \/ Perform

Spec == Init /\ [][Next]_vars
=============================================================================
