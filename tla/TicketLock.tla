----------------------------- MODULE TicketLock -----------------------------
(***************************************************************************)
(* The lock in front of the allocator's free lists: __py2bin_heap_take and *)
(* __py2bin_heap_give, in the C text of py2bin's own <stdlib.h>.  A thread *)
(* draws a ticket with an atomic add and waits until it is the one served; *)
(* giving the lock back serves the next ticket.                            *)
(*                                                                         *)
(* Both counters are C `long`s, so they are kept modulo LongSpan, and the  *)
(* only atomic py2bin emits adds to a 64-bit word.  Where `long` has 64    *)
(* bits the two agree.  On Windows it has 32, and `serving` is the four    *)
(* bytes after `ticket`: WideAdd says the add is wider than the counter,   *)
(* so that the carry out of a full ticket lands in `serving`.              *)
(***************************************************************************)
EXTENDS Integers, FiniteSets

CONSTANTS Threads,    \* the threads of the compiled program
          LongSpan,   \* 2^width of a `long` on the target
          WideAdd     \* TRUE where the atomic word is wider than a `long`

ASSUME ThreadsAssumption == IsFiniteSet(Threads)
ASSUME LongSpanAssumption == /\ LongSpan \in Nat
                             /\ Cardinality(Threads) < LongSpan
ASSUME WideAddAssumption == WideAdd \in BOOLEAN

VARIABLES ticket,     \* __py2bin_heap_ticket: the next ticket to be drawn
          serving,    \* __py2bin_heap_serving: the ticket being served
          mine,       \* __mine of each thread's call of __py2bin_heap_take
          at          \* where each thread is with respect to the lock

vars == <<ticket, serving, mine, at>>

Long == 0 .. LongSpan - 1
Places == {"outside", "waiting", "confirming", "inside"}

(* One more, as a two's-complement word of the target's `long` counts.     *)
Succ(n) == IF n + 1 = LongSpan THEN 0 ELSE n + 1

(* How many tickets after the one being served n is.                       *)
Ahead(n) == IF n >= serving THEN n - serving ELSE n - serving + LongSpan

Init == /\ ticket = 0
        /\ serving = 0
        /\ mine = [t \in Threads |-> 0]
        /\ at = [t \in Threads |-> "outside"]

-----------------------------------------------------------------------------
(* Slips in this code that the properties below must notice.               *)

(* The carry of the wide add is not told from the target's own width.      *)
DrawTicketWithCarry(t) ==
  /\ at[t] = "outside"
  /\ mine' = [mine EXCEPT ![t] = ticket]
  /\ ticket' = Succ(ticket)
  /\ serving' = IF ticket + 1 = LongSpan THEN Succ(serving) ELSE serving
  /\ at' = [at EXCEPT ![t] = "waiting"]

(* The confirming add adds one instead of nothing.                         *)
ConfirmByAddingOne(t) ==
  /\ at[t] = "confirming"
  /\ at' = [at EXCEPT ![t] = IF serving = mine[t] THEN "inside" ELSE "waiting"]
  /\ serving' = Succ(serving)
  /\ UNCHANGED <<ticket, mine>>

(* The confirming add is compared the other way round.                     *)
ConfirmAnother(t) ==
  /\ at[t] = "confirming"
  /\ at' = [at EXCEPT ![t] = IF serving # mine[t] THEN "inside" ELSE "waiting"]
  /\ UNCHANGED <<ticket, serving, mine>>

-----------------------------------------------------------------------------
(* __mine = __py2bin_atomic_add(&__py2bin_heap_ticket, 1)                  *)
DrawTicket(t) ==
  /\ at[t] = "outside"
  /\ mine' = [mine EXCEPT ![t] = ticket]
  /\ ticket' = Succ(ticket)
  /\ serving' = IF WideAdd /\ ticket + 1 = LongSpan THEN Succ(serving) ELSE serving
  /\ at' = [at EXCEPT ![t] = "waiting"]

(* while (*(volatile long *)&__py2bin_heap_serving != __mine) { } - left   *)
See(t) ==
  /\ at[t] = "waiting"
  /\ serving = mine[t]
  /\ at' = [at EXCEPT ![t] = "confirming"]
  /\ UNCHANGED <<ticket, serving, mine>>

(* if (__py2bin_atomic_add(&__py2bin_heap_serving, 0) == __mine) return;   *)
Confirm(t) ==
  /\ at[t] = "confirming"
  /\ at' = [at EXCEPT ![t] = IF serving = mine[t] THEN "inside" ELSE "waiting"]
  /\ UNCHANGED <<ticket, serving, mine>>

(* __py2bin_heap_give                                                      *)
Give(t) ==
  /\ at[t] = "inside"
  /\ serving' = Succ(serving)
  /\ at' = [at EXCEPT ![t] = "outside"]
  /\ UNCHANGED <<ticket, mine>>

Next == \E t \in Threads : DrawTicket(t) \/ See(t) \/ Confirm(t) \/ Give(t)

Spec == Init /\ [][Next]_vars

(* The machine runs every thread: a step of a thread that stays possible   *)
(* is taken.  Nothing makes a thread ask for the lock.                     *)
FairSpec == Spec /\ \A t \in Threads : WF_vars(See(t) \/ Confirm(t)) /\ WF_vars(Give(t))

-----------------------------------------------------------------------------
(* Every counter keeps to the width of a `long`.                           *)
TypeOK == /\ ticket \in Long
          /\ serving \in Long
          /\ mine \in [Threads -> Long]
          /\ at \in [Threads -> Places]

(* The threads with a ticket that has not been given back.                 *)
Ticketed == {t \in Threads : at[t] # "outside"}

(* Two threads are never among the lists at once: what lets malloc and     *)
(* free read a list's head and write it back in two steps.                 *)
MutualExclusion ==
  \A t, u \in Threads : at[t] = "inside" /\ at[u] = "inside" => t = u

(* The tickets from `serving` up to `ticket` are exactly those of the      *)
(* threads that drew one and have not given the lock back, each held by    *)
(* one thread - and a thread that saw its ticket served keeps being        *)
(* served.  This is what survives the counters wrapping round, and why the *)
(* confirming add never sends a thread back to waiting.                    *)
Window ==
  /\ Ahead(ticket) = Cardinality(Ticketed)
  /\ \A t \in Ticketed : Ahead(mine[t]) < Ahead(ticket)
  /\ \A t, u \in Ticketed : mine[t] = mine[u] => t = u
  /\ \A t \in Threads : at[t] \in {"confirming", "inside"} => mine[t] = serving

-----------------------------------------------------------------------------
(* The fair lock this implements: its queue is the threads with a ticket,  *)
(* in the order of their tickets.                                          *)
ServedAfter(i) == CHOOSE t \in Ticketed : Ahead(mine[t]) = i
Queue == [i \in 1 .. Cardinality(Ticketed) |-> ServedAfter(i - 1)]
Inside == {t \in Threads : at[t] = "inside"}
Fifo == INSTANCE FifoLock WITH queue <- Queue, holders <- Inside

(* Threads are served one at a time, in the order they drew their tickets, *)
(* and every thread that drew one is served: taking the lock never starves *)
(* anybody, which a lock of attempts did under four threads.               *)
ServedInOrder == Fifo!FairSpec
=============================================================================
