------------------------------ MODULE FifoLock ------------------------------
(***************************************************************************)
(* What a fair lock promises, whatever it is built from: the threads that  *)
(* ask for it are served one at a time, in the order they asked, and every *)
(* one of them is served.  TicketLock implements it.                       *)
(***************************************************************************)
EXTENDS Sequences, FiniteSets

CONSTANT Threads

VARIABLES queue,      \* the threads that asked, in the order they asked
          holders     \* the threads being served: one at most

vars == <<queue, holders>>

Init == queue = <<>> /\ holders = {}

Ask(t) == /\ \A i \in DOMAIN queue : queue[i] # t
          /\ queue' = Append(queue, t)
          /\ UNCHANGED holders

Serve(t) == /\ holders = {}
            /\ queue # <<>>
            /\ Head(queue) = t
            /\ holders' = {t}
            /\ UNCHANGED queue

Release(t) == /\ t \in holders
              /\ queue' = Tail(queue)
              /\ holders' = {}

Next == \E t \in Threads : Ask(t) \/ Serve(t) \/ Release(t)

Spec == Init /\ [][Next]_vars

FairSpec == Spec /\ \A t \in Threads : WF_vars(Serve(t)) /\ WF_vars(Release(t))
=============================================================================
