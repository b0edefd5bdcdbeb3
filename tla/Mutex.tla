-------------------------------- MODULE Mutex --------------------------------
(***************************************************************************)
(* What std::mutex promises the locks over it: its word says that it is    *)
(* free exactly while no lock owns it, a lock comes to own it only while   *)
(* it is free, and it becomes free only by its one owner letting go.       *)
(***************************************************************************)
CONSTANT Threads

VARIABLES free,         \* what the word says
          has           \* the threads whose locks say that they own it

vars == <<free, has>>

Init == free = TRUE /\ has = {}

Acquire(t) == /\ free = TRUE /\ has = {}
              /\ free' = FALSE /\ has' = {t}

Release(t) == /\ free = FALSE /\ has = {t}
              /\ free' = TRUE /\ has' = {}

Next == \E t \in Threads : Acquire(t) \/ Release(t)

Spec == Init /\ [][Next]_vars
=============================================================================
