---------------------------- MODULE ContentCache ----------------------------
(***************************************************************************)
(* What the cache of a one-file program promises: the payload is unpacked  *)
(* once, what was published stays, and every launch starts the program     *)
(* from the whole of it or reports that it could not.                      *)
(***************************************************************************)
CONSTANT Launches

VARIABLES published,    \* whether the unpacked payload is there, whole
          outcome       \* what became of each launch

vars == <<published, outcome>>

Init == published = FALSE /\ outcome = [l \in Launches |-> "none"]

Publish == /\ ~published
           /\ published' = TRUE
           /\ UNCHANGED outcome

Run(l) == /\ published
          /\ outcome[l] = "none"
          /\ outcome' = [outcome EXCEPT ![l] = "running"]
          /\ UNCHANGED published

GiveUp(l) == /\ outcome[l] = "none"
             /\ outcome' = [outcome EXCEPT ![l] = "failed"]
             /\ UNCHANGED published

Next == Publish \/ \E l \in Launches : Run(l) \/ GiveUp(l)

Spec == Init /\ [][Next]_vars
=============================================================================
