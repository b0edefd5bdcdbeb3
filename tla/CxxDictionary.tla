---------------------------- MODULE CxxDictionary ---------------------------
(***************************************************************************)
(* What C++ promises of a map: a function from the keys that are in it to  *)
(* their values.                                                           *)
(***************************************************************************)
CONSTANTS Values, Zero, Idle

VARIABLES held,      \* the value of each key that is in the map
          call,      \* the call that is being made, or Idle
          given      \* what the last m[k] that was read answered, or Idle

vars == <<held, call, given>>

Init == held = <<>> /\ call = Idle /\ given = Idle

Begin == call = Idle /\ call' # Idle /\ UNCHANGED <<held, given>>

\* m[k] = v over whatever is there; insert only where nothing is.
With(k, v)  == [x \in DOMAIN held \cup {k} |-> IF x = k THEN v ELSE held[x]]
Added(k, v) == IF k \in DOMAIN held THEN held ELSE With(k, v)

Write  == call.op = "write" /\ held' = With(call.k, call.v) /\ given' = Idle
Insert == call.op = "insert" /\ held' = Added(call.k, call.v) /\ given' = Idle
Read   == call.op = "read" /\ held' = Added(call.k, Zero) /\ given' = held'[call.k]
Erase  == call.op = "erase" /\ held' = [k \in DOMAIN held \ {call.k} |-> held[k]] /\ given' = Idle
Clear  == call.op = "clear" /\ held' = <<>> /\ given' = Idle

Perform == /\ call # Idle
           /\ Write \/ Insert \/ Read \/ Erase \/ Clear
           /\ call' = Idle

Next == Begin \/ Perform

Spec == Init /\ [][Next]_vars
=============================================================================
