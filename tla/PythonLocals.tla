---------------------------- MODULE PythonLocals ----------------------------
(***************************************************************************)
(* What Python does with the local names of a function: each statement of  *)
(* the body reads them and binds one, or raises.  Which statement runs     *)
(* next is left open, as its loops and branches leave it to the input.     *)
(***************************************************************************)
EXTENDS PythonValues

CONSTANT Names

VARIABLES body,         \* the statements of the function
          env,          \* what each name is bound to, or Nothing
          ran           \* the statement that ran last and how it went, or "none"

vars == <<body, env, ran>>

Went(s, how) == ran' = [s |-> s, how |-> how]

Bind(s) == /\ s.k \in {"assign", "aug", "range", "for", "unpack"}
           /\ \E b \in Bindings(s, env) :
                \/ b = Raise /\ Went(s, "raised") /\ UNCHANGED env
                \/ b # Raise /\ InRange(b) /\ Went(s, "went") /\ env' = [env EXCEPT ![s.to] = b]

\* x.append(v): a list has one, an object may, a number does not.
Append(s) == /\ s.k = "append"
             /\ \/ env[s.to].t \in {"list", "obj"} /\ Went(s, "went")
                \/ env[s.to].t # "list" /\ Went(s, "raised")
             /\ UNCHANGED env

Init == env = [n \in Names |-> Nothing] /\ ran = "none"

Next == UNCHANGED body /\ \E s \in body : Bind(s) \/ Append(s)

Spec == Init /\ [][Next]_vars
=============================================================================
