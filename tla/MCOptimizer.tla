----------------------------- MODULE MCOptimizer ----------------------------
(***************************************************************************)
(* Every entry point of up to five operations, optimized; then the program *)
(* as it was, what _settle_branches left of it and what optimize left are  *)
(* run, one after the other.  What a condition comes to that is not a      *)
(* constant is decided once, for all three.                                *)
(***************************************************************************)
EXTENDS Integers, Sequences, FiniteSets

CONSTANTS Operations, Programs,
          MaxSteps      \* bound: a program is left after so many operations

VARIABLES source, phase, at, settled, unreachable, optimized, terminated,
          pc,           \* of each of the three, the operation it runs next, or 0 at its end
          steps,        \* how many it has run
          did,          \* the bytes it wrote and the effects it had, in order
          asked,        \* how many conditions it has come to
          decided       \* what they came to

Pass == INSTANCE Optimizer

passes  == <<source, phase, at, settled, unreachable, optimized, terminated>>
running == <<pc, steps, did, asked, decided>>
Stages == {"source", "settled", "optimized"}
Text(k) == CASE k = "source" -> source
             [] k = "settled" -> settled
             [] k = "optimized" -> optimized

MCOperations == {[op |-> "label", name |-> "l"], [op |-> "jump", target |-> "l"],
                 [op |-> "exit"], [op |-> "effect"]}
                \cup [op : {"write"}, fd : {1}, data : {<<"a">>, <<"b">>, <<>>}]
                \cup [op : {"write"}, fd : {2}, data : {<<"b">>}]
                \cup [op : {"branch"}, cond : {"zero", "other", "unknown"}, target : {"l"}]

MCPrograms == {p \in UNION {[1 .. n -> MCOperations] : n \in 0 .. 5} :
                 LET Of(kinds) == {i \in DOMAIN p : p[i].op \in kinds}
                 IN  /\ Cardinality(Of({"label"})) <= 1
                     /\ Of({"jump", "branch"}) # {} => Of({"label"}) # {}}

Holds(s) == {s[i] : i \in DOMAIN s}

ASSUME OperationsAssumption ==
    \A o \in Operations : /\ o.op = "label" => o = Pass!Label(o.name)
                          /\ o.op = "write" => o.data \in Seq(Holds(o.data))

(* A label is a new one wherever it is made (Lowerer.new_label), and every *)
(* jump has one: a backend refuses an undefined label (_patch_branches).   *)
ASSUME LabelsAssumption ==
    /\ Programs \subseteq Seq(Operations)
    /\ \A p \in Programs : /\ Pass!WellFormed(p)
                          /\ \A i, j \in DOMAIN p : p[i].op = "label" /\ p[j] = p[i] => i = j

MCInit == /\ Pass!Init
          /\ pc = [k \in Stages |-> 0]
          /\ steps = [k \in Stages |-> 0]
          /\ did = [k \in Stages |-> <<>>]
          /\ asked = [k \in Stages |-> 0]
          /\ decided = <<>>

(* Optimizing leaves three programs ready to start.                        *)
Optimize == /\ Pass!Next
            /\ pc' = [k \in Stages |-> IF phase' = "done" /\ Text(k)' # <<>> THEN 1 ELSE 0]
            /\ UNCHANGED <<steps, did, asked, decided>>

(* Falling off the end is an exit.                                         *)
Proceed(k, to) == pc' = [pc EXCEPT ![k] = IF to \in DOMAIN Text(k) THEN to ELSE 0]
Leap(k, l) == Proceed(k, CHOOSE i \in DOMAIN Text(k) : Text(k)[i] = Pass!Label(l))

Shows(k, what) == /\ did' = [did EXCEPT ![k] = @ \o what]
                  /\ Proceed(k, pc[k] + 1)
                  /\ UNCHANGED <<asked, decided>>

Asks(k, o) == /\ \E zero \in BOOLEAN :
                   /\ asked[k] < Len(decided) => zero = decided[asked[k] + 1]
                   /\ decided' = IF asked[k] < Len(decided) THEN decided ELSE Append(decided, zero)
                   /\ IF zero THEN Leap(k, o.target) ELSE Proceed(k, pc[k] + 1)
              /\ asked' = [asked EXCEPT ![k] = @ + 1]
              /\ UNCHANGED did

Flow(k, o) == /\ \/ o.op = "label" /\ Proceed(k, pc[k] + 1)
                 \/ o.op = "jump" /\ Leap(k, o.target)
                 \/ o.op = "branch" /\ o.cond = "zero" /\ Leap(k, o.target)
                 \/ o.op = "branch" /\ o.cond = "other" /\ Proceed(k, pc[k] + 1)
                 \/ o.op = "exit" /\ Proceed(k, 0)
              /\ UNCHANGED <<did, asked, decided>>

Perform(k) == LET o == Text(k)[pc[k]]
              IN  /\ \/ o.op = "effect" /\ Shows(k, <<"effect">>)
                     \/ o.op = "write" /\ Shows(k, [i \in DOMAIN o.data |-> <<o.fd, o.data[i]>>])
                     \/ o.op = "branch" /\ o.cond = "unknown" /\ Asks(k, o)
                     \/ Flow(k, o)
                  /\ steps' = [steps EXCEPT ![k] = @ + 1]

(* The others are given the operations the source took, and one for the    *)
(* exit that is added.                                                     *)
Stopped(k) == pc[k] = 0 \/ steps[k] = IF k = "source" THEN MaxSteps ELSE steps["source"] + 1

Run == /\ phase = "done"
       /\ UNCHANGED passes
       /\ \/ ~Stopped("source") /\ Perform("source")
          \/ Stopped("source") /\ ~Stopped("settled") /\ Perform("settled")
          \/ Stopped("source") /\ Stopped("settled") /\ ~Stopped("optimized") /\ Perform("optimized")

MCSpec == MCInit /\ [][Optimize \/ Run]_<<passes, running>>

Agree(a, b) == \A i \in DOMAIN a \cap DOMAIN b : a[i] = b[i]

(* "Return an equivalent, smaller native IR module": whatever its          *)
(* conditions come to, a program writes the same bytes to the same places  *)
(* and has the same effects, in the same order, after each pass as before  *)
(* it; and where it ended it still ends, in no more operations than it     *)
(* took and the exit that is added (_settle_branches, optimize).           *)
SameProgram ==
  /\ \A k \in Stages : Agree(did[k], did["source"])
  /\ phase = "done" /\ pc["source"] = 0 => \A k \in Stages : Stopped(k) => pc[k] = 0
  /\ phase = "done" /\ (\A k \in Stages : pc[k] = 0) => \A k \in Stages : did[k] = did["source"]
=============================================================================
