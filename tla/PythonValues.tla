---------------------------- MODULE PythonValues ----------------------------
(***************************************************************************)
(* Python's values as far as the locals of a function need them: integers  *)
(* by their value; floats, lists and other objects by their type alone.    *)
(* And what the statements of a function may come to, given its names.     *)
(***************************************************************************)
EXTENDS Integers

CONSTANT MaxInt         \* bound: no integer further from zero comes up

Whole(k) == [t |-> "int", v |-> k]
Real    == [t |-> "float", v |-> 0]
Lst     == [t |-> "list", v |-> 0]
Obj     == [t |-> "obj", v |-> 0]      \* of a class of the program's own
Nothing == [t |-> "unbound", v |-> 0]
Raise   == [t |-> "raise", v |-> 0]
Anything == {Whole(1), Real, Lst, Obj}

PyFloorDiv(a, b) == IF b > 0 THEN a \div b ELSE (-a) \div (-b)

\* The integers Python's operators answer with, b not zero where it divides.
Exact(op, a, b) == CASE op = "+"  -> a + b
                     [] op = "-"  -> a - b
                     [] op = "*"  -> a * b
                     [] op = "//" -> PyFloorDiv(a, b)
                     [] op = "%"  -> a - b * PyFloorDiv(a, b)

Dividing == {"/", "//", "%"}

\* What `a op b` may come to.
Outcomes(op, a, b) ==
  IF {a.t, b.t} = {"int"}
  THEN IF op \in Dividing /\ b.v = 0 THEN {Raise}
       ELSE IF op = "/" THEN {Real} ELSE {Whole(Exact(op, a.v, b.v))}
  ELSE IF {a.t, b.t} \subseteq {"int", "float"}
  THEN {Real} \cup (IF op \in Dividing THEN {Raise} ELSE {})
  ELSE IF "obj" \in {a.t, b.t} THEN Anything \cup {Raise}
  ELSE IF (op = "+" /\ {a.t, b.t} = {"list"}) \/ (op = "*" /\ {a.t, b.t} = {"list", "int"})
  THEN {Lst}
  ELSE {Raise}

\* What an expression may come to where the names are bound as in e.
Leaf(x, e) == CASE x.k = "int"   -> {Whole(x.v)}
                [] x.k = "float" -> {Real}
                [] x.k = "list"  -> {Lst}
                [] x.k = "call"  -> Anything \cup {Raise}
                [] x.k = "name"  -> {IF e[x.n] = Nothing THEN Raise ELSE e[x.n]}

Eval(x, e) == IF x.k # "op" THEN Leaf(x, e)
              ELSE UNION {IF Raise \in {a, b} THEN {Raise} ELSE Outcomes(x.op, a, b) :
                            a \in Leaf(x.l, e), b \in Leaf(x.r, e)}

Named(n) == [k |-> "name", n |-> n]

\* What the statement may bind its name to; Raise, if it may raise instead.
Bindings(s, e) ==
  CASE s.k = "assign" -> Eval(s.e, e)
    [] s.k = "aug"    -> Eval([k |-> "op", op |-> s.op, l |-> Named(s.to), r |-> s.e], e)
    [] s.k = "range"  -> {Whole(c) : c \in
                            {x \in -MaxInt .. MaxInt : /\ IF s.step > 0 THEN x >= s.lo /\ x < s.hi
                                                                        ELSE x <= s.lo /\ x > s.hi
                                                       /\ (x - s.lo) % Exact("*", s.step, IF s.step > 0 THEN 1 ELSE -1) = 0}}
    [] s.k \in {"for", "unpack"} -> Anything

InRange(b) == b.t = "int" => b.v \in -MaxInt .. MaxInt
=============================================================================
