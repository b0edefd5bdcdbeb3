------------------------------ MODULE CapiLocals ----------------------------
(***************************************************************************)
(* The local names of a compiled function: which of them capi_ints.py,     *)
(* capi_floats.py and capi_exact.py pick out of its body, and what the C   *)
(* capi_emit.py writes for it does with them.  A name that is picked has   *)
(* three variables: a register, an object, and a flag saying which of the  *)
(* two holds its value.                                                    *)
(***************************************************************************)
EXTENDS MachineIntegers, PythonValues, FiniteSets

CONSTANTS Names,
          Bodies        \* the functions: sets of statements, as PythonLocals runs them

\* Expressions are one operator deep.
Operators  == {"+", "-", "*", "/", "//", "%"}
LeafNodes  == [k : {"int"}, v : Int] \cup [k : {"float", "list", "call"}] \cup [k : {"name"}, n : Names]
Nodes      == LeafNodes \cup [k : {"op"}, op : Operators, l : LeafNodes, r : LeafNodes]
Statements == [k : {"assign"}, to : Names, e : Nodes]
              \cup [k : {"aug"}, to : Names, op : Operators, e : LeafNodes]
              \cup [k : {"range"}, to : Names, lo : Int, hi : Int, step : Int \ {0}]
              \cup [k : {"for", "unpack", "append", "nested"}, to : Names]

ASSUME BodiesAssumption == IsFiniteSet(Names) /\ \A b \in Bodies : b \subseteq Statements

\* Integers are followed at least as far as a word goes.
ASSUME ReachAssumption == MaxInt \in Nat /\ Half <= MaxInt

VARIABLES body, ran,
          reg,          \* n_x, or d_x where x is a double
          obj,          \* v_x
          flag          \* s_x

vars == <<body, ran, reg, obj, flag>>

(***************************************************************************)
(* The analyses.                                                           *)
(***************************************************************************)
IntArithmetic   == {"+", "-", "*", "//", "%"}
FloatArithmetic == {"+", "-", "*", "/"}

Expressions(b)     == {s.e : s \in {t \in b : t.k \in {"assign", "aug"}}}
NarrowlyBound(b)   == {s.to : s \in {t \in b : t.k \in {"assign", "aug", "for", "range"}}}
OtherwiseBound(b)  == {s.to : s \in {t \in b : t.k = "unpack"}}
Escaped(b)         == {s.to : s \in {t \in b : t.k = "nested"}}

Calculated(b, ops) ==
  {n \in Names : \/ \E x \in Expressions(b) : /\ x.k = "op" /\ x.op \in ops
                                              /\ Named(n) \in {x.l, x.r}
                 \/ \E s \in b : s.k = "aug" /\ s.op \in IntArithmetic /\ s.to = n}

Eligible(b, ops) == ((Calculated(b, ops) \cap NarrowlyBound(b)) \ OtherwiseBound(b)) \ Escaped(b)

\* x op= e binds x to x op e.
Rewritten(s) == [k |-> "op", op |-> s.op, l |-> Named(s.to), r |-> s.e]

Sources(b, n) == {s.e : s \in {t \in b : t.k = "assign" /\ t.to = n}}
                 \cup {Rewritten(s) : s \in {t \in b : t.k = "aug" /\ t.to = n /\ t.op \in FloatArithmetic}}

NarrowLeaf(x, doubles) == x.k = "float" \/ (x.k = "name" /\ x.n \in doubles)
Floatish(x, doubles)   == x.k = "int" \/ NarrowLeaf(x, doubles)
IsFloat(x, doubles) ==
  \/ x.k # "op" /\ NarrowLeaf(x, doubles)
  \/ /\ x.k = "op" /\ x.op \in FloatArithmetic
     /\ \/ NarrowLeaf(x.l, doubles) /\ Floatish(x.r, doubles)
        \/ NarrowLeaf(x.r, doubles) /\ Floatish(x.l, doubles)

Struck(b, doubles) == {n \in doubles : \/ Sources(b, n) = {}
                                       \/ \E x \in Sources(b, n) : ~IsFloat(x, doubles)}

\* A mutant: one pass is thought enough.
DoubleLocalsOnce(b) == LET d == Eligible(b, IntArithmetic \cup FloatArithmetic) IN d \ Struck(b, d)

\* Every eligible name is taken for a float, and struck out until none has to be.
DoubleLocals(b) ==
  LET left[d \in SUBSET Names] == IF Struck(b, d) = {} THEN d ELSE left[d \ Struck(b, d)]
  IN  left[Eligible(b, IntArithmetic \cup FloatArithmetic)]

IntLocals(b) == Eligible(b, IntArithmetic) \ DoubleLocals(b)

Displays(b, n) == {s.e.k : s \in {t \in b : t.k = "assign" /\ t.to = n}}
ExactLists(b) == {n \in Names : Displays(b, n) = {"list"}} \ (OtherwiseBound(b) \cup Escaped(b))

(***************************************************************************)
(* The C that is written.                                                  *)
(***************************************************************************)
Doubles == DoubleLocals(body)
Ints    == IntLocals(body)

Held(n) == IF flag[n] THEN IF n \in Doubles THEN Real ELSE Whole(reg[n])
           ELSE obj[n]
Env == [n \in Names |-> Held(n)]

Init == /\ body \in Bodies
        /\ reg = [n \in Names |-> 0]
        /\ obj = [n \in Names |-> Nothing]
        /\ flag = [n \in Names |-> FALSE]
        /\ ran = "none"

Went(s, how) == ran' = [s |-> s, how |-> how]

\* store_object, store_double_object, and what a name of one variable does.
StoreObject(s, value) == /\ obj' = [obj EXCEPT ![s.to] = value]
                         /\ flag' = [flag EXCEPT ![s.to] = FALSE]
                         /\ UNCHANGED reg
                         /\ Went(s, "went")

\* A mutant: the object that was there is left.
StoreRegisterOver(s, value) == /\ reg' = [reg EXCEPT ![s.to] = value]
                               /\ flag' = [flag EXCEPT ![s.to] = TRUE]
                               /\ Went(s, "went")
                               /\ UNCHANGED obj

\* store_machine, store_real
StoreRegister(s, value) == /\ obj' = [obj EXCEPT ![s.to] = Nothing]
                           /\ reg' = [reg EXCEPT ![s.to] = value]
                           /\ flag' = [flag EXCEPT ![s.to] = TRUE]
                           /\ Went(s, "went")

Fails(s, how) == Went(s, how) /\ UNCHANGED <<reg, obj, flag>>

\* The plain translation: whatever the C API answers is stored or raised.
Plainly(s) == \E b \in Bindings(s, Env) :
                \/ b = Raise /\ Fails(s, "raised")
                \/ b # Raise /\ InRange(b) /\ StoreObject(s, b)

Leaves(x) == IF x.k = "op" THEN {x.l, x.r} ELSE {x}
Literal(x) == x.k = "int" /\ -Limit <= x.v /\ x.v <= Limit

NarrowTree(x) == /\ x.k = "op" => x.op \in IntArithmetic
                 /\ \A y \in Leaves(x) : Literal(y) \/ (y.k = "name" /\ y.n \in Ints)

DoubleTree(x) == /\ ~Literal(x)
                 /\ x.k = "op" => x.op \in FloatArithmetic
                 /\ \A y \in Leaves(x) : y.k = "float" \/ Literal(y) \/ (y.k = "name" /\ y.n \in Doubles)
                 /\ \E y \in Leaves(x) : ~Literal(y)

\* A leaf that names what nothing has written, and one that is in no register.
Unbound(x)   == \E y \in Leaves(x) : y.k = "name" /\ Held(y.n) = Nothing
Boxed(x)     == \E y \in Leaves(x) : y.k = "name" /\ ~flag[y.n]
Register(y)  == IF y.k = "name" THEN reg[y.n] ELSE y.v

MachineValue(x) == IF x.k = "op" THEN Operation(x.op, Register(x.l), Register(x.r))
                   ELSE [fits |-> TRUE, value |-> Register(x)]

NarrowAssign(s, x) ==
  IF Unbound(x) THEN Fails(s, "raised")
  ELSE IF ~Boxed(x) /\ MachineValue(x).fits THEN StoreRegister(s, MachineValue(x).value)
  ELSE Plainly(s)

\* A divisor of zero goes to the slow arm: any double may be zero.
NarrowDoubleAssign(s, x) ==
  IF Unbound(x) THEN Fails(s, "raised")
  ELSE \/ ~Boxed(x) /\ StoreRegister(s, 0)
       \/ (Boxed(x) \/ (x.k = "op" /\ x.op = "/")) /\ Plainly(s)

Bound(s, x) ==
  IF s.to \in Doubles /\ DoubleTree(x) THEN NarrowDoubleAssign(s, x)
  ELSE IF s.to \in Ints /\ NarrowTree(x) THEN NarrowAssign(s, x)
  ELSE Plainly(s)

Assign(s) == s.k = "assign" /\ Bound(s, s.e)
Augment(s) == s.k = "aug" /\ Bound(s, Rewritten(s))

\* for x in range(..), in a register where x is one's and the bounds allow.
ForRange(s) == /\ s.k = "range"
               /\ IF s.to \in Ints /\ Countable(s.lo, s.hi, s.step)
                  THEN \E c \in Counted(s.lo, s.hi, s.step) : StoreRegister(s, c)
                  ELSE Plainly(s)

For(s) == s.k \in {"for", "unpack"} /\ Plainly(s)

\* x.append(v): PyList_Append, and nothing asked, where x is always a list.
AppendCall(s) ==
  /\ s.k = "append"
  /\ IF Held(s.to) = Nothing THEN Fails(s, "raised")
     ELSE IF s.to \in ExactLists(body)
     THEN Fails(s, IF Held(s.to).t = "list" THEN "went" ELSE "broken")
     ELSE \/ Held(s.to).t \in {"list", "obj"} /\ Fails(s, "went")
          \/ Held(s.to).t # "list" /\ Fails(s, "raised")

Next == /\ UNCHANGED body
        /\ \E s \in body : Assign(s) \/ Augment(s) \/ ForRange(s) \/ For(s) \/ AppendCall(s)

Spec == Init /\ [][Next]_vars

(* A register holds what a word can, and no name holds its value twice: an *)
(* object that is left behind in v_x would be read once the flag goes.     *)
HeldOnce == \A n \in Names : /\ reg[n] \in Word
                             /\ flag[n] => obj[n] = Nothing
                             /\ flag[n] => n \in Doubles \cup Ints

\* An operand that may be an object of the program's own, with operators of its own.
MayBeAnObject(x, known) == x.k = "call" \/ (x.k = "name" /\ x.n \notin known)

\* Bodies in which a name that is taken for a list may hold something else: a
\* `for` target, or one that += takes from an object with its own __radd__.
UnseenByLists(b) == \E n \in ExactLists(b) : \E s \in b :
  /\ s.k \in {"for", "range", "aug"} /\ s.to = n
  /\ s.k = "aug" => MayBeAnObject(s.e, ExactLists(b))

\* The same of a float, where //= and %= are no binding to capi_floats.py.
UnseenByFloats(b) == \E n \in DoubleLocals(b) : \E s \in b :
  /\ s.k \in {"for", "range", "aug"} /\ s.to = n
  /\ s.k = "aug" => s.op \notin FloatArithmetic /\ MayBeAnObject(s.e, DoubleLocals(b))

(* capi_floats.py: a name survives only if every value it is bound to is a *)
(* float; capi_exact.py: the names that always hold an exact list.  Both   *)
(* mean to leave `for` targets out and do not where one is bound some      *)
(* other way too; only where they overlook a binding may a name hold what  *)
(* it was not picked for.                                                  *)
TypesAreKnown ==
  /\ ~UnseenByFloats(body) => \A n \in Doubles : Held(n).t \in {"float", "unbound"}
  /\ ~UnseenByLists(body) => \A n \in ExactLists(body) : Held(n).t \in {"list", "unbound"}

(* Whatever its names are held in, the function does what Python does.     *)
Python == INSTANCE PythonLocals WITH env <- Env
IsPython == Python!Spec
=============================================================================
