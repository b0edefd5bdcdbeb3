--------------------------- MODULE MachineIntegers --------------------------
(***************************************************************************)
(* The arithmetic capi_emit.py writes for integers held in registers: each *)
(* operation computes in a machine word and says whether what it computed  *)
(* is what Python's unbounded integers give.  Where it is not, the flag is *)
(* cleared and the C API does the operation again.                         *)
(***************************************************************************)
EXTENDS Integers

CONSTANTS Half,     \* the word holds -Half .. Half - 1: 2^63 in the code
          Small,    \* what is multiplied without a look at the product: 2^31 - 1
          Limit     \* the widest literal, and range bound, that is computed with: 2^62 - 1

ASSUME WordAssumption == /\ Half \in Nat /\ Small \in Nat /\ Limit \in Nat
                         /\ Half > 1
                         /\ Small * Small < Half
                         /\ Limit + Limit < Half

Word == -Half .. Half - 1

\* The value the machine's own add leaves in the word.
Wrap(x) == IF x >= Half THEN x - 2 * Half ELSE IF x < -Half THEN x + 2 * Half ELSE x

\* (a ^ b) < 0
SignsDiffer(a, b) == (a < 0) # (b < 0)

Add(l, r) == LET s == Wrap(l + r)
             IN  [fits |-> ~(SignsDiffer(l, s) /\ SignsDiffer(r, s)), value |-> s]

Sub(l, r) == LET s == Wrap(l - r)
             IN  [fits |-> ~(SignsDiffer(l, r) /\ SignsDiffer(l, s)), value |-> s]

\* Checked before rather than after.
Narrow(x) == -Small <= x /\ x <= Small
Mult(l, r) == IF Narrow(l) /\ Narrow(r) THEN [fits |-> TRUE, value |-> l * r]
              ELSE [fits |-> FALSE, value |-> 0]

\* C's division truncates: towards zero from either side.
Magnitude(x) == IF x < 0 THEN -x ELSE x
Truncated(l, r) == IF SignsDiffer(l, r) THEN -(Magnitude(l) \div Magnitude(r))
                   ELSE Magnitude(l) \div Magnitude(r)

\* A mutant: corrected by the sign of the dividend, which is the remainder's.
FlooredByDividend(l, r) == LET q == Truncated(l, r)
                               m == l - q * r
                           IN  IF m # 0 /\ l < 0
                               THEN [quotient |-> q - 1, remainder |-> m + r]
                               ELSE [quotient |-> q, remainder |-> m]

\* Quotient and remainder, corrected where the division was not exact and the signs disagree.
Floored(l, r) == LET q == Truncated(l, r)
                     m == l - q * r
                 IN  IF m # 0 /\ SignsDiffer(m, r)
                     THEN [quotient |-> q - 1, remainder |-> m + r]
                     ELSE [quotient |-> q, remainder |-> m]

Divides(r) == r # 0 /\ r # -1

FloorDiv(l, r) == IF Divides(r) THEN [fits |-> TRUE, value |-> Floored(l, r).quotient]
                  ELSE [fits |-> FALSE, value |-> 0]
Mod(l, r) == IF Divides(r) THEN [fits |-> TRUE, value |-> Floored(l, r).remainder]
             ELSE [fits |-> FALSE, value |-> 0]

Operation(op, l, r) == CASE op = "+"  -> Add(l, r)
                         [] op = "-"  -> Sub(l, r)
                         [] op = "*"  -> Mult(l, r)
                         [] op = "//" -> FloorDiv(l, r)
                         [] op = "%"  -> Mod(l, r)

(***************************************************************************)
(* A `for` over range(start, stop, step) counted in a register: only where *)
(* the three are within Limit, so that advancing cannot leave the word.    *)
(***************************************************************************)
Countable(start, stop, step) ==
  step # 0 /\ \A x \in {start, stop, step} : -Limit <= x /\ x <= Limit

Goes(counter, stop, step) == IF step > 0 THEN counter < stop ELSE counter > stop

\* The first n values of the counter, the one the loop stops at included.
Counters(start, step, n) ==
  LET c[i \in 0 .. n] == IF i = 0 THEN start ELSE Wrap(c[i - 1] + step)
  IN  c

Counted(start, stop, step) ==
  LET c == Counters(start, step, 2 * Half)
  IN  {c[i] : i \in {j \in 0 .. 2 * Half : \A k \in 0 .. j : Goes(c[k], stop, step)}}
=============================================================================
