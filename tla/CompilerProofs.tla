---------------------------- MODULE CompilerProofs ---------------------------
(***************************************************************************)
(* What the compiler settles before the program runs.                      *)
(*                                                                         *)
(* That a function whose locals are held in registers does what Python     *)
(* does, for every function, any number of names and any width of word:    *)
(* the machine's arithmetic first, then the analyses, then the C.          *)
(*                                                                         *)
(* And that no jump the optimizer keeps loses its label, for every set of  *)
(* operations and every program over them.  Both its loops keep the labels *)
(* they have passed and add no target: that is what the invariant says of  *)
(* each, and what an exit that ends the second one cannot disturb, because *)
(* it only does where there are no labels.                                 *)
(*                                                                         *)
(* And that an optimized program does what it did, for every program and   *)
(* whatever its conditions come to.  Each loop leaves a map from where it  *)
(* was to what it kept; of an operation of the one program the other runs  *)
(* none or one, and is then where the map says.  Joined writes put it      *)
(* ahead, by what is owed until the last of them.                          *)
(***************************************************************************)
EXTENDS CapiLocals, MCOptimizer, Sequences, FiniteSetTheorems, WellFoundedInduction, TLAPS

(* The width of the word, apart from the rest of the assumption            *)
LEMMA HalfIsAWidth == Half \in Nat /\ Half > 1
  BY WordAssumption

(* A result that fits is in the word and is what Python gives.             *)
Right(r, exact) == r.fits => r.value \in Word /\ r.value = exact

-----------------------------------------------------------------------------
(* (a ^ b) < 0 asks whether one is negative and the other is not.          *)
LEMMA SignsDisagree ==
    ASSUME NEW a \in Int, NEW b \in Int
    PROVE  SignsDiffer(a, b) <=> (a < 0 <=> b >= 0)
  BY DEF SignsDiffer

(* Addition: the sign test misses no overflow, and cries for none that is  *)
(* not there.                                                              *)
LEMMA AddRight ==
    ASSUME NEW l \in Word, NEW r \in Word
    PROVE  Right(Add(l, r), l + r) /\ (l + r \in Word => Add(l, r).fits)
<1> DEFINE s == Wrap(l + r)
<1>1. l \in Int /\ r \in Int /\ -Half <= l /\ l < Half /\ -Half <= r /\ r < Half /\ Half \in Int
  BY HalfIsAWidth DEF Word
<1>2. Add(l, r).value = s
  BY DEF Add
<1>3. Add(l, r).fits <=> ~((l < 0 <=> s >= 0) /\ (r < 0 <=> s >= 0))
  <2>1. s \in Int
    BY <1>1 DEF Wrap
  <2>2. Add(l, r).fits <=> ~(SignsDiffer(l, s) /\ SignsDiffer(r, s))
    BY DEF Add
  <2>3. (SignsDiffer(l, s) <=> (l < 0 <=> s >= 0)) /\ (SignsDiffer(r, s) <=> (r < 0 <=> s >= 0))
    BY <1>1, <2>1, SignsDisagree
  <2>4. QED
    BY <2>2, <2>3
<1>4. CASE l + r >= Half
  <2>1. s = l + r - 2 * Half /\ l + r \notin Word
    BY <1>1, <1>4 DEF Wrap, Word
  <2>2. ~Add(l, r).fits
    BY <1>1, <1>3, <1>4, <2>1
  <2>3. QED
    BY <2>1, <2>2 DEF Right
<1>5. CASE l + r < -Half
  <2>1. s = l + r + 2 * Half /\ l + r \notin Word
    BY <1>1, <1>5 DEF Wrap, Word
  <2>2. ~Add(l, r).fits
    BY <1>1, <1>3, <1>5, <2>1
  <2>3. QED
    BY <2>1, <2>2 DEF Right
<1>6. CASE -Half <= l + r /\ l + r < Half
  <2>1. s = l + r /\ l + r \in Word
    BY <1>1, <1>6 DEF Wrap, Word
  <2>2. Add(l, r).fits
    BY <1>1, <1>3, <1>6, <2>1
  <2>3. QED
    BY <1>2, <2>1, <2>2 DEF Right
<1>7. QED
  BY <1>1, <1>4, <1>5, <1>6

(* Subtraction, by the same token                                          *)
LEMMA SubRight ==
    ASSUME NEW l \in Word, NEW r \in Word
    PROVE  Right(Sub(l, r), l - r) /\ (l - r \in Word => Sub(l, r).fits)
<1> DEFINE s == Wrap(l - r)
<1>1. l \in Int /\ r \in Int /\ -Half <= l /\ l < Half /\ -Half <= r /\ r < Half /\ Half \in Int
  BY HalfIsAWidth DEF Word
<1>2. Sub(l, r).value = s
  BY DEF Sub
<1>3. Sub(l, r).fits <=> ~((l < 0 <=> r >= 0) /\ (l < 0 <=> s >= 0))
  <2>1. s \in Int
    BY <1>1 DEF Wrap
  <2>2. Sub(l, r).fits <=> ~(SignsDiffer(l, r) /\ SignsDiffer(l, s))
    BY DEF Sub
  <2>3. (SignsDiffer(l, r) <=> (l < 0 <=> r >= 0)) /\ (SignsDiffer(l, s) <=> (l < 0 <=> s >= 0))
    BY <1>1, <2>1, SignsDisagree
  <2>4. QED
    BY <2>2, <2>3
<1>4. CASE l - r >= Half
  <2>1. s = l - r - 2 * Half /\ l - r \notin Word
    BY <1>1, <1>4 DEF Wrap, Word
  <2>2. ~Sub(l, r).fits
    BY <1>1, <1>3, <1>4, <2>1
  <2>3. QED
    BY <2>1, <2>2 DEF Right
<1>5. CASE l - r < -Half
  <2>1. s = l - r + 2 * Half /\ l - r \notin Word
    BY <1>1, <1>5 DEF Wrap, Word
  <2>2. ~Sub(l, r).fits
    BY <1>1, <1>3, <1>5, <2>1
  <2>3. QED
    BY <2>1, <2>2 DEF Right
<1>6. CASE -Half <= l - r /\ l - r < Half
  <2>1. s = l - r /\ l - r \in Word
    BY <1>1, <1>6 DEF Wrap, Word
  <2>2. Sub(l, r).fits
    BY <1>1, <1>3, <1>6, <2>1
  <2>3. QED
    BY <1>2, <2>1, <2>2 DEF Right
<1>7. QED
  BY <1>1, <1>4, <1>5, <1>6

(* A product is no wider than the product of the bounds.                   *)
LEMMA ProductBound ==
    ASSUME NEW S \in Nat, NEW x \in Int, NEW y \in Int, -S <= x, x <= S, -S <= y, y <= S
    PROVE  -(S * S) <= x * y /\ x * y <= S * S
  BY SMT

(* Multiplication of what is narrow enough                                 *)
LEMMA MultRight ==
    ASSUME NEW l \in Word, NEW r \in Word
    PROVE  Right(Mult(l, r), l * r)
<1>1. l \in Int /\ r \in Int
  BY DEF Word
<1>2. CASE Narrow(l) /\ Narrow(r)
  <2>1. -(Small * Small) <= l * r /\ l * r <= Small * Small
    BY WordAssumption, <1>1, <1>2, ProductBound DEF Narrow
  <2>2. l * r \in Int /\ Small * Small \in Int
    BY WordAssumption, <1>1
  <2>3. l * r \in Word
    BY WordAssumption, <2>1, <2>2 DEF Word
  <2>4. QED
    BY <1>2, <2>3 DEF Right, Mult
<1>3. CASE ~(Narrow(l) /\ Narrow(r))
  BY <1>3 DEF Right, Mult
<1>4. QED
  BY <1>2, <1>3

-----------------------------------------------------------------------------
(* What a quotient and a remainder are.                                    *)
LEMMA DivMod ==
    ASSUME NEW a \in Int, NEW b \in Nat, b > 0
    PROVE  a \div b \in Int /\ a % b \in 0 .. b - 1 /\ a = b * (a \div b) + (a % b)
  BY SMT

(* There is one quotient that leaves a remainder below the divisor.        *)
LEMMA OneQuotient ==
    ASSUME NEW b \in Nat, b > 0, NEW q \in Int, NEW d \in Int,
           NEW s \in 0 .. b - 1, NEW t \in 0 .. b - 1, b * q + s = b * d + t
    PROVE  q = d
<1>1. b * (q - d) = t - s /\ b * (d - q) = s - t
  BY SMT
<1>2. CASE q - d >= 1
  <2>1. b * (q - d) >= b
    BY <1>2, SMT
  <2>2. QED
    BY <1>1, <2>1
<1>3. CASE d - q >= 1
  <2>1. b * (d - q) >= b
    BY <1>3, SMT
  <2>2. QED
    BY <1>1, <2>1
<1>4. QED
  BY <1>2, <1>3

(* C's quotient, corrected, is the floor: where the division was not exact *)
(* and the signs disagree, and nowhere else.                               *)
LEMMA FlooredRight ==
    ASSUME NEW l \in Int, NEW r \in Int, r # 0
    PROVE  /\ Floored(l, r).quotient = PyFloorDiv(l, r)
           /\ Floored(l, r).remainder = l - r * PyFloorDiv(l, r)
           /\ IF r > 0 THEN Floored(l, r).remainder \in 0 .. r - 1
                       ELSE -Floored(l, r).remainder \in 0 .. -r - 1
<1> DEFINE a == Magnitude(l)
           b == Magnitude(r)
           k == a \div b
           t == a % b
<1>1. a \in Nat /\ b \in Nat /\ b > 0
  BY DEF Magnitude
<1>2. k \in Int /\ t \in 0 .. b - 1 /\ a = b * k + t
  BY <1>1, DivMod
<1>3. CASE l >= 0 /\ r > 0
  <2>1. a = l /\ b = r /\ Truncated(l, r) = k
    BY <1>3 DEF Magnitude, Truncated, SignsDiffer
  <2>2. l - Truncated(l, r) * r = t
    BY <1>2, <2>1
  <2>3. Floored(l, r) = [quotient |-> k, remainder |-> t]
    BY <1>2, <1>3, <2>1, <2>2 DEF Floored, SignsDiffer
  <2>4. PyFloorDiv(l, r) = k
    BY <1>3, <2>1 DEF PyFloorDiv
  <2>5. QED
    BY <1>2, <1>3, <2>1, <2>3, <2>4
<1>4. CASE l < 0 /\ r < 0
  <2>1. a = -l /\ b = -r /\ Truncated(l, r) = k
    BY <1>4 DEF Magnitude, Truncated, SignsDiffer
  <2>2. l - Truncated(l, r) * r = -t
    BY <1>2, <2>1
  <2>3. Floored(l, r) = [quotient |-> k, remainder |-> -t]
    BY <1>2, <1>4, <2>1, <2>2 DEF Floored, SignsDiffer
  <2>4. PyFloorDiv(l, r) = k
    BY <1>4, <2>1 DEF PyFloorDiv
  <2>5. l - r * k = -t
    <3>1. r * k = -(b * k)
      BY <1>1, <1>2, <2>1
    <3>2. QED
      BY <1>2, <2>1, <3>1
  <2>6. Floored(l, r).remainder = -t /\ -(-t) = t /\ -r = b
    BY <1>2, <2>1, <2>3
  <2>7. QED
    BY <1>2, <1>4, <2>3, <2>4, <2>5, <2>6
<1>5. CASE l < 0 /\ r > 0
  <2>1. a = -l /\ b = r /\ Truncated(l, r) = -k
    BY <1>5 DEF Magnitude, Truncated, SignsDiffer
  <2>2. l - Truncated(l, r) * r = -t
    BY <1>2, <2>1
  <2>3. l \div b \in Int /\ l % b \in 0 .. b - 1 /\ l = b * (l \div b) + (l % b)
    BY <1>1, DivMod
  <2>4. PyFloorDiv(l, r) = l \div b
    BY <1>5, <2>1 DEF PyFloorDiv
  <2>5. CASE t = 0
    <3>1. Floored(l, r) = [quotient |-> -k, remainder |-> 0]
      BY <1>2, <2>1, <2>2, <2>5 DEF Floored
    <3>2. b * (-k) + 0 = b * (l \div b) + (l % b)
      BY <1>2, <2>1, <2>3, <2>5
    <3>3. -k = l \div b
      BY <1>1, <1>2, <2>3, <3>2, OneQuotient
    <3>4. QED
      BY <1>2, <1>5, <2>1, <2>4, <2>5, <3>1, <3>3
  <2>6. CASE t # 0
    <3>1. Floored(l, r) = [quotient |-> -k - 1, remainder |-> b - t]
      BY <1>2, <1>5, <2>1, <2>2, <2>6 DEF Floored, SignsDiffer
    <3>2. b * (-k - 1) + (b - t) = b * (l \div b) + (l % b)
      BY <1>2, <2>1, <2>3
    <3>3. -k - 1 = l \div b
      <4>1. b - t \in 0 .. b - 1 /\ -k - 1 \in Int
        BY <1>1, <1>2, <2>6
      <4>2. QED
        BY <1>1, <2>3, <3>2, <4>1, OneQuotient
    <3>4. QED
      BY <1>2, <1>5, <2>1, <2>4, <2>6, <3>1, <3>3
  <2>7. QED
    BY <2>5, <2>6
<1>6. CASE l >= 0 /\ r < 0
  <2>1. a = l /\ b = -r /\ Truncated(l, r) = -k
    BY <1>6 DEF Magnitude, Truncated, SignsDiffer
  <2>2. (-k) * r = b * k /\ b * (-k) = -(b * k) /\ b * (-k - 1) = -(b * k) - b
    BY <1>1, <1>2, <2>1
  <2>3. l - Truncated(l, r) * r = t
    BY <1>2, <2>2, <2>1
  <2>4. (-l) \div b \in Int /\ (-l) % b \in 0 .. b - 1 /\ -l = b * ((-l) \div b) + ((-l) % b)
    <3>1. -l \in Int
      OBVIOUS
    <3>2. QED
      BY <1>1, <3>1, DivMod
  <2>5. PyFloorDiv(l, r) = (-l) \div b
    BY <1>6, <2>1 DEF PyFloorDiv
  <2>6. CASE t = 0
    <3>1. Floored(l, r) = [quotient |-> -k, remainder |-> 0]
      BY <1>2, <2>1, <2>3, <2>6 DEF Floored
    <3>2. b * (-k) + 0 = b * ((-l) \div b) + ((-l) % b)
      BY <1>2, <2>2, <2>1, <2>4, <2>6
    <3>3. -k = (-l) \div b
      BY <1>1, <1>2, <2>4, <3>2, OneQuotient
    <3>4. QED
      BY <1>2, <1>6, <2>1, <2>5, <2>6, <3>1, <3>3
  <2>7. CASE t # 0
    <3>1. Floored(l, r) = [quotient |-> -k - 1, remainder |-> t - b]
      BY <1>2, <1>6, <2>1, <2>3, <2>7 DEF Floored, SignsDiffer
    <3>2. b * (-k - 1) + (b - t) = b * ((-l) \div b) + ((-l) % b)
      <4>1. b * (-k - 1) + (b - t) = -a
        BY <1>1, <1>2, <2>2
      <4>2. QED
        BY <2>1, <2>4, <4>1
    <3>3. -k - 1 = (-l) \div b
      <4>1. b - t \in 0 .. b - 1 /\ -k - 1 \in Int
        BY <1>1, <1>2, <2>7
      <4>2. QED
        BY <1>1, <2>4, <3>2, <4>1, OneQuotient
    <3>4. QED
      BY <1>2, <1>6, <2>1, <2>5, <2>7, <3>1, <3>3
  <2>8. QED
    BY <2>6, <2>7
<1>7. QED
  BY <1>3, <1>4, <1>5, <1>6

(* Division and remainder, which are left to the C API for divisors of     *)
(* zero and of minus one                                                   *)
LEMMA DivisionRight ==
    ASSUME NEW l \in Word, NEW r \in Word
    PROVE  /\ Right(FloorDiv(l, r), PyFloorDiv(l, r))
           /\ Right(Mod(l, r), l - r * PyFloorDiv(l, r))
<1>1. l \in Int /\ r \in Int /\ -Half <= l /\ l < Half /\ -Half <= r /\ r < Half /\ Half \in Int /\ Half > 1
  BY HalfIsAWidth DEF Word
<1>2. CASE ~Divides(r)
  BY <1>2 DEF Right, FloorDiv, Mod
<1>3. CASE Divides(r)
  <2> DEFINE q == PyFloorDiv(l, r)
             m == l - r * q
  <2>1. r # 0 /\ r # -1
    BY <1>3 DEF Divides
  <2>2. /\ Floored(l, r).quotient = q
        /\ Floored(l, r).remainder = m
        /\ IF r > 0 THEN m \in 0 .. r - 1 ELSE -m \in 0 .. -r - 1
    BY <1>1, <2>1, FlooredRight
  <2>3. q \in Int /\ m \in Int
    <3>1. CASE r > 0
      <4>1. r \in Nat
        BY <1>1, <3>1
      <4>2. QED
        BY <1>1, <3>1, <4>1, DivMod DEF PyFloorDiv
    <3>2. CASE r < 0
      <4>1. -r \in Nat /\ -r > 0 /\ -l \in Int
        BY <1>1, <3>2
      <4>2. (-l) \div (-r) \in Int
        BY <4>1, DivMod
      <4>3. QED
        BY <1>1, <3>2, <4>2 DEF PyFloorDiv
    <3>3. QED
      BY <1>1, <2>1, <3>1, <3>2
  <2>4. m \in Word
    BY <1>1, <2>1, <2>2, <2>3 DEF Word
  <2>5. l = r * q + m
    BY <1>1, <2>3
  <2>6. q \in Word
    <3>1. q < Half
      <4> SUFFICES ASSUME q >= Half PROVE FALSE
        BY <1>1, <2>3
      <4>1. CASE r >= 1
        <5>1. r * q >= q
          BY <1>1, <2>3, <4>1
        <5>2. m >= 0
          BY <1>1, <2>2, <2>3, <4>1
        <5>3. QED
          BY <1>1, <2>3, <2>5, <5>1, <5>2
      <4>2. CASE r <= -2
        <5>1. r * q <= -(2 * q)
          BY <1>1, <2>3, <4>2
        <5>2. m <= 0
          BY <1>1, <2>2, <2>3, <4>2
        <5>3. QED
          BY <1>1, <2>3, <2>5, <5>1, <5>2
      <4>3. QED
        BY <1>1, <2>1, <4>1, <4>2
    <3>2. q >= -Half
      <4> SUFFICES ASSUME q < -Half PROVE FALSE
        BY <1>1, <2>3
      <4>1. CASE r >= 1
        <5>1. r * (q + 1) <= q + 1
          BY <1>1, <2>3, <4>1
        <5>2. r * (q + 1) = r * q + r
          BY <1>1, <2>3
        <5>3. m < r
          BY <1>1, <2>2, <2>3, <4>1
        <5>4. QED
          BY <1>1, <2>3, <2>5, <5>1, <5>2, <5>3
      <4>2. CASE r <= -2
        <5>1. r * (q + 1) >= -(2 * (q + 1))
          BY <1>1, <2>3, <4>2
        <5>2. r * (q + 1) = r * q + r
          BY <1>1, <2>3
        <5>3. m > r
          BY <1>1, <2>2, <2>3, <4>2
        <5>4. QED
          BY <1>1, <2>3, <2>5, <5>1, <5>2, <5>3
      <4>3. QED
        BY <1>1, <2>1, <4>1, <4>2
    <3>3. QED
      BY <1>1, <2>3, <3>1, <3>2 DEF Word
  <2>7. QED
    BY <1>3, <2>2, <2>4, <2>6 DEF Right, FloorDiv, Mod
<1>4. QED
  BY <1>2, <1>3

-----------------------------------------------------------------------------
(* Whatever operation is computed in registers, a result that is not sent  *)
(* back to the C API is the one Python's integers have, and is in the      *)
(* word.                                                                   *)
THEOREM MachineArithmeticIsPython ==
    \A l, r \in Word, op \in {"+", "-", "*", "//", "%"} :
       Right(Operation(op, l, r), Exact(op, l, r))
<1> SUFFICES ASSUME NEW l \in Word, NEW r \in Word, NEW op \in {"+", "-", "*", "//", "%"}
             PROVE  Right(Operation(op, l, r), Exact(op, l, r))
  OBVIOUS
<1>1. CASE op = "+"
  BY <1>1, AddRight DEF Operation, Exact
<1>2. CASE op = "-"
  BY <1>2, SubRight DEF Operation, Exact
<1>3. CASE op = "*"
  BY <1>3, MultRight DEF Operation, Exact
<1>4. CASE op = "//"
  BY <1>4, DivisionRight DEF Operation, Exact
<1>5. CASE op = "%"
  BY <1>5, DivisionRight DEF Operation, Exact
<1>6. QED
  BY <1>1, <1>2, <1>3, <1>4, <1>5

(* Addition and subtraction go back to the C API only when they must.      *)
THEOREM NoNeedlessDetour ==
    \A l, r \in Word : /\ l + r \in Word => Operation("+", l, r).fits
                       /\ l - r \in Word => Operation("-", l, r).fits
  BY AddRight, SubRight DEF Operation

(* A counter that is short of a bound stays in the word when it advances:  *)
(* what the check of the three bounds is for.                              *)
THEOREM CountersStay ==
    \A start, stop, step, c \in Int :
       /\ Countable(start, stop, step)
       /\ -Limit <= c /\ c <= Limit
       /\ Goes(c, stop, step)
       => /\ c + step \in Word
          /\ Wrap(c + step) = c + step
<1> SUFFICES ASSUME NEW start \in Int, NEW stop \in Int, NEW step \in Int, NEW c \in Int,
                    Countable(start, stop, step), -Limit <= c, c <= Limit
             PROVE  c + step \in Word /\ Wrap(c + step) = c + step
  OBVIOUS
<1>1. -Limit <= step /\ step <= Limit
  BY DEF Countable
<1>2. Half \in Nat /\ Limit \in Nat /\ Limit + Limit < Half
  BY WordAssumption
<1>3. QED
  BY <1>1, <1>2 DEF Word, Wrap

-----------------------------------------------------------------------------
(* Induction over the naturals, with a set for what is shown.              *)
LEMMA SetInduction ==
  ASSUME NEW S, 0 \in S, \A n \in Nat : n \in S => n + 1 \in S
  PROVE  Nat \subseteq S
<1> DEFINE Out == Nat \ S
           Less == OpToRel(<, Nat)
<1>1. SUFFICES ASSUME Out # {} PROVE FALSE
  OBVIOUS
<1>2. IsWellFoundedOn(Less, Nat)
  BY NatLessThanWellFounded
<1>3. PICK m \in Out : \A k \in Out : ~(<<k, m>> \in Less)
  <2> HIDE DEF Out, Less
  <2> QED BY <1>1, <1>2, WFMin DEF Out
<1>4. \A k \in Out : ~(k < m)
  BY <1>3 DEF OpToRel
<1>5. m \in Nat /\ m # 0 /\ m - 1 \in Nat
  OBVIOUS
<1>6. m - 1 \in S
  BY <1>4, <1>5
<1>7. m \in S
  <2>1. (m - 1) + 1 \in S
    BY <1>5, <1>6
  <2> QED BY <1>5, <2>1
<1>8. QED
  BY <1>7

(* The more names are doubles, the more expressions are floats.            *)
LEMMA MoreFloats ==
  ASSUME NEW d, NEW e, e \subseteq d, NEW x, IsFloat(x, e)
  PROVE  IsFloat(x, d)
  BY DEF IsFloat, NarrowLeaf, Floatish

(* What the pass of capi_floats.py leaves, from d on.                      *)
Stable(b, d) == UNION {e \in SUBSET d : Struck(b, e) = {}}

(* It is within d, is d where nothing is struck out, and no pass changes it. *)
LEMMA StableWithin ==
  ASSUME NEW b, NEW d
  PROVE  /\ Stable(b, d) \subseteq d
         /\ Struck(b, d) = {} => Stable(b, d) = d
         /\ Stable(b, d) = Stable(b, d \ Struck(b, d))
<1>1. Stable(b, d) \subseteq d
  BY DEF Stable
<1>2. Struck(b, d) = {} => Stable(b, d) = d
  BY DEF Stable
<1>3. ASSUME NEW e \in SUBSET d, Struck(b, e) = {} PROVE e \subseteq d \ Struck(b, d)
  <2>1. ASSUME NEW n \in e PROVE n \notin Struck(b, d)
    <3>1. n \notin Struck(b, e)
      BY <1>3
    <3>2. Sources(b, n) # {} /\ \A x \in Sources(b, n) : IsFloat(x, e)
      BY <2>1, <3>1 DEF Struck
    <3>3. \A x \in Sources(b, n) : IsFloat(x, d)
      BY <3>2, MoreFloats
    <3> QED BY <3>2, <3>3 DEF Struck
  <2> QED BY <2>1
<1>4. {e \in SUBSET d : Struck(b, e) = {}} = {e \in SUBSET (d \ Struck(b, d)) : Struck(b, e) = {}}
  BY <1>3
<1>5. QED
  BY <1>1, <1>2, <1>4 DEF Stable

(* capi_floats.py strikes names out until it strikes out none.             *)
LEMMA DoublesAreStable ==
  ASSUME NEW b
  PROVE  /\ DoubleLocals(b) \subseteq Eligible(b, IntArithmetic \cup FloatArithmetic)
         /\ Struck(b, DoubleLocals(b)) = {}
<1> DEFINE Strikes(f) == f = [d \in SUBSET Names |-> IF Struck(b, d) = {} THEN d ELSE f[d \ Struck(b, d)]]
           left == CHOOSE f : Strikes(f)
           all == Eligible(b, IntArithmetic \cup FloatArithmetic)
<1>1. \E f : Strikes(f)
  <2> DEFINE f == [d \in SUBSET Names |-> Stable(b, d)]
  <2>1. ASSUME NEW d \in SUBSET Names
        PROVE  f[d] = IF Struck(b, d) = {} THEN d ELSE f[d \ Struck(b, d)]
    BY StableWithin
  <2>2. Strikes(f)
    BY <2>1
  <2> QED BY <2>2
<1>2. Strikes(left)
  <2> HIDE DEF Strikes
  <2> QED BY <1>1, Zenon
<1>3. DoubleLocals(b) = left[all]
  BY DEF DoubleLocals
<1> HIDE DEF left
<1>4. \A d \in SUBSET Names : left[d] = IF Struck(b, d) = {} THEN d ELSE left[d \ Struck(b, d)]
  BY <1>2
<1> DEFINE Settles(d) == left[d] \subseteq d /\ Struck(b, left[d]) = {}
           Sizes == {k \in Nat : \A d \in SUBSET Names : Cardinality(d) <= k => Settles(d)}
<1>5. \A d \in SUBSET Names : IsFiniteSet(d) /\ Cardinality(d) \in Nat
  BY BodiesAssumption, FS_Subset, FS_CardinalityType
<1>6. \A d \in SUBSET Names : Struck(b, d) = {} => Settles(d)
  BY <1>4
<1>7. 0 \in Sizes
  <2>1. ASSUME NEW d \in SUBSET Names, Cardinality(d) <= 0 PROVE Settles(d)
    <3>1. d = {}
      BY <1>5, <2>1, FS_EmptySet
    <3>2. Struck(b, d) = {}
      BY <3>1 DEF Struck
    <3> QED BY <1>6, <3>2
  <2> QED BY <2>1
<1>8. ASSUME NEW k \in Nat, k \in Sizes PROVE k + 1 \in Sizes
  <2>1. ASSUME NEW d \in SUBSET Names, Cardinality(d) <= k + 1, Struck(b, d) # {} PROVE Settles(d)
    <3> DEFINE rest == d \ Struck(b, d)
    <3>1. rest \subseteq d /\ rest # d /\ rest \in SUBSET Names
      BY <2>1 DEF Struck
    <3>2. Cardinality(rest) < Cardinality(d)
      BY <1>5, <3>1, FS_Subset
    <3>3. Cardinality(rest) <= k
      BY <1>5, <2>1, <3>1, <3>2
    <3>4. Settles(rest)
      BY <1>8, <3>1, <3>3
    <3>5. left[d] = left[rest]
      BY <1>4, <2>1
    <3> QED BY <3>1, <3>4, <3>5
  <2>2. ASSUME NEW d \in SUBSET Names, Cardinality(d) <= k + 1 PROVE Settles(d)
    BY <1>6, <2>1, <2>2
  <2> QED BY <2>2
<1>9. all \in SUBSET Names
  BY DEF Eligible, Calculated
<1>10. Settles(all)
  <2>1. Cardinality(all) \in Sizes
    <3> HIDE DEF Sizes
    <3> QED BY <1>5, <1>7, <1>8, <1>9, SetInduction
  <2> HIDE DEF all, Settles
  <2> QED BY <1>5, <1>9, <2>1
<1>11. QED
  BY <1>3, <1>10

-----------------------------------------------------------------------------
(* A multiple of m, and the next one.                                      *)
LEMMA NextMultiple ==
  ASSUME NEW m \in Nat, m > 0, NEW x \in Int, x % m = 0
  PROVE  (x + m) % m = 0 /\ (x - m) % m = 0
<1>1. ASSUME NEW y \in Int, NEW d \in Int, y = m * d PROVE y % m = 0
  <2>1. y \div m \in Int /\ y % m \in 0 .. m - 1 /\ y = m * (y \div m) + (y % m)
    BY DivMod
  <2>2. 0 \in 0 .. m - 1 /\ m * (y \div m) + (y % m) = m * d + 0
    BY <1>1, <2>1
  <2>3. y \div m = d
    BY <2>1, <2>2, OneQuotient
  <2> DEFINE p == m * d
  <2>4. y = p /\ y = p + (y % m) /\ p \in Int
    BY <1>1, <2>1, <2>3
  <2> HIDE DEF p
  <2> QED BY <2>1, <2>4
<1>2. x \div m \in Int /\ x = m * (x \div m) + (x % m)
  BY DivMod
<1>3. x = m * (x \div m)
  <2> DEFINE p == m * (x \div m)
  <2>1. p \in Int /\ x = p + (x % m)
    BY <1>2
  <2> HIDE DEF p
  <2>2. x = p
    BY <2>1
  <2> QED BY <2>2 DEF p
<1> DEFINE d == x \div m
<1>4. d \in Int /\ x = m * d
  BY <1>2, <1>3
<1> HIDE DEF d
<1>5. x + m = m * (d + 1) /\ x - m = m * (d - 1)
  BY <1>4, SMT
<1>6. QED
  BY <1>1, <1>4, <1>5

(* The counter follows its definition.                                     *)
LEMMA CountersFollow ==
  ASSUME NEW start, NEW step, NEW N \in Nat
  PROVE  \A i \in 0 .. N : Counters(start, step, N)[i] =
            IF i = 0 THEN start ELSE Wrap(Counters(start, step, N)[i - 1] + step)
<1> DEFINE Next1(v) == Wrap(v + step)
           Follows(f, n) == f = [i \in 0 .. n |-> IF i = 0 THEN start ELSE Next1(f[i - 1])]
           c == CHOOSE f : Follows(f, N)
           E == {n \in Nat : \E f : Follows(f, n)}
<1>1. Counters(start, step, N) = c
  BY DEF Counters
<1> HIDE DEF Next1
<1>2. 0 \in E
  <2> DEFINE f == [i \in 0 .. 0 |-> start]
  <2>1. Follows(f, 0)
    OBVIOUS
  <2> QED BY <2>1
<1>3. ASSUME NEW n \in Nat, n \in E PROVE n + 1 \in E
  <2>1. PICK f : Follows(f, n)
    BY <1>3
  <2> DEFINE g == [i \in 0 .. (n + 1) |-> IF i <= n THEN f[i] ELSE Next1(f[n])]
  <2>2. g = [i \in 0 .. (n + 1) |-> IF i = 0 THEN start ELSE Next1(g[i - 1])]
    BY <2>1
  <2> HIDE DEF g
  <2>3. \E q : Follows(q, n + 1)
    BY <2>2
  <2> QED BY <2>3
<1>4. \E f : Follows(f, N)
  <2>1. N \in E
    <3> HIDE DEF E
    <3> QED BY <1>2, <1>3, SetInduction
  <2> QED BY <2>1
<1>5. Follows(c, N)
  <2> HIDE DEF Follows
  <2> QED BY <1>4, Zenon
<1> HIDE DEF c
<1>6. \A i \in 0 .. N : c[i] = IF i = 0 THEN start ELSE Next1(c[i - 1])
  BY <1>5
<1>7. QED
  BY <1>1, <1>6 DEF Next1

(* Every value a counted loop gives its name is one that Python's range    *)
(* has, and within the bounds.                                             *)
LEMMA CountedRight ==
  ASSUME NEW start \in Int, NEW stop \in Int, NEW step \in Int, Countable(start, stop, step),
         NEW c \in Counted(start, stop, step)
  PROVE  /\ c \in Int /\ -Limit <= c /\ c <= Limit
         /\ IF step > 0 THEN c >= start /\ c < stop ELSE c <= start /\ c > stop
         /\ (c - start) % (step * (IF step > 0 THEN 1 ELSE -1)) = 0
<1> DEFINE N == 2 * Half
           v == Counters(start, step, N)
           m == step * (IF step > 0 THEN 1 ELSE -1)
           Fine(x) == /\ x \in Int /\ -Limit <= x /\ x <= Limit
                      /\ IF step > 0 THEN x >= start ELSE x <= start
                      /\ (x - start) % m = 0
           Up == {j \in Nat : j <= N /\ (\A k \in 0 .. j : Goes(v[k], stop, step)) => Fine(v[j])}
<1>1. /\ step # 0 /\ -Limit <= start /\ start <= Limit /\ -Limit <= stop /\ stop <= Limit
      /\ -Limit <= step /\ step <= Limit /\ Limit \in Nat /\ Half \in Nat /\ N \in Nat
  BY WordAssumption DEF Countable
<1>2. m \in Nat /\ m > 0 /\ (step > 0 => m = step) /\ (~(step > 0) => m = -step)
  BY <1>1
<1> HIDE DEF m
<1>3. \A i \in 0 .. N : v[i] = IF i = 0 THEN start ELSE Wrap(v[i - 1] + step)
  BY <1>1, CountersFollow
<1> HIDE DEF v
<1>4. 0 \in Up
  <2>1. v[0] = start
    BY <1>1, <1>3
  <2>2. (start - start) % m = 0
    BY <1>2
  <2> QED BY <1>1, <2>1, <2>2
<1>5. ASSUME NEW j \in Nat, j \in Up PROVE j + 1 \in Up
  <2> SUFFICES ASSUME j + 1 <= N, \A k \in 0 .. j + 1 : Goes(v[k], stop, step) PROVE Fine(v[j + 1])
    OBVIOUS
  <2>1. Fine(v[j])
    <3>1. j <= N /\ \A k \in 0 .. j : k \in 0 .. j + 1
      BY <1>1
    <3> QED BY <1>5, <3>1
  <2>2. Goes(v[j], stop, step) /\ Goes(v[j + 1], stop, step)
    OBVIOUS
  <2> DEFINE a == v[j]
  <2>3. v[j + 1] = a + step
    <3>1. v[j + 1] = Wrap(v[j] + step)
      BY <1>1, <1>3
    <3>2. Wrap(a + step) = a + step
      BY <2>1, <2>2, CountersStay
    <3> QED BY <3>1, <3>2
  <2>7. a \in Int /\ -Limit <= a /\ a <= Limit /\ (IF step > 0 THEN a >= start ELSE a <= start)
        /\ (a - start) % m = 0
    BY <2>1
  <2>6. Goes(a + step, stop, step)
    BY <2>2, <2>3
  <2> HIDE DEF a
  <2>4. ((a - start) + m) % m = 0 /\ ((a - start) - m) % m = 0
    <3> DEFINE x == a - start
    <3>1. x \in Int /\ x % m = 0
      BY <2>7
    <3> HIDE DEF x
    <3>2. (x + m) % m = 0 /\ (x - m) % m = 0
      BY <1>2, <3>1, NextMultiple
    <3> QED BY <3>2 DEF x
  <2>5. ((a + step) - start) % m = 0
    <3>1. CASE step > 0
      <4>1. (a + step) - start = (a - start) + m
        BY <1>2, <2>7, <3>1
      <4> QED BY <2>4, <4>1
    <3>2. CASE ~(step > 0)
      <4>1. (a + step) - start = (a - start) - m
        BY <1>2, <2>7, <3>2
      <4> QED BY <2>4, <4>1
    <3> QED BY <3>1, <3>2
  <2>8. /\ a + step \in Int /\ -Limit <= a + step /\ a + step <= Limit
        /\ IF step > 0 THEN a + step >= start ELSE a + step <= start
    BY <1>1, <2>6, <2>7 DEF Goes
  <2> QED BY <2>3, <2>5, <2>8 DEF a
<1>6. PICK j \in 0 .. N : c = v[j] /\ \A k \in 0 .. j : Goes(v[k], stop, step)
  BY DEF Counted, v
<1>7. Fine(c)
  <2>1. j \in Up
    <3> HIDE DEF Up
    <3> QED BY <1>1, <1>4, <1>5, <1>6, SetInduction
  <2> QED BY <1>1, <1>6, <2>1
<1>8. Goes(c, stop, step)
  BY <1>1, <1>6
<1>9. QED
  BY <1>7, <1>8 DEF Goes, m

-----------------------------------------------------------------------------
(* What a name may be bound to, and what an expression may come to.        *)
Values  == {Nothing, Real, Lst, Obj} \cup {Whole(k) : k \in Int}
Results == {Real, Lst, Obj, Raise} \cup {Whole(k) : k \in Int}

(* A value is told by its type, an integer by its number.                  *)
LEMMA Kinds ==
  /\ Nothing.t = "unbound" /\ Real.t = "float" /\ Lst.t = "list" /\ Obj.t = "obj" /\ Raise.t = "raise"
  /\ \A k : Whole(k).t = "int" /\ Whole(k).v = k
  BY DEF Nothing, Real, Lst, Obj, Raise, Whole

(* What a type says of the value that has it.                              *)
LEMMA ValueKinds ==
  ASSUME NEW v \in Values \cup Results
  PROVE  /\ v.t \in {"unbound", "float", "list", "obj", "raise", "int"}
         /\ v.t = "unbound" <=> v = Nothing
         /\ v.t = "float" <=> v = Real
         /\ v.t = "list" <=> v = Lst
         /\ v.t = "obj" <=> v = Obj
         /\ v.t = "raise" <=> v = Raise
         /\ v.t = "int" => v.v \in Int /\ v = Whole(v.v)
<1>1. CASE v \in {Nothing, Real, Lst, Obj, Raise}
  BY <1>1, Kinds
<1>2. CASE \E k \in Int : v = Whole(k)
  <2>1. PICK k \in Int : v = Whole(k)
    BY <1>2
  <2> QED BY <2>1, Kinds
<1>3. QED
  BY <1>1, <1>2 DEF Values, Results

(* What the kind of a leaf says of the rest of it.                         *)
LEMMA LeafKinds ==
  ASSUME NEW y \in LeafNodes
  PROVE  /\ y.k \in {"int", "float", "list", "call", "name"}
         /\ y.k = "int" => y.v \in Int
         /\ y.k = "name" => y.n \in Names
  BY DEF LeafNodes

(* An expression is an operator with two leaves, or a leaf.                *)
LEMMA NodeKinds ==
  ASSUME NEW x \in Nodes
  PROVE  /\ x.k = "op" => x.op \in Operators /\ x.l \in LeafNodes /\ x.r \in LeafNodes
         /\ x.k # "op" => x \in LeafNodes
<1>1. CASE x \in LeafNodes
  BY <1>1, LeafKinds
<1>2. CASE x \in [k : {"op"}, op : Operators, l : LeafNodes, r : LeafNodes]
  BY <1>2
<1>3. QED
  BY <1>1, <1>2 DEF Nodes

(* The four shapes of statement that bind a name, and the two that do not. *)
LEMMA StatementKinds ==
  ASSUME NEW s \in Statements
  PROVE  /\ s.k \in {"assign", "aug", "range", "for", "unpack", "append", "nested"}
         /\ s.to \in Names
         /\ s.k = "assign" => s.e \in Nodes
         /\ s.k = "aug" => s.op \in Operators /\ s.e \in LeafNodes /\ Rewritten(s) \in Nodes
         /\ s.k = "range" => s.lo \in Int /\ s.hi \in Int /\ s.step \in Int /\ s.step # 0
<1>1. ASSUME s.k = "aug", s.op \in Operators, s.e \in LeafNodes, s.to \in Names PROVE Rewritten(s) \in Nodes
  <2>1. Named(s.to) \in LeafNodes
    BY <1>1 DEF Named, LeafNodes
  <2>2. [k |-> "op", op |-> s.op, l |-> Named(s.to), r |-> s.e]
          \in [k : {"op"}, op : Operators, l : LeafNodes, r : LeafNodes]
    BY <1>1, <2>1
  <2> QED BY <2>2 DEF Rewritten, Nodes
<1> HIDE DEF Rewritten
<1>2. CASE s \in [k : {"assign"}, to : Names, e : Nodes]
  BY <1>2
<1>3. CASE s \in [k : {"aug"}, to : Names, op : Operators, e : LeafNodes]
  BY <1>1, <1>3
<1>4. CASE s \in [k : {"range"}, to : Names, lo : Int, hi : Int, step : Int \ {0}]
  BY <1>4
<1>5. CASE s \in [k : {"for", "unpack", "append", "nested"}, to : Names]
  BY <1>5
<1>6. QED
  BY <1>2, <1>3, <1>4, <1>5 DEF Statements

(* What the statement evaluates, where it does.                            *)
LEMMA BindingsOf ==
  ASSUME NEW s, NEW e
  PROVE  /\ s.k = "assign" => Bindings(s, e) = Eval(s.e, e)
         /\ s.k = "aug" => Bindings(s, e) = Eval(Rewritten(s), e)
         /\ s.k \in {"for", "unpack"} => Bindings(s, e) = Anything
  BY DEF Bindings, Rewritten

(* A leaf comes to something, and to nothing but a value or a failure.     *)
LEMMA LeafTyped ==
  ASSUME NEW e \in [Names -> Values], NEW y \in LeafNodes
  PROVE  /\ Leaf(y, e) \subseteq Results /\ Leaf(y, e) # {}
         /\ y.k = "int" => Leaf(y, e) = {Whole(y.v)}
         /\ y.k = "float" => Leaf(y, e) = {Real}
         /\ y.k = "list" => Leaf(y, e) = {Lst}
         /\ y.k = "name" => Leaf(y, e) = {IF e[y.n] = Nothing THEN Raise ELSE e[y.n]}
<1>1. y.k \in {"int", "float", "list", "call", "name"} /\ (y.k = "int" => y.v \in Int) /\ (y.k = "name" => y.n \in Names)
  BY LeafKinds
<1>2. Anything \cup {Raise} \subseteq Results
  BY DEF Anything, Results
<1>3. CASE y.k = "int"
  <2>1. Leaf(y, e) = {Whole(y.v)}
    BY <1>3 DEF Leaf
  <2> QED BY <1>1, <1>3, <2>1 DEF Results
<1>4. CASE y.k = "float"
  <2>1. Leaf(y, e) = {Real}
    BY <1>4 DEF Leaf
  <2> QED BY <1>4, <2>1 DEF Results
<1>5. CASE y.k = "list"
  <2>1. Leaf(y, e) = {Lst}
    BY <1>5 DEF Leaf
  <2> QED BY <1>5, <2>1 DEF Results
<1>6. CASE y.k = "call"
  <2>1. Leaf(y, e) = Anything \cup {Raise}
    BY <1>6 DEF Leaf
  <2> QED BY <1>2, <1>6, <2>1
<1>7. CASE y.k = "name"
  <2>1. Leaf(y, e) = {IF e[y.n] = Nothing THEN Raise ELSE e[y.n]}
    BY <1>7 DEF Leaf
  <2>2. e[y.n] \in Values
    BY <1>1, <1>7
  <2> QED BY <1>7, <2>1, <2>2 DEF Results, Values
<1>8. QED
  BY <1>1, <1>3, <1>4, <1>5, <1>6, <1>7

(* An operator answers with a value or fails.                              *)
LEMMA OutcomesTyped ==
  ASSUME NEW op \in Operators, NEW a \in Results, NEW b \in Results
  PROVE  Outcomes(op, a, b) \subseteq Results
<1>1. CASE {a.t, b.t} = {"int"}
  <2>1. a.v \in Int /\ b.v \in Int
    BY <1>1, ValueKinds
  <2>2. CASE op \in Dividing /\ b.v = 0
    BY <1>1, <2>2 DEF Outcomes, Results
  <2>3. CASE ~(op \in Dividing /\ b.v = 0) /\ op = "/"
    BY <1>1, <2>3 DEF Outcomes, Results
  <2>4. CASE ~(op \in Dividing /\ b.v = 0) /\ op # "/"
    <3>1. Exact(op, a.v, b.v) \in Int
      <4>1. op \in {"//", "%"} => PyFloorDiv(a.v, b.v) \in Int
        <5>1. b.v > 0 => (a.v) \div (b.v) \in Int
          BY <2>1, DivMod
        <5>2. b.v < 0 => (-(a.v)) \div (-(b.v)) \in Int
          BY <2>1, DivMod
        <5> QED BY <2>1, <2>4, <5>1, <5>2 DEF PyFloorDiv, Dividing
      <4>2. CASE op = "+"
        BY <2>1, <4>2 DEF Exact
      <4>3. CASE op = "-"
        BY <2>1, <4>3 DEF Exact
      <4>4. CASE op = "*"
        BY <2>1, <4>4 DEF Exact
      <4>5. CASE op = "//"
        BY <4>1, <4>5 DEF Exact
      <4>6. CASE op = "%"
        <5>1. ASSUME NEW q \in Int PROVE a.v - b.v * q \in Int
          BY <2>1
        <5> QED BY <4>1, <4>6, <5>1 DEF Exact
      <4> QED BY <2>4, <4>2, <4>3, <4>4, <4>5, <4>6 DEF Operators
    <3>2. Outcomes(op, a, b) = {Whole(Exact(op, a.v, b.v))}
      BY <1>1, <2>4 DEF Outcomes
    <3> QED BY <3>1, <3>2 DEF Results
  <2> QED BY <2>2, <2>3, <2>4
<1>2. CASE {a.t, b.t} # {"int"}
  <2>1. Outcomes(op, a, b) \subseteq {Real} \cup {Raise} \cup Anything \cup {Lst}
    BY <1>2 DEF Outcomes, Anything
  <2> QED BY <2>1 DEF Results, Anything
<1>3. QED
  BY <1>1, <1>2

(* An expression comes to what its operator makes of its leaves.           *)
LEMMA EvalOf ==
  ASSUME NEW x, NEW e
  PROVE  /\ x.k # "op" => Eval(x, e) = Leaf(x, e)
         /\ x.k = "op" => \A v : v \in Eval(x, e) <=>
               \E a \in Leaf(x.l, e), b \in Leaf(x.r, e) :
                  v \in IF Raise \in {a, b} THEN {Raise} ELSE Outcomes(x.op, a, b)
<1>1. x.k # "op" => Eval(x, e) = Leaf(x, e)
  BY DEF Eval
<1>2. ASSUME x.k = "op", NEW v
      PROVE  v \in Eval(x, e) <=>
               \E a \in Leaf(x.l, e), b \in Leaf(x.r, e) :
                  v \in IF Raise \in {a, b} THEN {Raise} ELSE Outcomes(x.op, a, b)
  <2> DEFINE Of(a, b) == IF Raise \in {a, b} THEN {Raise} ELSE Outcomes(x.op, a, b)
  <2>1. Eval(x, e) = UNION {Of(a, b) : a \in Leaf(x.l, e), b \in Leaf(x.r, e)}
    BY <1>2 DEF Eval
  <2> HIDE DEF Of
  <2>2. v \in Eval(x, e) <=> \E a \in Leaf(x.l, e), b \in Leaf(x.r, e) : v \in Of(a, b)
    BY <2>1
  <2> QED BY <2>2 DEF Of
<1>3. QED
  BY <1>1, <1>2

(* An expression comes to values and failures.                             *)
LEMMA EvalTyped ==
  ASSUME NEW e \in [Names -> Values], NEW x \in Nodes
  PROVE  Eval(x, e) \subseteq Results
<1>1. CASE x.k # "op"
  <2>1. x \in LeafNodes /\ Eval(x, e) = Leaf(x, e)
    BY <1>1, NodeKinds, EvalOf
  <2> QED BY <2>1, LeafTyped
<1>2. CASE x.k = "op"
  <2>1. x.op \in Operators /\ x.l \in LeafNodes /\ x.r \in LeafNodes
    BY <1>2, NodeKinds
  <2>2. Leaf(x.l, e) \subseteq Results /\ Leaf(x.r, e) \subseteq Results
    BY <2>1, LeafTyped
  <2>3. ASSUME NEW v \in Eval(x, e) PROVE v \in Results
    <3>1. PICK a \in Leaf(x.l, e), b \in Leaf(x.r, e) :
             v \in IF Raise \in {a, b} THEN {Raise} ELSE Outcomes(x.op, a, b)
      BY <1>2, EvalOf
    <3>2. Outcomes(x.op, a, b) \subseteq Results
      BY <2>1, <2>2, OutcomesTyped
    <3> QED BY <3>1, <3>2 DEF Results
  <2> QED BY <2>3
<1>3. QED
  BY <1>1, <1>2

(* So does a statement that binds.                                         *)
LEMMA BindingsTyped ==
  ASSUME NEW e \in [Names -> Values], NEW s \in Statements,
         s.k \in {"assign", "aug", "range", "for", "unpack"}
  PROVE  Bindings(s, e) \subseteq Results
<1>1. CASE s.k = "assign"
  BY <1>1, StatementKinds, BindingsOf, EvalTyped
<1>2. CASE s.k = "aug"
  BY <1>2, StatementKinds, BindingsOf, EvalTyped
<1>3. CASE s.k = "range"
  <2>1. \A v \in Bindings(s, e) : \E c \in -MaxInt .. MaxInt : v = Whole(c)
    BY <1>3 DEF Bindings
  <2>2. -MaxInt .. MaxInt \subseteq Int
    BY ReachAssumption
  <2> QED BY <2>1, <2>2 DEF Results
<1>4. CASE s.k \in {"for", "unpack"}
  <2>1. Bindings(s, e) = Anything
    BY <1>4, BindingsOf
  <2> QED BY <2>1 DEF Anything, Results
<1>5. QED
  BY <1>1, <1>2, <1>3, <1>4

-----------------------------------------------------------------------------
Types == /\ body \in Bodies
         /\ reg \in [Names -> Word] /\ flag \in [Names -> BOOLEAN] /\ obj \in [Names -> Values]

Inv == Types /\ HeldOnce

(* What the analyses pick: doubles and integers are two sorts, the doubles *)
(* are struck out to the last, and none of them is unpacked into.          *)
LEMMA PickedNames ==
  /\ Doubles \subseteq Names /\ Ints \subseteq Names /\ Doubles \cap Ints = {}
  /\ Struck(body, Doubles) = {}
  /\ \A s \in body : s.to \in Doubles => s.k # "unpack"
<1>1. Doubles \subseteq Eligible(body, IntArithmetic \cup FloatArithmetic) /\ Struck(body, Doubles) = {}
  BY DoublesAreStable DEF Doubles
<1>2. \A ops : Eligible(body, ops) \subseteq Names
  BY DEF Eligible, Calculated
<1>3. Doubles \cap OtherwiseBound(body) = {}
  BY <1>1 DEF Eligible
<1>4. Ints = Eligible(body, IntArithmetic) \ Doubles
  BY DEF Ints, IntLocals, Doubles
<1>5. QED
  BY <1>1, <1>2, <1>3, <1>4 DEF OtherwiseBound

(* What is within the limit is in a word, and a word is within reach.      *)
LEMMA Limits == 0 \in Word /\ Word \subseteq Int /\ Limit \in Nat /\ Word \subseteq -MaxInt .. MaxInt
                /\ \A v \in Int : -Limit <= v /\ v <= Limit => v \in Word
<1>1. Half \in Nat /\ Half > 1 /\ Limit \in Nat /\ Limit + Limit < Half
  BY WordAssumption
<1>2. MaxInt \in Nat /\ Half <= MaxInt
  BY ReachAssumption
<1>3. QED
  BY <1>1, <1>2 DEF Word

(* A function is made of statements.                                       *)
LEMMA BodyTyped == Types => body \subseteq Statements
  BY BodiesAssumption DEF Types

(* What the names are bound to are values.                                 *)
LEMMA EnvTyped ==
  ASSUME Types
  PROVE  /\ Env \in [Names -> Values]
         /\ \A n \in Names : Env[n] = Held(n)
<1>1. ASSUME NEW n \in Names PROVE Held(n) \in Values
  <2>1. reg[n] \in Int /\ obj[n] \in Values
    BY Limits DEF Types
  <2> QED BY <2>1 DEF Held, Values
<1>2. QED
  BY <1>1 DEF Env

(* What a register holds is what its name does.                            *)
LEMMA InRegister ==
  ASSUME Inv, NEW n \in Names, flag[n]
  PROVE  /\ n \in Doubles => Held(n) = Real
         /\ n \in Ints => Held(n) = Whole(reg[n])
         /\ reg[n] \in Word
  BY PickedNames DEF Inv, Types, HeldOnce, Held

(* An expression that reads an unwritten name may fail, and does.          *)
LEMMA UnboundRaises ==
  ASSUME Inv, NEW x \in Nodes, Unbound(x)
  PROVE  Raise \in Eval(x, Env)
<1>1. PICK y \in Leaves(x) : y.k = "name" /\ Held(y.n) = Nothing
  BY DEF Unbound
<1>2. Env \in [Names -> Values] /\ \A n \in Names : Env[n] = Held(n)
  BY EnvTyped DEF Inv
<1>3. y \in LeafNodes
  BY <1>1, NodeKinds DEF Leaves
<1>4. Leaf(y, Env) = {Raise}
  BY <1>1, <1>2, <1>3, LeafTyped, LeafKinds
<1>5. CASE x.k # "op"
  <2>1. y = x
    BY <1>1, <1>5 DEF Leaves
  <2> QED BY <1>4, <1>5, <2>1, EvalOf
<1>6. CASE x.k = "op"
  <2>1. x.l \in LeafNodes /\ x.r \in LeafNodes /\ y \in {x.l, x.r}
    BY <1>1, <1>6, NodeKinds DEF Leaves
  <2>2. PICK a \in Leaf(x.l, Env), b \in Leaf(x.r, Env) : TRUE
    BY <1>2, <2>1, LeafTyped
  <2>3. Raise \in {a, b}
    BY <1>4, <2>1, <2>2
  <2>4. Raise \in IF Raise \in {a, b} THEN {Raise} ELSE Outcomes(x.op, a, b)
    BY <2>3
  <2> QED BY <1>6, <2>2, <2>4, EvalOf
<1>7. QED
  BY <1>5, <1>6

(* A leaf in a register is what Python has there.                          *)
LEMMA NarrowLeafIs ==
  ASSUME Inv, NEW y \in LeafNodes, Literal(y) \/ (y.k = "name" /\ y.n \in Ints /\ flag[y.n])
  PROVE  Register(y) \in Word /\ Leaf(y, Env) = {Whole(Register(y))}
<1>1. Env \in [Names -> Values] /\ \A n \in Names : Env[n] = Held(n)
  BY EnvTyped DEF Inv
<1>2. CASE Literal(y)
  BY <1>1, <1>2, LeafTyped, LeafKinds, Limits DEF Literal, Register
<1>3. CASE y.k = "name" /\ y.n \in Ints /\ flag[y.n]
  <2>1. y.n \in Names
    BY <1>3, LeafKinds
  <2>2. Held(y.n) = Whole(reg[y.n]) /\ reg[y.n] \in Word
    BY <1>3, <2>1, InRegister
  <2>3. Held(y.n) # Nothing
    BY <2>2, Kinds
  <2>4. Leaf(y, Env) = {Held(y.n)}
    BY <1>1, <1>3, <2>1, <2>3, LeafTyped
  <2> QED BY <1>3, <2>2, <2>4 DEF Register
<1>4. QED
  BY <1>2, <1>3

(* What is computed in a word and fits is what Python computes.            *)
LEMMA NarrowIs ==
  ASSUME Inv, NEW x \in Nodes, NarrowTree(x), ~Boxed(x), MachineValue(x).fits
  PROVE  MachineValue(x).value \in Word /\ Whole(MachineValue(x).value) \in Eval(x, Env)
<1>1. \A y \in Leaves(x) : y \in LeafNodes /\ (Literal(y) \/ (y.k = "name" /\ y.n \in Ints /\ flag[y.n]))
  <2>1. Leaves(x) \subseteq LeafNodes
    BY NodeKinds DEF Leaves
  <2> QED BY <2>1 DEF NarrowTree, Boxed
<1>2. \A y \in Leaves(x) : Register(y) \in Word /\ Leaf(y, Env) = {Whole(Register(y))}
  BY <1>1, NarrowLeafIs
<1>3. CASE x.k # "op"
  <2>1. x \in Leaves(x) /\ MachineValue(x).value = Register(x)
    BY <1>3 DEF Leaves, MachineValue
  <2> QED BY <1>2, <1>3, <2>1, EvalOf
<1>4. CASE x.k = "op"
  <2> DEFINE l == Register(x.l)
             r == Register(x.r)
  <2>1. x.l \in Leaves(x) /\ x.r \in Leaves(x) /\ MachineValue(x) = Operation(x.op, l, r)
    BY <1>4 DEF Leaves, MachineValue
  <2>2. l \in Word /\ r \in Word /\ Leaf(x.l, Env) = {Whole(l)} /\ Leaf(x.r, Env) = {Whole(r)}
    BY <1>2, <2>1
  <2> HIDE DEF l, r
  <2>3. x.op \in {"+", "-", "*", "//", "%"}
    BY <1>4 DEF NarrowTree, IntArithmetic
  <2>4. Right(Operation(x.op, l, r), Exact(x.op, l, r))
    BY <2>2, <2>3, MachineArithmeticIsPython
  <2>5. MachineValue(x).value \in Word /\ MachineValue(x).value = Exact(x.op, l, r)
    BY <2>1, <2>4 DEF Right
  <2>6. ~(x.op \in Dividing /\ r = 0)
    <3>1. CASE x.op = "//" /\ r = 0
      <4>1. ~FloorDiv(l, r).fits
        BY <3>1 DEF FloorDiv, Divides
      <4>2. Operation(x.op, l, r) = FloorDiv(l, r)
        BY <3>1 DEF Operation
      <4> QED BY <2>1, <4>1, <4>2
    <3>2. CASE x.op = "%" /\ r = 0
      <4>1. ~Mod(l, r).fits
        BY <3>2 DEF Mod, Divides
      <4>2. Operation(x.op, l, r) = Mod(l, r)
        BY <3>2 DEF Operation
      <4> QED BY <2>1, <4>1, <4>2
    <3> QED BY <2>3, <3>1, <3>2 DEF Dividing
  <2>7. Outcomes(x.op, Whole(l), Whole(r)) = {Whole(Exact(x.op, l, r))}
    <3>1. {Whole(l).t, Whole(r).t} = {"int"} /\ Whole(l).v = l /\ Whole(r).v = r
      BY Kinds
    <3>2. x.op # "/"
      BY <2>3
    <3> QED BY <2>6, <3>1, <3>2 DEF Outcomes
  <2>8. Raise \notin {Whole(l), Whole(r)}
    BY Kinds
  <2>9. \E a \in Leaf(x.l, Env), b \in Leaf(x.r, Env) :
           Whole(Exact(x.op, l, r)) \in IF Raise \in {a, b} THEN {Raise} ELSE Outcomes(x.op, a, b)
    BY <2>2, <2>7, <2>8
  <2>10. Whole(Exact(x.op, l, r)) \in Eval(x, Env)
    BY <1>4, <2>9, EvalOf
  <2> QED BY <2>5, <2>10
<1>5. QED
  BY <1>3, <1>4

(* What is computed in a double Python computes in a float.                *)
LEMMA DoubleIs ==
  ASSUME Inv, NEW x \in Nodes, DoubleTree(x), ~Boxed(x)
  PROVE  Real \in Eval(x, Env)
<1>1. Env \in [Names -> Values] /\ \A n \in Names : Env[n] = Held(n)
  BY EnvTyped DEF Inv
<1>2. ASSUME NEW y \in Leaves(x)
      PROVE  /\ y \in LeafNodes
             /\ Literal(y) => \E k \in Int : Leaf(y, Env) = {Whole(k)}
             /\ ~Literal(y) => Leaf(y, Env) = {Real}
  <2>1. y \in LeafNodes
    BY NodeKinds DEF Leaves
  <2>2. Literal(y) => y.k = "int" /\ y.v \in Int
    BY <2>1, LeafKinds DEF Literal
  <2>3. CASE Literal(y)
    BY <1>1, <2>1, <2>2, <2>3, LeafTyped
  <2>4. CASE y.k = "float"
    BY <1>1, <2>1, <2>2, <2>4, LeafTyped
  <2>5. CASE y.k = "name" /\ y.n \in Doubles
    <3>1. y.n \in Names /\ flag[y.n]
      BY <1>2, <2>1, <2>5, LeafKinds DEF Boxed
    <3>2. Held(y.n) = Real /\ Real # Nothing
      BY <2>5, <3>1, InRegister, Kinds
    <3> QED BY <1>1, <2>1, <2>2, <2>5, <3>1, <3>2, LeafTyped
  <2> QED BY <1>2, <2>1, <2>3, <2>4, <2>5 DEF DoubleTree
<1>3. CASE x.k # "op"
  <2>1. x \in Leaves(x) /\ ~Literal(x)
    BY <1>3 DEF Leaves, DoubleTree
  <2> QED BY <1>2, <1>3, <2>1, EvalOf
<1>4. CASE x.k = "op"
  <2>1. x.l \in Leaves(x) /\ x.r \in Leaves(x) /\ (~Literal(x.l) \/ ~Literal(x.r))
    BY <1>4 DEF Leaves, DoubleTree
  <2>2. PICK a \in Leaf(x.l, Env), b \in Leaf(x.r, Env) :
           /\ {a.t, b.t} \subseteq {"int", "float"} /\ "float" \in {a.t, b.t} /\ Raise \notin {a, b}
    BY <1>2, <2>1, Kinds
  <2>3. Real \in Outcomes(x.op, a, b)
    BY <2>2 DEF Outcomes
  <2>4. Real \in IF Raise \in {a, b} THEN {Raise} ELSE Outcomes(x.op, a, b)
    BY <2>2, <2>3
  <2> QED BY <1>4, <2>4, EvalOf
<1>5. QED
  BY <1>3, <1>4

-----------------------------------------------------------------------------
Binders == {"assign", "aug", "range", "for", "unpack"}

(* A statement is left to the C API, or fails where Python may, or puts in *)
(* a register what Python may have bound.                                  *)
Splits(s) == \/ Plainly(s)
             \/ Raise \in Bindings(s, Env) /\ Fails(s, "raised")
             \/ \E v \in Word : /\ StoreRegister(s, v)
                                /\ \/ s.to \in Doubles /\ Real \in Bindings(s, Env)
                                   \/ s.to \in Ints /\ Whole(v) \in Bindings(s, Env)

(* What the statement does to the names is one of the things Python may do. *)
Binds(s) == \E b \in Bindings(s, Env) :
               \/ b = Raise /\ Went(s, "raised") /\ Env' = Env
               \/ b # Raise /\ InRange(b) /\ Went(s, "went") /\ Env' = [Env EXCEPT ![s.to] = b]

(* An assignment to a picked name splits so: a tree that goes in registers *)
(* is computed there, and what does not fit or is boxed goes the slow way. *)
LEMMA BoundSplits ==
  ASSUME Inv, NEW s, NEW x \in Nodes, Bindings(s, Env) = Eval(x, Env), Bound(s, x)
  PROVE  Splits(s)
<1>1. CASE Plainly(s)
  BY <1>1 DEF Splits
<1>2. CASE s.to \in Doubles /\ DoubleTree(x) /\ NarrowDoubleAssign(s, x)
  <2>1. CASE Unbound(x)
    <3>1. Fails(s, "raised")
      BY <1>2, <2>1 DEF NarrowDoubleAssign
    <3> QED BY <2>1, <3>1, UnboundRaises DEF Splits
  <2>2. CASE ~Unbound(x) /\ ~Boxed(x) /\ StoreRegister(s, 0)
    <3>1. Real \in Bindings(s, Env) /\ 0 \in Word
      BY <1>2, <2>2, DoubleIs, Limits
    <3> QED BY <1>2, <2>2, <3>1 DEF Splits
  <2> QED BY <1>1, <1>2, <2>1, <2>2 DEF NarrowDoubleAssign
<1>3. CASE s.to \in Ints /\ NarrowTree(x) /\ NarrowAssign(s, x)
  <2>1. CASE Unbound(x)
    <3>1. Fails(s, "raised")
      BY <1>3, <2>1 DEF NarrowAssign
    <3> QED BY <2>1, <3>1, UnboundRaises DEF Splits
  <2>2. CASE ~Unbound(x) /\ ~Boxed(x) /\ MachineValue(x).fits
    <3>1. StoreRegister(s, MachineValue(x).value)
      BY <1>3, <2>2 DEF NarrowAssign
    <3>2. MachineValue(x).value \in Word /\ Whole(MachineValue(x).value) \in Bindings(s, Env)
      BY <1>3, <2>2, NarrowIs
    <3> QED BY <1>3, <3>1, <3>2 DEF Splits
  <2> QED BY <1>1, <1>3, <2>1, <2>2 DEF NarrowAssign
<1>4. QED
  BY <1>1, <1>2, <1>3 DEF Bound

(* So does every statement that binds a name, counted loops included.      *)
LEMMA StatementSplits ==
  ASSUME Inv, NEW s \in body, Assign(s) \/ Augment(s) \/ ForRange(s) \/ For(s)
  PROVE  Splits(s) /\ s.k \in Binders
<1>1. s \in Statements
  BY BodyTyped DEF Inv
<1>2. CASE Assign(s)
  <2>1. s.k = "assign" /\ Bound(s, s.e)
    BY <1>2 DEF Assign
  <2>2. s.e \in Nodes /\ Bindings(s, Env) = Eval(s.e, Env)
    BY <1>1, <2>1, StatementKinds, BindingsOf
  <2> QED BY <2>1, <2>2, BoundSplits DEF Binders
<1>3. CASE Augment(s)
  <2>1. s.k = "aug" /\ Bound(s, Rewritten(s))
    BY <1>3 DEF Augment
  <2>2. Rewritten(s) \in Nodes /\ Bindings(s, Env) = Eval(Rewritten(s), Env)
    BY <1>1, <2>1, StatementKinds, BindingsOf
  <2> QED BY <2>1, <2>2, BoundSplits DEF Binders
<1>4. CASE ForRange(s)
  <2>1. s.k = "range" /\ s.lo \in Int /\ s.hi \in Int /\ s.step \in Int /\ s.step # 0
    BY <1>1, <1>4, StatementKinds DEF ForRange
  <2>2. CASE Plainly(s)
    BY <2>1, <2>2 DEF Splits, Binders
  <2>3. CASE s.to \in Ints /\ Countable(s.lo, s.hi, s.step) /\ \E c \in Counted(s.lo, s.hi, s.step) : StoreRegister(s, c)
    <3>1. PICK c \in Counted(s.lo, s.hi, s.step) : StoreRegister(s, c)
      BY <2>3
    <3> DEFINE up == IF s.step > 0 THEN 1 ELSE -1
    <3>2. /\ c \in Int /\ -Limit <= c /\ c <= Limit
          /\ IF s.step > 0 THEN c >= s.lo /\ c < s.hi ELSE c <= s.lo /\ c > s.hi
          /\ (c - s.lo) % (s.step * up) = 0
      BY <2>1, <2>3, CountedRight
    <3>3. c \in Word /\ c \in -MaxInt .. MaxInt
      BY <3>2, Limits
    <3>4. Exact("*", s.step, up) = s.step * up
      BY DEF Exact
    <3>5. Whole(c) \in Bindings(s, Env)
      <4>1. Bindings(s, Env) =
              {Whole(d) : d \in {z \in -MaxInt .. MaxInt : /\ IF s.step > 0 THEN z >= s.lo /\ z < s.hi
                                                                           ELSE z <= s.lo /\ z > s.hi
                                                          /\ (z - s.lo) % Exact("*", s.step, up) = 0}}
        BY <2>1 DEF Bindings
      <4> QED BY <3>2, <3>3, <3>4, <4>1
    <3> QED BY <2>1, <2>3, <3>1, <3>3, <3>5 DEF Splits, Binders
  <2> QED BY <1>4, <2>2, <2>3 DEF ForRange
<1>5. CASE For(s)
  BY <1>5 DEF For, Splits, Binders
<1>6. QED
  BY <1>2, <1>3, <1>4, <1>5

(* Storing keeps what is held once, and binds one name.                    *)
LEMMA ObjectStored ==
  ASSUME Inv, body' = body, NEW s \in Statements, NEW v \in Values, StoreObject(s, v)
  PROVE  Inv' /\ Env' = [Env EXCEPT ![s.to] = v]
<1>1. s.to \in Names
  BY StatementKinds
<1>2. /\ reg' = reg /\ flag' = [flag EXCEPT ![s.to] = FALSE] /\ obj' = [obj EXCEPT ![s.to] = v]
      /\ Doubles' = Doubles /\ Ints' = Ints
  BY DEF StoreObject, Doubles, Ints
<1>3. /\ body \in Bodies /\ reg \in [Names -> Word] /\ flag \in [Names -> BOOLEAN] /\ obj \in [Names -> Values]
      /\ \A n \in Names : reg[n] \in Word /\ (flag[n] => obj[n] = Nothing) /\ (flag[n] => n \in Doubles \cup Ints)
  BY DEF Inv, Types, HeldOnce
<1>4. Types'
  BY <1>1, <1>2, <1>3 DEF Types
<1>5. HeldOnce'
  BY <1>1, <1>2, <1>3 DEF HeldOnce
<1>6. \A n \in Names : Held(n)' = IF n = s.to THEN v ELSE Held(n)
  BY <1>1, <1>2, <1>3 DEF Held
<1>7. Env' = [n \in Names |-> Held(n)'] /\ Env = [n \in Names |-> Held(n)]
  BY DEF Env
<1>8. QED
  BY <1>1, <1>4, <1>5, <1>6, <1>7 DEF Inv

(* The same where the value goes in the register.                          *)
LEMMA RegisterStored ==
  ASSUME Inv, body' = body, NEW s \in Statements, NEW v \in Word, s.to \in Doubles \cup Ints, StoreRegister(s, v)
  PROVE  Inv' /\ Env' = [Env EXCEPT ![s.to] = IF s.to \in Doubles THEN Real ELSE Whole(v)]
<1>1. s.to \in Names
  BY StatementKinds
<1>2. /\ reg' = [reg EXCEPT ![s.to] = v] /\ flag' = [flag EXCEPT ![s.to] = TRUE] /\ obj' = [obj EXCEPT ![s.to] = Nothing]
      /\ Doubles' = Doubles /\ Ints' = Ints
  BY DEF StoreRegister, Doubles, Ints
<1>3. /\ body \in Bodies /\ reg \in [Names -> Word] /\ flag \in [Names -> BOOLEAN] /\ obj \in [Names -> Values]
      /\ \A n \in Names : reg[n] \in Word /\ (flag[n] => obj[n] = Nothing) /\ (flag[n] => n \in Doubles \cup Ints)
  BY DEF Inv, Types, HeldOnce
<1>4. Types'
  BY <1>1, <1>2, <1>3 DEF Types, Values
<1>5. HeldOnce'
  BY <1>1, <1>2, <1>3 DEF HeldOnce
<1>6. \A n \in Names : Held(n)' = IF n = s.to THEN IF s.to \in Doubles THEN Real ELSE Whole(v) ELSE Held(n)
  BY <1>1, <1>2, <1>3 DEF Held
<1>7. Env' = [n \in Names |-> Held(n)'] /\ Env = [n \in Names |-> Held(n)]
  BY DEF Env
<1>8. QED
  BY <1>1, <1>4, <1>5, <1>6, <1>7 DEF Inv

(* A failure leaves the names as they are.                                 *)
LEMMA Failed ==
  ASSUME Inv, body' = body, UNCHANGED <<reg, obj, flag>>
  PROVE  Inv' /\ Env' = Env
<1>1. Doubles' = Doubles /\ Ints' = Ints
  BY DEF Doubles, Ints
<1>2. Types' /\ HeldOnce'
  BY <1>1 DEF Inv, Types, HeldOnce
<1>3. Env' = Env
  BY <1>1 DEF Env, Held
<1>4. QED
  BY <1>2, <1>3 DEF Inv

(* A statement that splits so binds as Python may.                         *)
LEMMA SplitBinds ==
  ASSUME Inv, body' = body, NEW s \in body, s.k \in Binders, Splits(s)
  PROVE  Inv' /\ Binds(s)
<1>1. s \in Statements
  BY BodyTyped DEF Inv
<1>2. Bindings(s, Env) \subseteq Results
  BY <1>1, EnvTyped, BindingsTyped DEF Inv, Binders
<1>3. CASE Plainly(s)
  <2>1. PICK b \in Bindings(s, Env) : \/ b = Raise /\ Fails(s, "raised")
                                      \/ b # Raise /\ InRange(b) /\ StoreObject(s, b)
    BY <1>3 DEF Plainly
  <2>2. CASE b = Raise /\ Fails(s, "raised")
    BY <2>1, <2>2, Failed DEF Fails, Binds
  <2>3. CASE b # Raise /\ InRange(b) /\ StoreObject(s, b)
    <3>1. b \in Values
      BY <1>2, <2>3 DEF Values, Results
    <3>2. Inv' /\ Env' = [Env EXCEPT ![s.to] = b]
      BY <1>1, <2>3, <3>1, ObjectStored
    <3>3. Went(s, "went")
      BY <2>3 DEF StoreObject
    <3> QED BY <2>1, <2>3, <3>2, <3>3 DEF Binds
  <2> QED BY <2>1, <2>2, <2>3
<1>4. CASE Raise \in Bindings(s, Env) /\ Fails(s, "raised")
  BY <1>4, Failed DEF Fails, Binds
<1>5. ASSUME NEW v \in Word, StoreRegister(s, v),
             \/ s.to \in Doubles /\ Real \in Bindings(s, Env)
             \/ s.to \in Ints /\ Whole(v) \in Bindings(s, Env)
      PROVE  Inv' /\ Binds(s)
  <2> DEFINE b == IF s.to \in Doubles THEN Real ELSE Whole(v)
  <2>1. Inv' /\ Env' = [Env EXCEPT ![s.to] = b]
    BY <1>1, <1>5, RegisterStored
  <2>2. b \in Bindings(s, Env) /\ b # Raise
    BY <1>5, PickedNames, Kinds
  <2>3. InRange(b)
    BY Limits, Kinds DEF InRange
  <2>4. Went(s, "went")
    BY <1>5 DEF StoreRegister
  <2> HIDE DEF b
  <2> QED BY <2>1, <2>2, <2>3, <2>4 DEF Binds
<1>6. QED
  BY <1>3, <1>4, <1>5 DEF Splits

(* Every step of the C does what Python may.                               *)
LEMMA Steps ==
  ASSUME Inv, [Next]_vars
  PROVE  /\ Inv'
         /\ \/ body' = body /\ \E s \in body : s.k \in Binders /\ Binds(s)
            \/ body' = body /\ Env' = Env /\ \E s \in body : AppendCall(s)
            \/ UNCHANGED <<body, ran>> /\ Env' = Env
<1>1. CASE UNCHANGED vars
  BY <1>1, Failed DEF vars
<1>2. ASSUME body' = body, NEW s \in body, Assign(s) \/ Augment(s) \/ ForRange(s) \/ For(s)
      PROVE  Inv' /\ s.k \in Binders /\ Binds(s)
  BY <1>2, StatementSplits, SplitBinds
<1>3. ASSUME body' = body, NEW s \in body, AppendCall(s)
      PROVE  Inv' /\ Env' = Env
  <2>1. UNCHANGED <<reg, obj, flag>>
    BY <1>3 DEF AppendCall, Fails
  <2> QED BY <1>3, <2>1, Failed
<1>4. QED
  BY <1>1, <1>2, <1>3 DEF Next

(* The invariant holds at first.                                           *)
LEMMA Begins == Init => Inv
<1> SUFFICES ASSUME Init PROVE Inv
  OBVIOUS
<1>1. Types
  BY Limits DEF Init, Types, Values
<1>2. HeldOnce
  BY Limits DEF Init, HeldOnce
<1>3. QED
  BY <1>1, <1>2 DEF Inv

(* HeldOnce, of every function and any number of names: no store leaves the *)
(* other variable of its name behind, and no register holds more than a word. *)
THEOREM HeldOnceHolds == Spec => []HeldOnce
<1>1. Init => Inv
  BY Begins
<1>2. Inv /\ [Next]_vars => Inv'
  BY Steps
<1>3. Inv => HeldOnce
  BY DEF Inv
<1>4. QED
  BY <1>1, <1>2, <1>3, PTL DEF Spec

-----------------------------------------------------------------------------
(* A leaf that is no object of the program's own is none when it is read.  *)
LEMMA KnownLeaf ==
  ASSUME NEW e \in [Names -> Values], NEW known, NEW v \in {Real, Lst}, \A n \in known : e[n] \in {v, Nothing},
         NEW y \in LeafNodes, ~MayBeAnObject(y, known)
  PROVE  \A a \in Leaf(y, e) : a.t \in {"int", "float", "list", "raise"}
<1>1. y.k \in {"int", "float", "list", "name"} /\ (y.k = "name" => y.n \in known)
  BY LeafKinds DEF MayBeAnObject
<1>2. CASE y.k # "name"
  BY <1>1, <1>2, LeafTyped, Kinds
<1>3. CASE y.k = "name"
  <2>1. Leaf(y, e) \subseteq {v, Raise}
    BY <1>1, <1>3, LeafTyped
  <2> QED BY <2>1, Kinds
<1>4. QED
  BY <1>2, <1>3

(* A list with anything but an object makes a list or fails; a float, a    *)
(* float or a failure.                                                     *)
LEMMA KnownOutcomes ==
  ASSUME NEW op, NEW a, NEW b \in Results, b.t \in {"int", "float", "list"}
  PROVE  /\ a = Lst => Outcomes(op, a, b) \subseteq {Lst, Raise} /\ Outcomes(op, b, a) \subseteq {Lst, Raise}
         /\ a = Real => Outcomes(op, a, b) \subseteq {Real, Raise} /\ Outcomes(op, b, a) \subseteq {Real, Raise}
<1>1. CASE a = Lst
  <2>1. a.t = "list" /\ a # Real
    BY <1>1, Kinds
  <2> QED BY <1>1, <2>1 DEF Outcomes
<1>2. CASE a = Real
  <2>1. a.t = "float" /\ a # Lst
    BY <1>2, Kinds
  <2> QED BY <1>2, <2>1 DEF Outcomes
<1>3. QED
  BY <1>1, <1>2

(* x op= y leaves a list a list and a float a float, y being known.        *)
LEMMA KnownAugment ==
  ASSUME NEW e \in [Names -> Values], NEW known, NEW v \in {Real, Lst}, \A n \in known : e[n] \in {v, Nothing},
         NEW s \in Statements, s.k = "aug", s.to \in known, ~MayBeAnObject(s.e, known)
  PROVE  Bindings(s, e) \subseteq {v, Raise}
<1> DEFINE x == Rewritten(s)
<1>1. s.to \in Names /\ s.e \in LeafNodes /\ x \in Nodes
  BY StatementKinds
<1>2. x.k = "op" /\ x.l = Named(s.to) /\ x.r = s.e
  BY DEF Rewritten
<1>3. x.l \in LeafNodes
  BY <1>1, <1>2, NodeKinds
<1> HIDE DEF x
<1>4. Leaf(x.l, e) \subseteq {v, Raise}
  <2>1. x.l.k = "name" /\ x.l.n = s.to
    BY <1>2 DEF Named
  <2>2. Leaf(x.l, e) = {IF e[s.to] = Nothing THEN Raise ELSE e[s.to]}
    BY <1>3, <2>1, LeafTyped
  <2> QED BY <2>2
<1>5. Leaf(x.r, e) \subseteq Results /\ \A b \in Leaf(x.r, e) : b.t \in {"int", "float", "list", "raise"}
  BY <1>1, <1>2, KnownLeaf, LeafTyped
<1>6. ASSUME NEW o \in Eval(x, e) PROVE o \in {v, Raise}
  <2>1. PICK a \in Leaf(x.l, e), b \in Leaf(x.r, e) :
           o \in IF Raise \in {a, b} THEN {Raise} ELSE Outcomes(x.op, a, b)
    BY <1>2, <1>6, EvalOf
  <2>2. CASE Raise \in {a, b}
    BY <2>1, <2>2
  <2>3. CASE Raise \notin {a, b}
    <3>1. a = v /\ b \in Results /\ b.t \in {"int", "float", "list"}
      BY <1>4, <1>5, <2>3, ValueKinds
    <3>2. Outcomes(x.op, a, b) \subseteq {v, Raise}
      BY <3>1, KnownOutcomes
    <3> QED BY <2>1, <2>3, <3>2
  <2> QED BY <2>2, <2>3
<1>7. QED
  BY <1>6, BindingsOf DEF x

(* A name that is taken for a list is bound to lists.                      *)
LEMMA ListBindings ==
  ASSUME NEW b \in SUBSET Statements, ~UnseenByLists(b),
         NEW e \in [Names -> Values], \A n \in ExactLists(b) : e[n] \in {Lst, Nothing},
         NEW s \in b, s.k \in Binders, s.to \in ExactLists(b)
  PROVE  Bindings(s, e) \subseteq {Lst, Raise}
<1>1. s \in Statements /\ Displays(b, s.to) = {"list"} /\ s.k # "unpack"
  BY DEF ExactLists, OtherwiseBound
<1>2. s.k \notin {"for", "range"} /\ (s.k = "aug" => ~MayBeAnObject(s.e, ExactLists(b)))
  BY DEF UnseenByLists
<1>3. CASE s.k = "assign"
  <2>1. s.e.k = "list"
    BY <1>1, <1>3 DEF Displays
  <2>2. s.e \in LeafNodes
    BY <1>1, <1>3, <2>1, StatementKinds, NodeKinds
  <2>3. Bindings(s, e) = {Lst}
    BY <1>3, <2>1, <2>2, BindingsOf, EvalOf, LeafTyped
  <2> QED BY <2>3
<1>4. CASE s.k = "aug"
  <2> HIDE DEF ExactLists
  <2> QED BY <1>1, <1>2, <1>4, KnownAugment
<1>5. QED
  BY <1>1, <1>2, <1>3, <1>4 DEF Binders

(* What is taken for a float comes to one, or fails.                       *)
LEMMA FloatEval ==
  ASSUME NEW e \in [Names -> Values], NEW d, \A n \in d : e[n] \in {Real, Nothing},
         NEW x \in Nodes, IsFloat(x, d)
  PROVE  Eval(x, e) \subseteq {Real, Raise}
<1>1. ASSUME NEW y \in LeafNodes, NarrowLeaf(y, d)
      PROVE  Leaf(y, e) \subseteq {Real, Raise}
  BY <1>1, LeafTyped DEF NarrowLeaf
<1>2. ASSUME NEW y \in LeafNodes, Floatish(y, d)
      PROVE  Leaf(y, e) \subseteq Results /\ \A a \in Leaf(y, e) : a.t \in {"int", "float", "raise"}
  <2>1. CASE y.k = "int"
    BY <2>1, LeafTyped, Kinds
  <2>2. CASE NarrowLeaf(y, d)
    BY <1>1, <2>2, LeafTyped, Kinds
  <2> QED BY <1>2, <2>1, <2>2 DEF Floatish
<1>3. CASE x.k # "op"
  <2>1. x \in LeafNodes /\ NarrowLeaf(x, d)
    BY <1>3, NodeKinds DEF IsFloat
  <2> QED BY <1>1, <1>3, <2>1, EvalOf
<1>4. CASE x.k = "op"
  <2>1. x.l \in LeafNodes /\ x.r \in LeafNodes
    BY <1>4, NodeKinds
  <2>2. \/ NarrowLeaf(x.l, d) /\ Floatish(x.r, d)
        \/ NarrowLeaf(x.r, d) /\ Floatish(x.l, d)
    BY <1>4 DEF IsFloat
  <2>3. ASSUME NEW o \in Eval(x, e) PROVE o \in {Real, Raise}
    <3>1. PICK a \in Leaf(x.l, e), b \in Leaf(x.r, e) :
             o \in IF Raise \in {a, b} THEN {Raise} ELSE Outcomes(x.op, a, b)
      BY <1>4, <2>3, EvalOf
    <3>2. CASE Raise \in {a, b}
      BY <3>1, <3>2
    <3>3. CASE Raise \notin {a, b} /\ NarrowLeaf(x.l, d) /\ Floatish(x.r, d)
      <4>1. a = Real /\ b \in Results /\ b.t \in {"int", "float", "list"}
        BY <1>1, <1>2, <2>1, <3>3, ValueKinds
      <4>2. Outcomes(x.op, a, b) \subseteq {Real, Raise}
        BY <4>1, KnownOutcomes
      <4> QED BY <3>1, <3>3, <4>2
    <3>4. CASE Raise \notin {a, b} /\ NarrowLeaf(x.r, d) /\ Floatish(x.l, d)
      <4>1. b = Real /\ a \in Results /\ a.t \in {"int", "float", "list"}
        BY <1>1, <1>2, <2>1, <3>4, ValueKinds
      <4>2. Outcomes(x.op, a, b) \subseteq {Real, Raise}
        BY <4>1, KnownOutcomes
      <4> QED BY <3>1, <3>4, <4>2
    <3> QED BY <2>2, <3>2, <3>3, <3>4
  <2> QED BY <2>3
<1>5. QED
  BY <1>3, <1>4

(* A name that is taken for a float is bound to floats.                    *)
LEMMA FloatBindings ==
  ASSUME Inv, ~UnseenByFloats(body),
         \A n \in Doubles : Env[n] \in {Real, Nothing},
         NEW s \in body, s.k \in Binders, s.to \in Doubles
  PROVE  Bindings(s, Env) \subseteq {Real, Raise}
<1>1. s \in Statements /\ Env \in [Names -> Values]
  BY BodyTyped, EnvTyped DEF Inv
<1>2. s.k \notin {"for", "range", "unpack"}
  BY PickedNames DEF UnseenByFloats, Doubles
<1>3. \A x \in Sources(body, s.to) : IsFloat(x, Doubles)
  BY PickedNames DEF Struck
<1>4. CASE s.k = "assign"
  <2>1. IsFloat(s.e, Doubles) /\ s.e \in Nodes
    BY <1>1, <1>3, <1>4, StatementKinds DEF Sources
  <2> QED BY <1>1, <1>4, <2>1, FloatEval, BindingsOf
<1>5. CASE s.k = "aug" /\ s.op \in FloatArithmetic
  <2>1. IsFloat(Rewritten(s), Doubles) /\ Rewritten(s) \in Nodes
    BY <1>1, <1>3, <1>5, StatementKinds DEF Sources
  <2> QED BY <1>1, <1>5, <2>1, FloatEval, BindingsOf
<1>6. CASE s.k = "aug" /\ s.op \notin FloatArithmetic
  <2>1. ~MayBeAnObject(s.e, Doubles)
    BY <1>6 DEF UnseenByFloats, Doubles
  <2> QED BY <1>1, <1>6, <2>1, KnownAugment
<1>7. QED
  BY <1>2, <1>4, <1>5, <1>6 DEF Binders

(* What a name was picked for, it holds.                                   *)
ListsKnown  == ~UnseenByLists(body) => \A n \in ExactLists(body) : Env[n] \in {Lst, Nothing}
FloatsKnown == ~UnseenByFloats(body) => \A n \in Doubles : Env[n] \in {Real, Nothing}

(* A step binds one name, or none.                                         *)
LEMMA OneBound ==
  ASSUME Inv, body' = body, NEW s \in body, s.k \in Binders, Binds(s)
  PROVE  \E b \in Bindings(s, Env) : \/ Env' = Env
                                     \/ b # Raise /\ Env' = [Env EXCEPT ![s.to] = b]
  BY DEF Binds

(* A step keeps what is known of the names.                                *)
LEMMA KnownSteps ==
  ASSUME Inv, [Next]_vars
  PROVE  (ListsKnown => ListsKnown') /\ (FloatsKnown => FloatsKnown')
<1> DEFINE Keeps(K, v) == (\A n \in K : Env[n] \in {v, Nothing}) => \A n \in K : Env'[n] \in {v, Nothing}
<1>1. Env \in [Names -> Values] /\ Doubles \subseteq Names /\ ExactLists(body) \subseteq Names
  BY EnvTyped, PickedNames DEF Inv, ExactLists
<1>2. body' = body /\ Doubles' = Doubles /\ (Env' = Env \/ \E s \in body : s.k \in Binders /\ Binds(s))
  BY Steps DEF Doubles
<1>3. ASSUME NEW K \in SUBSET Names, NEW v, \A n \in K : Env[n] \in {v, Nothing},
             \A s \in body : s.k \in Binders /\ s.to \in K => Bindings(s, Env) \subseteq {v, Raise}
      PROVE  \A n \in K : Env'[n] \in {v, Nothing}
  <2>1. CASE Env' = Env
    BY <1>3, <2>1
  <2>2. ASSUME NEW s \in body, s.k \in Binders, Binds(s) PROVE \A n \in K : Env'[n] \in {v, Nothing}
    <3>1. PICK b \in Bindings(s, Env) : Env' = Env \/ (b # Raise /\ Env' = [Env EXCEPT ![s.to] = b])
      BY <1>2, <2>2, OneBound
    <3>2. s.to \in K => b \in {v, Raise}
      BY <1>3, <2>2, <3>1
    <3>3. CASE b # Raise /\ Env' = [Env EXCEPT ![s.to] = b]
      <4>1. \A n \in Names : Env'[n] = IF n = s.to THEN b ELSE Env[n]
        BY <1>1, <3>3
      <4> QED BY <1>3, <3>2, <3>3, <4>1
    <3> QED BY <2>1, <3>1, <3>3
  <2> QED BY <1>2, <2>1, <2>2
<1>4. ASSUME ListsKnown, ~UnseenByLists(body) PROVE \A n \in ExactLists(body) : Env'[n] \in {Lst, Nothing}
  <2>1. \A n \in ExactLists(body) : Env[n] \in {Lst, Nothing}
    BY <1>4 DEF ListsKnown
  <2>2. body \in SUBSET Statements
    BY BodyTyped DEF Inv
  <2>3. \A s \in body : s.k \in Binders /\ s.to \in ExactLists(body) => Bindings(s, Env) \subseteq {Lst, Raise}
    BY <1>1, <1>4, <2>1, <2>2, ListBindings
  <2> QED BY <1>1, <1>3, <2>1, <2>3
<1>5. ASSUME FloatsKnown, ~UnseenByFloats(body)
      PROVE  \A n \in Doubles : Env'[n] \in {Real, Nothing}
  <2>1. \A n \in Doubles : Env[n] \in {Real, Nothing}
    BY <1>5 DEF FloatsKnown
  <2>2. \A s \in body : s.k \in Binders /\ s.to \in Doubles => Bindings(s, Env) \subseteq {Real, Raise}
    BY <1>5, <2>1, FloatBindings
  <2> QED BY <1>1, <1>3, <2>1, <2>2
<1>6. ListsKnown => ListsKnown'
  BY <1>2, <1>4 DEF ListsKnown
<1>7. FloatsKnown => FloatsKnown'
  BY <1>2, <1>5 DEF FloatsKnown
<1>8. QED
  BY <1>6, <1>7

(* Nothing is bound at first.                                              *)
LEMMA KnownAtFirst == Init => ListsKnown /\ FloatsKnown
<1> SUFFICES ASSUME Init PROVE ListsKnown /\ FloatsKnown
  OBVIOUS
<1>1. \A n \in Names : Env[n] = Nothing
  BY DEF Init, Env, Held
<1>2. Doubles \subseteq Names /\ ExactLists(body) \subseteq Names
  BY PickedNames DEF ExactLists
<1>3. QED
  BY <1>1, <1>2 DEF ListsKnown, FloatsKnown

(* The inductive invariant, with what the lists and the floats add to it.  *)
LEMMA Known == Spec => [](Inv /\ ListsKnown /\ FloatsKnown)
<1> DEFINE K == Inv /\ ListsKnown /\ FloatsKnown
<1>1. Init => K
  BY Begins, KnownAtFirst
<1>2. K /\ [Next]_vars => K'
  BY Steps, KnownSteps
<1>3. QED
  BY <1>1, <1>2, PTL DEF Spec

(* TypesAreKnown, of every function: a name that is taken for a float or   *)
(* for a list holds one, unless a binding of it was overlooked.            *)
THEOREM TypesAreKnownHolds == Spec => []TypesAreKnown
<1>1. Inv /\ ListsKnown /\ FloatsKnown => TypesAreKnown
  <2> SUFFICES ASSUME Inv, ListsKnown, FloatsKnown PROVE TypesAreKnown
    OBVIOUS
  <2>1. \A n \in Names : Env[n] = Held(n)
    BY EnvTyped DEF Inv
  <2>2. Doubles \subseteq Names /\ ExactLists(body) \subseteq Names
    BY PickedNames DEF ExactLists
  <2>3. ~UnseenByFloats(body) => \A n \in Doubles : Held(n).t \in {"float", "unbound"}
    BY <2>1, <2>2, Kinds DEF FloatsKnown
  <2>4. ~UnseenByLists(body) => \A n \in ExactLists(body) : Held(n).t \in {"list", "unbound"}
    BY <2>1, <2>2, Kinds DEF ListsKnown
  <2> QED BY <2>3, <2>4 DEF TypesAreKnown
<1>2. QED
  BY <1>1, Known, PTL

-----------------------------------------------------------------------------
(* The refinement, at first: no name is bound.                             *)
LEMMA PythonStarts == Init => Python!Init
<1> SUFFICES ASSUME Init PROVE Python!Init
  OBVIOUS
<1>1. Env = [n \in Names |-> Nothing]
  BY DEF Init, Env, Held
<1>2. QED
  BY <1>1 DEF Init, Python!Init, Python!Nothing, Nothing

(* Python's side and the C's speak of the same values.                     *)
LEMMA SameValues ==
  /\ Python!Raise = Raise
  /\ \A b : Python!InRange(b) <=> InRange(b)
  /\ \A s, e : Python!Bindings(s, e) = Bindings(s, e)
<1>1. Python!Raise = Raise /\ Python!Nothing = Nothing /\ Python!Anything = Anything /\ Python!Dividing = Dividing
      /\ \A k : Python!Whole(k) = Whole(k)
  BY DEF Python!Raise, Raise, Python!Nothing, Nothing, Python!Anything, Anything, Python!Whole, Whole,
         Python!Real, Real, Python!Lst, Lst, Python!Obj, Obj, Python!Dividing, Dividing
<1>2. \A b : Python!InRange(b) <=> InRange(b)
  BY DEF Python!InRange, InRange
<1>3. \A op, a, b : Python!Exact(op, a, b) = Exact(op, a, b)
  BY DEF Python!Exact, Exact, Python!PyFloorDiv, PyFloorDiv
<1>4. \A op, a, b : Python!Outcomes(op, a, b) = Outcomes(op, a, b)
  BY DEF Python!Outcomes, Outcomes, Python!Exact, Exact, Python!PyFloorDiv, PyFloorDiv, Python!Dividing, Dividing,
         Python!Raise, Raise, Python!Real, Real, Python!Lst, Lst, Python!Obj, Obj, Python!Whole, Whole, Python!Anything, Anything
<1>5. \A y, e : Python!Leaf(y, e) = Leaf(y, e)
  BY <1>1 DEF Python!Leaf, Leaf, Python!Real, Real, Python!Lst, Lst
<1>6. \A x, e : Python!Eval(x, e) = Eval(x, e)
  BY DEF Python!Eval, Eval, Python!Leaf, Leaf, Python!Nothing, Nothing,
         Python!Outcomes, Outcomes, Python!Exact, Exact, Python!PyFloorDiv, PyFloorDiv, Python!Dividing, Dividing,
         Python!Raise, Raise, Python!Real, Real, Python!Lst, Lst, Python!Obj, Obj, Python!Whole, Whole, Python!Anything, Anything
<1>7. \A s, e : Python!Bindings(s, e) = Bindings(s, e)
  BY <1>1, <1>3, <1>6 DEF Python!Bindings, Bindings, Python!Named, Named
<1>8. QED
  BY <1>1, <1>2, <1>7

(* The refinement of a step that binds.                                    *)
LEMMA BindsIsBind ==
  ASSUME NEW s \in Statements, s.k \in Binders, Binds(s)
  PROVE  Python!Bind(s)
<1>1. PICK b \in Bindings(s, Env) :
         \/ b = Raise /\ Went(s, "raised") /\ Env' = Env
         \/ b # Raise /\ InRange(b) /\ Went(s, "went") /\ Env' = [Env EXCEPT ![s.to] = b]
  BY DEF Binds
<1>2. QED
  BY <1>1, SameValues DEF Python!Bind, Python!Went, Went, Binders

(* The refinement of x.append(v): the name that is always a list is one.   *)
LEMMA AppendIsAppend ==
  ASSUME Inv, ListsKnown, ~UnseenByLists(body), NEW s \in body, AppendCall(s), Env' = Env
  PROVE  Python!Append(s)
<1>1. s \in Statements /\ s.to \in Names /\ s.k = "append"
  BY BodyTyped, StatementKinds DEF Inv, AppendCall
<1>2. Env[s.to] = Held(s.to) /\ Held(s.to) \in Values
  BY <1>1, EnvTyped DEF Inv
<1>3. CASE Held(s.to) = Nothing
  <2>1. Went(s, "raised") /\ Env[s.to].t # "list"
    BY <1>2, <1>3, Kinds DEF AppendCall, Fails
  <2> QED BY <1>1, <2>1 DEF Python!Append, Python!Went, Went
<1>4. CASE Held(s.to) # Nothing /\ s.to \in ExactLists(body)
  <2>1. Env[s.to].t = "list"
    BY <1>2, <1>4, Kinds DEF ListsKnown
  <2>2. Went(s, "went")
    BY <1>2, <1>4, <2>1 DEF AppendCall, Fails
  <2> QED BY <1>1, <2>1, <2>2 DEF Python!Append, Python!Went, Went
<1>5. CASE Held(s.to) # Nothing /\ s.to \notin ExactLists(body)
  BY <1>1, <1>2, <1>5 DEF AppendCall, Fails, Python!Append, Python!Went, Went
<1>6. QED
  BY <1>3, <1>4, <1>5

(* IsPython, of every function but those capi_exact.py is known to be      *)
(* wrong about: each step of the C that is written is one of Python's, or  *)
(* none; what a name is held in makes no difference to what is done.       *)
THEOREM IsPythonHolds ==
  ASSUME \A b \in Bodies : ~UnseenByLists(b)
  PROVE  Spec => IsPython
<1>1. Inv /\ ListsKnown /\ [Next]_vars => [Python!Next]_(Python!vars)
  <2> SUFFICES ASSUME Inv, ListsKnown, [Next]_vars PROVE [Python!Next]_(Python!vars)
    OBVIOUS
  <2>1. ~UnseenByLists(body) /\ body \subseteq Statements
    BY BodyTyped DEF Inv, Types
  <2>2. CASE body' = body /\ \E s \in body : s.k \in Binders /\ Binds(s)
    <3>1. PICK s \in body : s.k \in Binders /\ Binds(s)
      BY <2>2
    <3>2. Python!Bind(s)
      BY <2>1, <3>1, BindsIsBind
    <3> QED BY <2>2, <3>2 DEF Python!Next
  <2>3. CASE body' = body /\ Env' = Env /\ \E s \in body : AppendCall(s)
    <3>1. PICK s \in body : AppendCall(s)
      BY <2>3
    <3>2. Python!Append(s)
      BY <2>1, <2>3, <3>1, AppendIsAppend
    <3> QED BY <2>3, <3>2 DEF Python!Next
  <2>4. CASE UNCHANGED <<body, ran>> /\ Env' = Env
    BY <2>4 DEF Python!vars
  <2> QED BY <2>2, <2>3, <2>4, Steps
<1>2. QED
  BY <1>1, PythonStarts, Known, PTL DEF Spec, IsPython, Python!Spec

-----------------------------------------------------------------------------
(* The optimizer, over any programs.                                       *)
Sequence(s) == \E S : s \in Seq(S)

SettlesLabels ==
    phase = "settle" => /\ at \in 1 .. Len(source) + 1
                        /\ \A i \in 1 .. at - 1 :
                              source[i].op = "label" => source[i].name \in Pass!Labels(settled)

MergesLabels ==
    phase = "merge" => /\ at \in 1 .. Len(settled) + 1
                       /\ \A i \in 1 .. at - 1 :
                             settled[i].op = "label" => settled[i].name \in Pass!Labels(optimized)

LabelsKept == /\ Sequence(source) /\ Sequence(settled) /\ Sequence(optimized)
              /\ phase \in {"settle", "merge", "close", "done"}
              /\ SettlesLabels
              /\ phase # "settle" => Pass!Labels(source) \subseteq Pass!Labels(settled)
              /\ Pass!Targets(settled) \subseteq Pass!Targets(source)
              /\ phase = "settle" => ~terminated
              /\ terminated => ~Pass!HasControlFlow
              /\ MergesLabels
              /\ phase \in {"close", "done"} => Pass!Labels(settled) \subseteq Pass!Labels(optimized)
              /\ Pass!Targets(optimized) \subseteq Pass!Targets(settled)

-----------------------------------------------------------------------------
(* What is appended adds its own label or target, and nothing else.        *)
LEMMA AppendedNames ==
    ASSUME NEW s, NEW x, Sequence(s)
    PROVE  /\ Sequence(Append(s, x))
           /\ s \o <<x>> = Append(s, x)
           /\ Pass!Labels(s) \subseteq Pass!Labels(Append(s, x))
           /\ x.op = "label" => x.name \in Pass!Labels(Append(s, x))
           /\ Pass!Labels(Append(s, x)) \subseteq Pass!Labels(s) \cup {x.name}
           /\ Pass!Targets(s) \subseteq Pass!Targets(Append(s, x))
           /\ x.op \in Pass!Leaps => Pass!Targets(Append(s, x)) = Pass!Targets(s) \cup {x.target}
           /\ x.op \notin Pass!Leaps => Pass!Targets(Append(s, x)) = Pass!Targets(s)
<1> DEFINE t == Append(s, x)
<1>1. PICK S : s \in Seq(S)
  BY DEF Sequence
<1>2. /\ t \in Seq(S \cup {x})
      /\ s \o <<x>> = t
      /\ Len(s) \in Nat
      /\ DOMAIN s = 1 .. Len(s)
      /\ DOMAIN t = 1 .. Len(s) + 1
      /\ \A i \in DOMAIN s : i \in DOMAIN t /\ t[i] = s[i]
      /\ Len(s) + 1 \in DOMAIN t
      /\ t[Len(s) + 1] = x
      /\ \A i \in DOMAIN t : i \in DOMAIN s \/ i = Len(s) + 1
  BY <1>1
<1> HIDE DEF t
<1>3. Sequence(t)
  BY <1>2 DEF Sequence
<1>4. Pass!Labels(s) \subseteq Pass!Labels(t)
  BY <1>2 DEF Pass!Labels
<1>5. x.op = "label" => x.name \in Pass!Labels(t)
  BY <1>2 DEF Pass!Labels
<1>6. Pass!Labels(t) \subseteq Pass!Labels(s) \cup {x.name}
  BY <1>2 DEF Pass!Labels
<1>7. Pass!Targets(s) \subseteq Pass!Targets(t)
  BY <1>2 DEF Pass!Targets
<1>8. x.op \in Pass!Leaps => x.target \in Pass!Targets(t)
  BY <1>2 DEF Pass!Targets
<1>9. ASSUME NEW i \in DOMAIN t, t[i].op \in Pass!Leaps
      PROVE  t[i].target \in Pass!Targets(s) \/ (x.op \in Pass!Leaps /\ t[i].target = x.target)
  BY <1>2, <1>9 DEF Pass!Targets
<1>10. x.op \in Pass!Leaps => Pass!Targets(t) = Pass!Targets(s) \cup {x.target}
  BY <1>7, <1>8, <1>9 DEF Pass!Targets
<1>11. x.op \notin Pass!Leaps => Pass!Targets(t) = Pass!Targets(s)
  BY <1>7, <1>9 DEF Pass!Targets
<1> QED
  BY <1>2, <1>3, <1>4, <1>5, <1>6, <1>7, <1>10, <1>11 DEF t

(* Two writes that are joined were no label and no jump, and are none.     *)
LEMMA JoinedNames ==
    ASSUME NEW s, NEW x, Sequence(s), s # <<>>, Pass!Last(s).op = "write", x.op = "write"
    PROVE  LET t == [s EXCEPT ![Len(s)] = x]
           IN  /\ Sequence(t)
               /\ Pass!Labels(t) = Pass!Labels(s)
               /\ Pass!Targets(t) = Pass!Targets(s)
<1> DEFINE t == [s EXCEPT ![Len(s)] = x]
<1>1. PICK S : s \in Seq(S)
  BY DEF Sequence
<1>2. /\ Len(s) \in DOMAIN s
      /\ DOMAIN t = DOMAIN s
      /\ t[Len(s)] = x
      /\ \A i \in DOMAIN s : i # Len(s) => t[i] = s[i]
      /\ t \in Seq(S \cup {x})
  BY <1>1
<1> HIDE DEF t
<1>3. s[Len(s)].op \notin Pass!Leaps \cup {"label"} /\ x.op \notin Pass!Leaps \cup {"label"}
  BY DEF Pass!Last, Pass!Leaps
<1>4. \A i \in DOMAIN s : t[i].op \in Pass!Leaps \cup {"label"} \/ s[i].op \in Pass!Leaps \cup {"label"} => t[i] = s[i]
  BY <1>2, <1>3
<1>5. Sequence(t)
  BY <1>2 DEF Sequence
<1>6. Pass!Labels(t) = Pass!Labels(s)
  BY <1>2, <1>4 DEF Pass!Labels
<1>7. Pass!Targets(t) = Pass!Targets(s)
  BY <1>2, <1>4 DEF Pass!Targets
<1> QED
  BY <1>5, <1>6, <1>7 DEF t

-----------------------------------------------------------------------------
LEMMA PassesBegin ==
    ASSUME Programs \subseteq Seq(Operations)
    PROVE  Pass!Init => LabelsKept
<1> SUFFICES ASSUME Pass!Init PROVE LabelsKept
  OBVIOUS
<1>1. source \in Seq(Operations)
  BY DEF Pass!Init
<1>2. Sequence(source)
  BY <1>1 DEF Sequence
<1>3. Sequence(<<>>)
  <2>1. <<>> \in Seq({})
    OBVIOUS
  <2> QED
    BY <2>1 DEF Sequence
<1>4. Pass!Targets(<<>>) = {}
  BY DEF Pass!Targets
<1> QED
  BY <1>1, <1>2, <1>3, <1>4 DEF Pass!Init, LabelsKept, SettlesLabels, MergesLabels

(* A turn of _settle_branches that keeps nothing, of what is no label.     *)
LEMMA DropsOne ==
    ASSUME LabelsKept, Pass!Looking, Pass!It.op # "label", NEW d, Pass!Settles(<<>>, d)
    PROVE  LabelsKept'
<1>1. settled' = settled
  BY DEF Pass!Settles, LabelsKept, Sequence
<1>2. at \in 1 .. Len(source) /\ Len(source) \in Nat
  BY DEF LabelsKept, Sequence, SettlesLabels, Pass!Looking
<1>3. /\ at' = at + 1
      /\ UNCHANGED <<source, phase, optimized, terminated>>
      /\ phase = "settle"
  BY DEF Pass!Settles, Pass!Looking
<1>4. SettlesLabels'
  BY <1>1, <1>2, <1>3 DEF SettlesLabels, LabelsKept, Pass!Looking, Pass!It
<1> QED
  BY <1>1, <1>3, <1>4 DEF LabelsKept, MergesLabels, Pass!HasControlFlow

(* A turn that keeps an operation with the same label, or none.            *)
LEMMA KeepsOne ==
    ASSUME LabelsKept, Pass!Looking, NEW x, NEW d, Pass!Settles(<<x>>, d),
           Pass!It.op = "label" => x = Pass!It,
           x.op \in Pass!Leaps => x.target \in Pass!Targets(source)
    PROVE  LabelsKept'
<1>1. settled' = Append(settled, x)
  BY AppendedNames DEF Pass!Settles, LabelsKept
<1>2. at \in 1 .. Len(source) /\ Len(source) \in Nat
  BY DEF LabelsKept, Sequence, SettlesLabels, Pass!Looking
<1>3. /\ at' = at + 1
      /\ UNCHANGED <<source, phase, optimized, terminated>>
      /\ phase = "settle"
  BY DEF Pass!Settles, Pass!Looking
<1>4. /\ Sequence(settled')
      /\ Pass!Labels(settled) \subseteq Pass!Labels(settled')
      /\ x.op = "label" => x.name \in Pass!Labels(settled')
      /\ Pass!Targets(settled) \subseteq Pass!Targets(settled')
      /\ Pass!Targets(settled') \subseteq Pass!Targets(source)
  BY <1>1, AppendedNames DEF LabelsKept
<1>5. SettlesLabels'
  BY <1>2, <1>3, <1>4 DEF SettlesLabels, LabelsKept, Pass!Looking, Pass!It
<1> QED
  BY <1>3, <1>4, <1>5 DEF LabelsKept, MergesLabels

(* A turn of optimize's loop, whatever it makes of the operation, if the   *)
(* labels are kept and no target is added.                                 *)
LEMMA TurnsOnce ==
    ASSUME LabelsKept, Pass!Merging, NEW kept, NEW ends, Pass!Keeps(kept, ends),
           Sequence(kept),
           Pass!Labels(optimized) \subseteq Pass!Labels(kept),
           Pass!This.op = "label" => Pass!This.name \in Pass!Labels(kept),
           Pass!Targets(kept) \subseteq Pass!Targets(settled),
           ends => ~Pass!HasControlFlow
    PROVE  LabelsKept'
<1>1. /\ optimized' = kept
      /\ terminated' = ends
      /\ at' = at + 1
      /\ UNCHANGED <<source, phase, settled, unreachable>>
      /\ phase = "merge"
  BY DEF Pass!Keeps, Pass!Merging
<1>2. at \in 1 .. Len(settled) /\ Len(settled) \in Nat
  BY DEF LabelsKept, Sequence, MergesLabels, Pass!Merging
<1>3. MergesLabels'
  BY <1>1, <1>2 DEF MergesLabels, LabelsKept, Pass!Merging, Pass!This
<1> QED
  BY <1>1, <1>3 DEF LabelsKept, SettlesLabels, Pass!HasControlFlow

LEMMA TargetOfIt ==
    ASSUME LabelsKept, Pass!Looking, Pass!It.op \in Pass!Leaps
    PROVE  Pass!It.target \in Pass!Targets(source)
<1>1. at \in DOMAIN source
  BY DEF LabelsKept, Sequence, SettlesLabels, Pass!Looking
<1> QED
  BY <1>1 DEF Pass!Targets, Pass!It

LEMMA TargetOfThis ==
    ASSUME LabelsKept, Pass!Merging, Pass!This.op \in Pass!Leaps
    PROVE  Pass!This.target \in Pass!Targets(settled)
<1>1. at \in DOMAIN settled
  BY DEF LabelsKept, Sequence, MergesLabels, Pass!Merging
<1> QED
  BY <1>1 DEF Pass!Targets, Pass!This

LEMMA PassesStep == LabelsKept /\ [Pass!Next]_(Pass!vars) => LabelsKept'
<1> SUFFICES ASSUME LabelsKept, [Pass!Next]_(Pass!vars) PROVE LabelsKept'
  OBVIOUS
<1>1. CASE Pass!SettleDead
  BY <1>1, DropsOne DEF Pass!SettleDead, Pass!Dead
<1>2. CASE Pass!SettleBranch
  <2> USE <1>2 DEF Pass!SettleBranch
  <2>1. Pass!It.op # "label" /\ Pass!It.op \in Pass!Leaps
    BY DEF Pass!Leaps
  <2>2. CASE Pass!It.cond = "zero" /\ Pass!Settles(<<Pass!Jump(Pass!It.target)>>, TRUE)
    <3>1. Pass!Jump(Pass!It.target).target \in Pass!Targets(source)
      BY <2>1, TargetOfIt DEF Pass!Jump
    <3> QED
      BY <2>1, <2>2, <3>1, KeepsOne
  <2>3. CASE Pass!It.cond = "other" /\ Pass!Settles(<<>>, FALSE)
    BY <2>1, <2>3, DropsOne
  <2>4. CASE Pass!It.cond = "unknown" /\ Pass!Settles(<<Pass!It>>, FALSE)
    BY <2>1, <2>4, TargetOfIt, KeepsOne
  <2> QED
    BY <2>2, <2>3, <2>4
<1>3. CASE Pass!SettleOther
  <2>1. Pass!It.op \in Pass!Leaps => Pass!It.target \in Pass!Targets(source)
    BY <1>3, TargetOfIt DEF Pass!SettleOther
  <2> QED
    BY <1>3, <2>1, KeepsOne DEF Pass!SettleOther
<1>4. CASE Pass!EndSettling
  <2>1. /\ phase' = "merge" /\ at' = 1
        /\ UNCHANGED <<source, settled, optimized, terminated>>
        /\ phase = "settle" /\ at > Len(source)
    BY <1>4 DEF Pass!EndSettling
  <2>2. Pass!Labels(source) \subseteq Pass!Labels(settled)
    <3>1. \A i \in DOMAIN source : i \in 1 .. at - 1
      BY <2>1 DEF LabelsKept, Sequence, SettlesLabels
    <3> QED
      BY <2>1, <3>1 DEF LabelsKept, SettlesLabels, Pass!Labels
  <2>3. MergesLabels'
    BY <2>1 DEF MergesLabels, LabelsKept, Sequence
  <2> QED
    BY <2>1, <2>2, <2>3 DEF LabelsKept, SettlesLabels, Pass!HasControlFlow
<1>5. CASE Pass!DropTheRest
  <2>1. terminated /\ ~Pass!HasControlFlow /\ Pass!Merging /\ Pass!Keeps(optimized, TRUE)
    BY <1>5 DEF Pass!DropTheRest, LabelsKept
  <2>2. at \in DOMAIN settled
    BY <2>1 DEF LabelsKept, Sequence, MergesLabels, Pass!Merging
  <2>3. Pass!This.op # "label"
    BY <2>1, <2>2 DEF Pass!HasControlFlow, Pass!This
  <2> QED
    BY <2>1, <2>3, TurnsOnce DEF LabelsKept
<1>6. CASE Pass!DropEmptyWrite
  BY <1>6, TurnsOnce DEF Pass!DropEmptyWrite, LabelsKept
<1>7. CASE Pass!MergeWrite
  <2> DEFINE x == Pass!Write(Pass!This.fd, Pass!Last(optimized).data \o Pass!This.data)
             t == [optimized EXCEPT ![Len(optimized)] = x]
  <2>1. Pass!Merging /\ Pass!This.op = "write" /\ Pass!Joins
    BY <1>7 DEF Pass!MergeWrite
  <2>2. Len(optimized) \in DOMAIN optimized
    BY <2>1 DEF Pass!Joins, LabelsKept, Sequence
  <2>3. Pass!Keeps(t, FALSE)
    BY <1>7, <2>2 DEF Pass!MergeWrite, Pass!Last
  <2>4. x.op = "write"
    BY DEF Pass!Write
  <2>5. Sequence(t) /\ Pass!Labels(t) = Pass!Labels(optimized) /\ Pass!Targets(t) = Pass!Targets(optimized)
    <3> HIDE DEF x
    <3> QED
      BY <2>1, <2>4, JoinedNames DEF Pass!Joins, LabelsKept
  <2> HIDE DEF t
  <2> QED
    BY <2>1, <2>3, <2>5, TurnsOnce DEF LabelsKept
<1>8. CASE Pass!Keep
  <2>1. Pass!Merging /\ Pass!Keeps(Append(optimized, Pass!This), Pass!This.op = "exit" /\ ~Pass!HasControlFlow)
    BY <1>8 DEF Pass!Keep
  <2>2. /\ Sequence(Append(optimized, Pass!This))
        /\ Pass!Labels(optimized) \subseteq Pass!Labels(Append(optimized, Pass!This))
        /\ Pass!This.op = "label" => Pass!This.name \in Pass!Labels(Append(optimized, Pass!This))
    BY AppendedNames DEF LabelsKept
  <2>3. Pass!Targets(Append(optimized, Pass!This)) \subseteq Pass!Targets(settled)
    BY <2>1, AppendedNames, TargetOfThis DEF LabelsKept
  <2> QED
    BY <2>1, <2>2, <2>3, TurnsOnce
<1>9. CASE Pass!EndMerging
  <2>1. /\ phase' = "close"
        /\ UNCHANGED <<source, at, settled, optimized, terminated>>
        /\ phase = "merge" /\ at > Len(settled)
    BY <1>9 DEF Pass!EndMerging
  <2>2. Pass!Labels(settled) \subseteq Pass!Labels(optimized)
    <3>1. \A i \in DOMAIN settled : i \in 1 .. at - 1
      BY <2>1 DEF LabelsKept, Sequence, MergesLabels
    <3> QED
      BY <2>1, <3>1 DEF LabelsKept, MergesLabels, Pass!Labels
  <2> QED
    BY <2>1, <2>2 DEF LabelsKept, SettlesLabels, MergesLabels, Pass!HasControlFlow
<1>10. CASE Pass!Close
  <2>1. /\ phase = "close" /\ phase' = "done"
        /\ UNCHANGED <<source, at, settled, terminated>>
    BY <1>10 DEF Pass!Close
  <2>2. Pass!Exit.op \notin Pass!Leaps
    BY DEF Pass!Exit, Pass!Leaps
  <2>3. /\ Sequence(optimized')
        /\ Pass!Labels(optimized) \subseteq Pass!Labels(optimized')
        /\ Pass!Targets(optimized') = Pass!Targets(optimized)
    BY <1>10, <2>2, AppendedNames DEF Pass!Close, LabelsKept
  <2> QED
    BY <2>1, <2>3 DEF LabelsKept, SettlesLabels, MergesLabels, Pass!HasControlFlow
<1>11. CASE UNCHANGED Pass!vars
  BY <1>11 DEF Pass!vars, LabelsKept, SettlesLabels, MergesLabels, Pass!HasControlFlow
<1> QED
  BY <1>1, <1>2, <1>3, <1>4, <1>5, <1>6, <1>7, <1>8, <1>9, <1>10, <1>11 DEF Pass!Next

(* Of every program whose jumps have labels, both passes leave one whose   *)
(* jumps have labels: no operation that is dropped was one that a jump     *)
(* that is kept goes to (_settle_branches, optimize).                      *)
THEOREM JumpsKeepTheirLabels ==
    ASSUME Programs \subseteq Seq(Operations)
    PROVE  Pass!Spec => []Pass!TargetsStand
<1>1. LabelsKept => Pass!TargetsStand
  BY DEF LabelsKept, Pass!TargetsStand, Pass!WellFormed
<1> QED
  BY <1>1, PassesBegin, PassesStep, PTL DEF Pass!Spec

-----------------------------------------------------------------------------
(* That it does the same, optimized.                                       *)

(* A sequence at the end of another.                                       *)
LEMMA Joined ==
  ASSUME NEW a, NEW b, Sequence(a), Sequence(b)
  PROVE  /\ Sequence(a \o b)
         /\ Len(a) \in Nat /\ Len(b) \in Nat /\ Len(a \o b) = Len(a) + Len(b)
         /\ DOMAIN a = 1 .. Len(a) /\ DOMAIN (a \o b) = 1 .. Len(a) + Len(b)
         /\ \A i \in DOMAIN a : (a \o b)[i] = a[i]
         /\ a \o <<>> = a /\ <<>> \o a = a
<1>1. PICK S : a \in Seq(S)
  BY DEF Sequence
<1>2. PICK T : b \in Seq(T)
  BY DEF Sequence
<1>3. a \in Seq(S \cup T) /\ b \in Seq(S \cup T)
  BY <1>1, <1>2
<1>4. a \o b \in Seq(S \cup T)
  BY <1>3
<1>5. QED
  BY <1>3, <1>4 DEF Sequence

(* Joining is associative.                                                 *)
LEMMA JoinedTwice ==
  ASSUME NEW a, NEW b, NEW c, Sequence(a), Sequence(b), Sequence(c)
  PROVE  (a \o b) \o c = a \o (b \o c)
<1>1. PICK S : a \in Seq(S)
  BY DEF Sequence
<1>2. PICK T : b \in Seq(T)
  BY DEF Sequence
<1>3. PICK U : c \in Seq(U)
  BY DEF Sequence
<1>4. a \in Seq(S \cup T \cup U) /\ b \in Seq(S \cup T \cup U) /\ c \in Seq(S \cup T \cup U)
  BY <1>1, <1>2, <1>3
<1>5. QED
  BY <1>4

(* The empty sequence is one.                                              *)
LEMMA NothingIsASequence == Sequence(<<>>)
<1>1. <<>> \in Seq({})
  OBVIOUS
<1>2. QED
  BY <1>1 DEF Sequence

(* One sequence begins another.                                            *)
Opens(a, b) == Sequence(a) /\ \E c : Sequence(c) /\ b = a \o c

(* A sequence begins itself.                                               *)
LEMMA BeginsItself == ASSUME NEW a, Sequence(a) PROVE Opens(a, a)
  BY Joined, NothingIsASequence DEF Opens

(* What begins a beginning begins the whole.                               *)
LEMMA BeginsOn ==
  ASSUME NEW a, NEW b, NEW c, Opens(a, b), Opens(b, c)
  PROVE  Opens(a, c)
<1>1. PICK x : Sequence(x) /\ b = a \o x
  BY DEF Opens
<1>2. PICK y : Sequence(y) /\ c = b \o y
  BY DEF Opens
<1>3. Sequence(a)
  BY DEF Opens
<1>4. (a \o x) \o y = a \o (x \o y)
  BY <1>1, <1>2, <1>3, JoinedTwice
<1>5. Sequence(x \o y)
  BY <1>1, <1>2, Joined
<1>6. QED
  BY <1>1, <1>2, <1>3, <1>4, <1>5 DEF Opens

(* Two beginnings of one sequence agree as far as both go.                 *)
LEMMA BothBegin ==
  ASSUME NEW a, NEW b, NEW c, Opens(a, c), Opens(b, c)
  PROVE  Agree(a, b)
<1>1. PICK x : Sequence(x) /\ c = a \o x
  BY DEF Opens
<1>2. PICK y : Sequence(y) /\ c = b \o y
  BY DEF Opens
<1>3. \A i \in DOMAIN a : c[i] = a[i]
  BY <1>1, Joined DEF Opens
<1>4. \A i \in DOMAIN b : c[i] = b[i]
  BY <1>2, Joined DEF Opens
<1>5. QED
  BY <1>3, <1>4 DEF Agree

-----------------------------------------------------------------------------
(* A program run by itself, its conditions coming to what d says: where it *)
(* is, what it has done and how many conditions it has come to.            *)
Falls(p, to) == IF to \in DOMAIN p THEN to ELSE 0
Finds(p, l)  == Falls(p, CHOOSE i \in DOMAIN p : p[i] = Pass!Label(l))

Shown(o)  == IF o.op = "effect" THEN <<"effect">>
             ELSE IF o.op = "write" THEN [i \in DOMAIN o.data |-> <<o.fd, o.data[i]>>] ELSE <<>>
Asking(o) == o.op = "branch" /\ o.cond = "unknown"
Taken(o, zero) == o.op = "jump" \/ (o.op = "branch" /\ (o.cond = "zero" \/ (o.cond = "unknown" /\ zero)))

Place(p, o, i, zero) ==
  IF o.op = "exit" THEN 0 ELSE IF Taken(o, zero) THEN Finds(p, o.target) ELSE Falls(p, i + 1)

Turn(p, d, s) ==
  IF s.pc = 0 THEN s
  ELSE [pc    |-> Place(p, p[s.pc], s.pc, d[s.asked + 1]),
        did   |-> s.did \o Shown(p[s.pc]),
        asked |-> IF Asking(p[s.pc]) THEN s.asked + 1 ELSE s.asked]

Start(p) == [pc |-> IF p # <<>> THEN 1 ELSE 0, did |-> <<>>, asked |-> 0]

IsCourse(c, p, d) == c = [n \in Nat |-> IF n = 0 THEN Start(p) ELSE Turn(p, d, c[n - 1])]
Course(p, d) == CHOOSE c : IsCourse(c, p, d)

(* Such a course there is.                                                 *)
LEMMA CourseIs ==
  ASSUME NEW p, NEW d
  PROVE  /\ Course(p, d)[0] = Start(p)
         /\ \A n \in Nat : Course(p, d)[n + 1] = Turn(p, d, Course(p, d)[n])
<1> DEFINE Upto(f, m) == f = [n \in 0 .. m |-> IF n = 0 THEN Start(p) ELSE Turn(p, d, f[n - 1])]
           Reached == {m \in Nat : \E f : Upto(f, m)}
<1>1. 0 \in Reached
  <2> DEFINE f == [n \in 0 .. 0 |-> Start(p)]
  <2>1. Upto(f, 0)
    OBVIOUS
  <2> QED BY <2>1
<1>2. ASSUME NEW m \in Nat, m \in Reached PROVE m + 1 \in Reached
  <2>1. PICK f : Upto(f, m)
    BY <1>2
  <2> DEFINE g == [n \in 0 .. m + 1 |-> IF n = m + 1 THEN Turn(p, d, f[m]) ELSE f[n]]
             r == [n \in 0 .. m + 1 |-> IF n = 0 THEN Start(p) ELSE Turn(p, d, g[n - 1])]
  <2>2. ASSUME NEW n \in 0 .. m + 1
        PROVE  g[n] = IF n = 0 THEN Start(p) ELSE Turn(p, d, g[n - 1])
    <3>1. CASE n = m + 1
      <4>1. n # 0 /\ n - 1 = m /\ g[m] = f[m] /\ g[n] = Turn(p, d, f[m])
        BY <3>1
      <4> QED BY <4>1
    <3>2. CASE n # m + 1
      <4>1. n \in 0 .. m /\ g[n] = f[n] /\ (n # 0 => g[n - 1] = f[n - 1])
        BY <3>2
      <4>2. f[n] = IF n = 0 THEN Start(p) ELSE Turn(p, d, f[n - 1])
        BY <2>1, <4>1
      <4> QED BY <4>1, <4>2
    <3> QED BY <3>1, <3>2
  <2>3. \A n \in 0 .. m + 1 : g[n] = r[n]
    BY <2>2
  <2>4. g = r
    <3> HIDE DEF r
    <3>1. DOMAIN r = 0 .. m + 1 /\ r = [n \in 0 .. m + 1 |-> r[n]]
      BY DEF r
    <3>2. g = [n \in 0 .. m + 1 |-> g[n]]
      OBVIOUS
    <3> HIDE DEF g
    <3> QED BY <2>3, <3>1, <3>2
  <2>5. Upto(g, m + 1)
    BY <2>4
  <2>6. \E e : Upto(e, m + 1)
    <3> HIDE DEF g, r, Upto
    <3> QED BY <2>5
  <2> QED BY <2>6
<1>3. \A m \in Nat : \E f : Upto(f, m)
  <2> HIDE DEF Upto
  <2>1. Nat \subseteq Reached
    BY <1>1, <1>2, SetInduction
  <2> QED BY <2>1
<1> DEFINE F(m) == CHOOSE f : Upto(f, m)
<1>4. \A m \in Nat : Upto(F(m), m)
  <2> HIDE DEF Upto
  <2> QED BY <1>3
<1>5. \A m \in Nat : F(m)[0] = Start(p) /\ \A n \in 1 .. m : F(m)[n] = Turn(p, d, F(m)[n - 1])
  <2> TAKE m \in Nat
  <2>1. Upto(F(m), m)
    BY <1>4
  <2> HIDE DEF F
  <2>2. 0 \in 0 .. m /\ \A n \in 1 .. m : n \in 0 .. m /\ n # 0
    OBVIOUS
  <2> QED BY <2>1, <2>2
<1> HIDE DEF F
<1>6. \A m \in Nat, k \in Nat : m <= k => F(m)[m] = F(k)[m]
  <2> DEFINE Same == {n \in Nat : \A m, k \in Nat : n <= m /\ n <= k => F(m)[n] = F(k)[n]}
  <2>1. 0 \in Same
    BY <1>5
  <2>2. ASSUME NEW n \in Nat, n \in Same PROVE n + 1 \in Same
    <3> SUFFICES ASSUME NEW m \in Nat, NEW k \in Nat, n + 1 <= m, n + 1 <= k PROVE F(m)[n + 1] = F(k)[n + 1]
      OBVIOUS
    <3>1. F(m)[n] = F(k)[n]
      BY <2>2
    <3>2. n + 1 \in 1 .. m /\ n + 1 \in 1 .. k /\ (n + 1) - 1 = n
      OBVIOUS
    <3>3. F(m)[n + 1] = Turn(p, d, F(m)[n]) /\ F(k)[n + 1] = Turn(p, d, F(k)[n])
      <4>1. F(m)[n + 1] = Turn(p, d, F(m)[(n + 1) - 1]) /\ F(k)[n + 1] = Turn(p, d, F(k)[(n + 1) - 1])
        BY <1>5, <3>2
      <4> QED BY <3>2, <4>1
    <3> QED BY <3>1, <3>3
  <2>3. Nat \subseteq Same
    <3> HIDE DEF Same
    <3> QED BY <2>1, <2>2, SetInduction
  <2>4. QED
    BY <2>3
<1> DEFINE c == [n \in Nat |-> F(n)[n]]
           r == [n \in Nat |-> IF n = 0 THEN Start(p) ELSE Turn(p, d, c[n - 1])]
<1>7. ASSUME NEW n \in Nat PROVE c[n] = r[n]
  <2>1. CASE n = 0
    BY <1>5, <2>1
  <2>2. CASE n # 0
    <3>1. n \in 1 .. n /\ n - 1 \in Nat /\ n - 1 <= n
      BY <2>2
    <3>2. F(n)[n] = Turn(p, d, F(n)[n - 1])
      BY <1>5, <3>1
    <3>3. F(n - 1)[n - 1] = F(n)[n - 1]
      BY <1>6, <3>1
    <3>4. c[n - 1] = F(n - 1)[n - 1] /\ c[n] = F(n)[n]
      BY <3>1
    <3>5. r[n] = Turn(p, d, c[n - 1])
      BY <2>2
    <3> HIDE DEF c, r
    <3> QED BY <3>2, <3>3, <3>4, <3>5
  <2> QED BY <2>1, <2>2
<1>8. c = r
  <2>1. c = [n \in Nat |-> c[n]] /\ r = [n \in Nat |-> r[n]]
    OBVIOUS
  <2> HIDE DEF c, r
  <2> QED BY <1>7, <2>1
<1>9. IsCourse(c, p, d)
  BY <1>8 DEF IsCourse
<1>10. IsCourse(Course(p, d), p, d)
  <2> HIDE DEF c, r
  <2> QED BY <1>9 DEF Course
<1> DEFINE e == Course(p, d)
<1>11. e = [n \in Nat |-> IF n = 0 THEN Start(p) ELSE Turn(p, d, e[n - 1])]
  BY <1>10 DEF IsCourse
<1> HIDE DEF e, c, r
<1>12. e[0] = Start(p)
  BY <1>11
<1>13. ASSUME NEW n \in Nat PROVE e[n + 1] = Turn(p, d, e[n])
  <2>1. n + 1 \in Nat /\ n + 1 # 0 /\ (n + 1) - 1 = n
    OBVIOUS
  <2>2. e[n + 1] = Turn(p, d, e[(n + 1) - 1])
    BY <1>11, <2>1
  <2> QED BY <2>1, <2>2
<1>14. QED
  BY <1>12, <1>13 DEF e

-----------------------------------------------------------------------------
(* What a program shows is a sequence, if what it writes is.               *)
Tidy(p) == Sequence(p) /\ \A i \in DOMAIN p : p[i].op = "write" => Sequence(p[i].data)

(* What an operation shows is a sequence.                                  *)
LEMMA ShownIs ==
  ASSUME NEW o, o.op = "write" => Sequence(o.data)
  PROVE  Sequence(Shown(o)) /\ (o.op \notin {"effect", "write"} => Shown(o) = <<>>)
<1>1. CASE o.op = "write"
  <2>1. PICK S : o.data \in Seq(S)
    BY <1>1 DEF Sequence
  <2> DEFINE f == [i \in 1 .. Len(o.data) |-> <<o.fd, o.data[i]>>]
             T == {<<o.fd, o.data[i]>> : i \in 1 .. Len(o.data)}
  <2>2. DOMAIN o.data = 1 .. Len(o.data) /\ Len(o.data) \in Nat
    BY <2>1
  <2>3. f \in [1 .. Len(o.data) -> T]
    OBVIOUS
  <2>4. f \in Seq(T)
    <3> HIDE DEF f, T
    <3> QED BY <2>2, <2>3
  <2>5. Shown(o) = f
    BY <1>1, <2>2 DEF Shown
  <2> HIDE DEF f
  <2> QED BY <1>1, <2>4, <2>5 DEF Sequence
<1>2. CASE o.op = "effect"
  <2>1. <<"effect">> \in Seq({"effect"}) /\ Shown(o) = <<"effect">>
    BY <1>2 DEF Shown
  <2> QED BY <1>2, <2>1 DEF Sequence
<1>3. CASE o.op \notin {"effect", "write"}
  <2>1. Shown(o) = <<>>
    BY <1>3 DEF Shown
  <2> QED BY <2>1, NothingIsASequence
<1>4. QED
  BY <1>1, <1>2, <1>3

(* A state of a program that runs.                                         *)
Standing(p, s) ==
  /\ s.pc = 0 \/ s.pc \in DOMAIN p
  /\ Sequence(s.did) /\ s.asked \in Nat

(* An operation leads from a state of the program to another, takes back   *)
(* nothing that was done, and leaves a program that has ended where it is. *)
LEMMA TurnStands ==
  ASSUME NEW p, Tidy(p), NEW d, NEW s, Standing(p, s)
  PROVE  /\ Standing(p, Turn(p, d, s))
         /\ Opens(s.did, Turn(p, d, s).did)
         /\ s.pc = 0 => Turn(p, d, s) = s
<1> DEFINE t == Turn(p, d, s)
<1>1. CASE s.pc = 0
  BY <1>1, BeginsItself DEF Turn, Standing
<1>2. CASE s.pc # 0
  <2>1. /\ t.pc = Place(p, p[s.pc], s.pc, d[s.asked + 1])
        /\ t.did = s.did \o Shown(p[s.pc])
        /\ t.asked = IF Asking(p[s.pc]) THEN s.asked + 1 ELSE s.asked
    BY <1>2 DEF Turn
  <2>2. Sequence(Shown(p[s.pc]))
    BY <1>2, ShownIs DEF Standing, Tidy
  <2>3. t.pc = 0 \/ t.pc \in DOMAIN p
    BY <2>1 DEF Place, Falls, Finds
  <2> HIDE DEF t
  <2>4. Sequence(t.did) /\ Opens(s.did, t.did)
    BY <2>1, <2>2, Joined DEF Standing, Opens
  <2>5. t.asked \in Nat
    BY <2>1 DEF Standing
  <2>6. Standing(p, t) /\ Opens(s.did, t.did)
    BY <2>3, <2>4, <2>5 DEF Standing
  <2> QED BY <1>2, <2>6 DEF t
<1>3. QED
  BY <1>1, <1>2

(* A program starts in a state of it.                                      *)
LEMMA StartStands ==
  ASSUME NEW p, Tidy(p)
  PROVE  Standing(p, Start(p))
<1>1. p # <<>> => 1 \in DOMAIN p
  <2>1. PICK S : p \in Seq(S)
    BY DEF Tidy, Sequence
  <2> QED BY <2>1
<1>2. QED
  BY <1>1, NothingIsASequence DEF Standing, Start

(* It is in one wherever it has come to.                                   *)
LEMMA CourseStands ==
  ASSUME NEW p, Tidy(p), NEW d
  PROVE  \A n \in Nat : Standing(p, Course(p, d)[n])
<1> DEFINE E == {n \in Nat : Standing(p, Course(p, d)[n])}
<1>1. 0 \in E
  BY CourseIs, StartStands
<1>2. ASSUME NEW n \in Nat, n \in E PROVE n + 1 \in E
  BY <1>2, CourseIs, TurnStands
<1>3. Nat \subseteq E
  <2> HIDE DEF E
  <2> QED BY <1>1, <1>2, SetInduction
<1>4. QED
  BY <1>3

(* It takes nothing back, and where it has ended it stays.                 *)
LEMMA CourseGrows ==
  ASSUME NEW p, Tidy(p), NEW d, NEW a \in Nat, NEW b \in Nat, a <= b
  PROVE  /\ Opens(Course(p, d)[a].did, Course(p, d)[b].did)
         /\ Course(p, d)[a].pc = 0 => Course(p, d)[b] = Course(p, d)[a]
<1> DEFINE c == Course(p, d)
           E == {k \in Nat : /\ Opens(c[a].did, c[a + k].did)
                             /\ c[a].pc = 0 => c[a + k] = c[a]}
<1>1. 0 \in E
  <2>1. Sequence(c[a].did)
    BY CourseStands DEF Standing
  <2> HIDE DEF c
  <2>2. a + 0 = a
    OBVIOUS
  <2> QED BY <2>1, <2>2, BeginsItself
<1>2. ASSUME NEW k \in Nat, k \in E PROVE k + 1 \in E
  <2>1. a + (k + 1) = (a + k) + 1 /\ a + k \in Nat
    OBVIOUS
  <2>2. c[(a + k) + 1] = Turn(p, d, c[a + k])
    BY <2>1, CourseIs
  <2>3. Standing(p, c[a + k])
    BY <2>1, CourseStands
  <2> HIDE DEF c
  <2>4. Opens(c[a + k].did, c[(a + k) + 1].did) /\ (c[a + k].pc = 0 => c[(a + k) + 1] = c[a + k])
    BY <2>2, <2>3, TurnStands
  <2>5. Opens(c[a].did, c[(a + k) + 1].did)
    BY <1>2, <2>4, BeginsOn
  <2> QED BY <1>2, <2>1, <2>4, <2>5
<1>3. Nat \subseteq E
  <2> HIDE DEF E
  <2> QED BY <1>1, <1>2, SetInduction
<1>4. b - a \in Nat /\ a + (b - a) = b
  OBVIOUS
<1>5. b - a \in E
  BY <1>3, <1>4
<1>6. QED
  <2> HIDE DEF c
  <2>1. Opens(c[a].did, c[a + (b - a)].did) /\ (c[a].pc = 0 => c[a + (b - a)] = c[a])
    BY <1>5
  <2> QED BY <1>4, <2>1 DEF c

(* The label of a jump is where the jump goes.                             *)
OnlyAt(p, i, x) == i \in DOMAIN p /\ p[i] = x /\ \A j \in DOMAIN p : p[j] = x => j = i

(* A jump to a label that is there once goes there.                        *)
LEMMA FindsIt ==
  ASSUME NEW p, NEW i, NEW l, OnlyAt(p, i, Pass!Label(l))
  PROVE  Finds(p, l) = i
<1>1. (CHOOSE j \in DOMAIN p : p[j] = Pass!Label(l)) = i
  BY DEF OnlyAt
<1>2. QED
  BY <1>1 DEF Finds, Falls, OnlyAt

Landing(p) == \A i \in DOMAIN p : p[i].op \in Pass!Leaps => \E j \in DOMAIN p : OnlyAt(p, j, Pass!Label(p[i].target))

(* _settle_branches, seen from the end: h says where in what it kept an    *)
(* operation went, or what follows it if it was dropped, and dead before   *)
(* which operations nothing led on.                                        *)
Dies(p, dead, i) == i \in dead /\ p[i].op # "label"
Drops(h, i) == h[i + 1] = h[i]
Puts(q, h, i, x) == h[i] \in DOMAIN q /\ q[h[i]] = x /\ h[i + 1] = h[i] + 1

SettledAt(p, q, h, dead, i) ==
  \/ Dies(p, dead, i) /\ Drops(h, i) /\ i + 1 \in dead
  \/ /\ ~Dies(p, dead, i) /\ p[i].op = "branch" /\ p[i].cond = "other"
     /\ Drops(h, i) /\ i + 1 \notin dead
  \/ /\ ~Dies(p, dead, i) /\ p[i].op = "branch" /\ p[i].cond = "zero"
     /\ Puts(q, h, i, Pass!Jump(p[i].target)) /\ i + 1 \in dead
  \/ /\ ~Dies(p, dead, i) /\ p[i].op = "branch" => p[i].cond = "unknown"
     /\ Puts(q, h, i, p[i]) /\ (i + 1 \in dead <=> p[i].op = "jump")

Origin(p, q, h, j, i) ==
  h[i] = j /\ (q[j] = p[i] \/ (p[i].op = "branch" /\ q[j] = Pass!Jump(p[i].target)))

Settling(p, a, q, h, dead) ==
  /\ h[1] = 1 /\ 1 \notin dead
  /\ h[a] = Len(q) + 1
  /\ \A i \in 1 .. a - 1 : SettledAt(p, q, h, dead, i)
  /\ \A j \in DOMAIN q : \E i \in 1 .. a - 1 : Origin(p, q, h, j, i)

(* A sequence has a length.                                                *)
LEMMA SizeOf == ASSUME NEW p, Sequence(p) PROVE Len(p) \in Nat /\ DOMAIN p = 1 .. Len(p)
  BY DEF Sequence

(* A label goes with its jumps.                                            *)
LEMMA LabelGoes ==
  ASSUME NEW p, Sequence(p), NEW q, Sequence(q), NEW h, NEW dead, Settling(p, Len(p) + 1, q, h, dead),
         NEW j, NEW l, OnlyAt(p, j, Pass!Label(l))
  PROVE  OnlyAt(q, h[j], Pass!Label(l)) /\ ~Dies(p, dead, j)
<1>1. j \in 1 .. Len(p) /\ p[j] = Pass!Label(l) /\ p[j].op = "label" /\ Len(p) \in Nat
  BY SizeOf DEF OnlyAt, Pass!Label
<1>2. SettledAt(p, q, h, dead, j)
  BY <1>1 DEF Settling
<1>3. ~Dies(p, dead, j) /\ Puts(q, h, j, p[j])
  BY <1>1, <1>2 DEF SettledAt, Dies
<1>4. ASSUME NEW k \in DOMAIN q, q[k] = Pass!Label(l) PROVE k = h[j]
  <2>1. PICK i \in 1 .. (Len(p) + 1) - 1 : Origin(p, q, h, k, i)
    BY DEF Settling
  <2>2. q[k] # Pass!Jump(p[i].target)
    BY <1>4 DEF Pass!Label, Pass!Jump
  <2>3. p[i] = Pass!Label(l) /\ h[i] = k /\ i \in DOMAIN p
    BY <1>1, <1>4, <2>1, <2>2, SizeOf DEF Origin
  <2> QED BY <2>3 DEF OnlyAt
<1>5. QED
  BY <1>1, <1>3, <1>4 DEF OnlyAt, Puts

(* So that every jump that is kept has somewhere to go.                    *)
LEMMA SettledLands ==
  ASSUME NEW p, Sequence(p), NEW q, Sequence(q), NEW h, NEW dead, Settling(p, Len(p) + 1, q, h, dead), Landing(p)
  PROVE  Landing(q)
<1> SUFFICES ASSUME NEW k \in DOMAIN q, q[k].op \in Pass!Leaps
             PROVE  \E j \in DOMAIN q : OnlyAt(q, j, Pass!Label(q[k].target))
  BY DEF Landing
<1>1. PICK i \in 1 .. (Len(p) + 1) - 1 : Origin(p, q, h, k, i)
  BY DEF Settling
<1>2. i \in DOMAIN p
  BY SizeOf
<1>3. p[i].op \in Pass!Leaps /\ p[i].target = q[k].target
  BY <1>1 DEF Origin, Pass!Leaps, Pass!Jump
<1>4. PICK j \in DOMAIN p : OnlyAt(p, j, Pass!Label(q[k].target))
  BY <1>2, <1>3 DEF Landing
<1>5. OnlyAt(q, h[j], Pass!Label(q[k].target))
  BY <1>4, LabelGoes
<1>6. QED
  BY <1>5 DEF OnlyAt

(* The one program at s, the other at t: they have done the same.          *)
Meets(p, q, h, dead, s, t) ==
  /\ Standing(p, s)
  /\ t.did = s.did /\ t.asked = s.asked
  /\ s.pc = 0 => t.pc = 0
  /\ s.pc # 0 => ~Dies(p, dead, s.pc) /\ t.pc = Falls(q, h[s.pc])

(* Where both fall to the next operation, they meet.                       *)
LEMMA FallsAlike ==
  ASSUME NEW p, Sequence(p), NEW q, Sequence(q), NEW h, NEW dead, Settling(p, Len(p) + 1, q, h, dead),
         NEW i \in DOMAIN p, i + 1 \notin dead
  PROVE  /\ Falls(p, i + 1) = 0 => Falls(q, h[i + 1]) = 0
         /\ Falls(p, i + 1) # 0 => Falls(p, i + 1) = i + 1 /\ ~Dies(p, dead, i + 1)
<1>1. Len(p) \in Nat /\ i \in 1 .. Len(p) /\ Len(q) \in Nat /\ DOMAIN q = 1 .. Len(q) /\ DOMAIN p = 1 .. Len(p)
  BY SizeOf
<1>2. h[Len(p) + 1] = Len(q) + 1
  BY DEF Settling
<1>3. CASE i = Len(p)
  BY <1>1, <1>2, <1>3 DEF Falls
<1>4. CASE i # Len(p)
  <2>1. i + 1 \in DOMAIN p /\ i + 1 # 0
    BY <1>1, <1>4
  <2> QED BY <2>1 DEF Falls, Dies
<1>5. QED
  BY <1>3, <1>4

(* For each operation of the one, the other runs none or one, and they     *)
(* meet again.                                                             *)
LEMMA SettledKeepsUp ==
  ASSUME NEW p, Tidy(p), NEW q, Tidy(q), NEW h, NEW dead, Settling(p, Len(p) + 1, q, h, dead), Landing(p),
         NEW d, NEW s, NEW t, Meets(p, q, h, dead, s, t)
  PROVE  Meets(p, q, h, dead, Turn(p, d, s), t) \/ Meets(p, q, h, dead, Turn(p, d, s), Turn(q, d, t))
<1> DEFINE u == Turn(p, d, s)
           v == Turn(q, d, t)
           i == s.pc
           o == p[i]
           zero == d[s.asked + 1]
<1>0. Sequence(p) /\ Sequence(q) /\ Standing(p, s) /\ Standing(p, u)
  BY TurnStands DEF Tidy, Meets
<1>1. CASE s.pc = 0
  BY <1>1 DEF Turn
<1>2. CASE s.pc # 0
  <2>1. i \in DOMAIN p /\ i \in 1 .. (Len(p) + 1) - 1 /\ ~Dies(p, dead, i) /\ t.pc = Falls(q, h[i])
    BY <1>0, <1>2, SizeOf DEF Meets, Standing
  <2>2. SettledAt(p, q, h, dead, i)
    BY <2>1 DEF Settling
  <2>3. u.pc = Place(p, o, i, zero) /\ u.did = s.did \o Shown(o)
        /\ u.asked = IF Asking(o) THEN s.asked + 1 ELSE s.asked
    BY <1>2 DEF Turn
  <2>4. t.did = s.did /\ t.asked = s.asked /\ Sequence(s.did)
    BY <1>0 DEF Meets, Standing
  <2> HIDE DEF u
  <2>5. CASE o.op = "branch" /\ o.cond = "other" /\ Drops(h, i) /\ i + 1 \notin dead
    <3>1. Shown(o) = <<>> /\ ~Asking(o) /\ ~Taken(o, zero) /\ o.op # "exit"
      BY <2>5 DEF Shown, Asking, Taken
    <3>2. u.pc = Falls(p, i + 1) /\ u.did = s.did /\ u.asked = s.asked
      BY <2>3, <2>4, <3>1, Joined, NothingIsASequence DEF Place
    <3>3. t.pc = Falls(q, h[i + 1])
      BY <2>1, <2>5 DEF Drops
    <3>4. Meets(p, q, h, dead, u, t)
      BY <1>0, <2>1, <2>4, <2>5, <3>2, <3>3, FallsAlike DEF Meets
    <3> QED BY <3>4 DEF u
  <2>6. ASSUME NEW x, Puts(q, h, i, x), Shown(x) = Shown(o), Asking(x) <=> Asking(o), x.op = "exit" <=> o.op = "exit",
               Taken(x, zero) <=> Taken(o, zero), Taken(o, zero) => x.target = o.target /\ o.op \in Pass!Leaps,
               ~Taken(o, zero) /\ o.op # "exit" => i + 1 \notin dead
        PROVE  Meets(p, q, h, dead, u, v)
    <3>1. t.pc = h[i] /\ t.pc # 0 /\ q[t.pc] = x
      BY <1>0, <2>1, <2>6, SizeOf DEF Puts, Falls
    <3>2. v.pc = Place(q, x, h[i], zero) /\ v.did = t.did \o Shown(x)
          /\ v.asked = IF Asking(x) THEN t.asked + 1 ELSE t.asked
      BY <2>4, <3>1 DEF Turn
    <3> HIDE DEF v
    <3>3. v.did = u.did /\ v.asked = u.asked
      BY <2>3, <2>4, <2>6, <3>2
    <3>4. CASE o.op = "exit"
      <4>1. u.pc = 0 /\ v.pc = 0
        BY <2>3, <2>6, <3>2, <3>4 DEF Place
      <4> QED BY <1>0, <3>3, <4>1 DEF Meets
    <3>5. CASE o.op # "exit" /\ Taken(o, zero)
      <4>1. u.pc = Finds(p, o.target) /\ v.pc = Finds(q, o.target)
        BY <2>3, <2>6, <3>2, <3>5 DEF Place
      <4>2. PICK j \in DOMAIN p : OnlyAt(p, j, Pass!Label(o.target))
        BY <2>1, <2>6, <3>5 DEF Landing
      <4>3. OnlyAt(q, h[j], Pass!Label(o.target)) /\ ~Dies(p, dead, j)
        BY <1>0, <4>2, LabelGoes
      <4>4. u.pc = j /\ v.pc = h[j] /\ h[j] \in DOMAIN q
        BY <4>1, <4>2, <4>3, FindsIt DEF OnlyAt
      <4>5. j # 0 /\ v.pc = Falls(q, h[j])
        BY <1>0, <4>4, SizeOf DEF Falls
      <4> QED BY <1>0, <3>3, <4>3, <4>4, <4>5 DEF Meets
    <3>6. CASE o.op # "exit" /\ ~Taken(o, zero)
      <4>1. u.pc = Falls(p, i + 1) /\ v.pc = Falls(q, h[i] + 1) /\ h[i + 1] = h[i] + 1 /\ i + 1 \notin dead
        BY <2>3, <2>6, <3>2, <3>6 DEF Place, Puts
      <4> QED BY <1>0, <2>1, <3>3, <4>1, FallsAlike DEF Meets
    <3> QED BY <3>4, <3>5, <3>6
  <2>7. CASE o.op = "branch" /\ o.cond = "zero" /\ Puts(q, h, i, Pass!Jump(o.target)) /\ i + 1 \in dead
    <3> DEFINE x == Pass!Jump(o.target)
    <3>1. /\ Shown(x) = <<>> /\ Shown(o) = <<>> /\ ~Asking(x) /\ ~Asking(o) /\ x.op # "exit" /\ o.op # "exit"
          /\ Taken(x, zero) /\ Taken(o, zero) /\ x.target = o.target /\ o.op \in Pass!Leaps
      BY <2>7 DEF Shown, Asking, Taken, Pass!Jump, Pass!Leaps
    <3> HIDE DEF x
    <3>2. Meets(p, q, h, dead, u, v)
      BY <2>6, <2>7, <3>1 DEF x
    <3> QED BY <3>2 DEF u
  <2>8. CASE /\ o.op = "branch" => o.cond = "unknown"
             /\ Puts(q, h, i, o) /\ (i + 1 \in dead <=> o.op = "jump")
    <3>1. Taken(o, zero) => o.op \in Pass!Leaps
      BY DEF Taken, Pass!Leaps
    <3>2. ~Taken(o, zero) => i + 1 \notin dead
      BY <2>8 DEF Taken
    <3>3. Meets(p, q, h, dead, u, v)
      BY <2>6, <2>8, <3>1, <3>2
    <3> QED BY <3>3 DEF u
  <2> QED BY <2>1, <2>2, <2>5, <2>7, <2>8 DEF SettledAt
<1>3. QED
  BY <1>1, <1>2

(* So that after any number of operations of the one the other has, in no  *)
(* more, done the same.                                                    *)
LEMMA SettledFollows ==
  ASSUME NEW p, Tidy(p), NEW q, Tidy(q), NEW h, NEW dead, Settling(p, Len(p) + 1, q, h, dead), Landing(p), NEW d
  PROVE  \A n \in Nat : \E m \in 0 .. n : Meets(p, q, h, dead, Course(p, d)[n], Course(q, d)[m])
<1> DEFINE a == Course(p, d)
           b == Course(q, d)
           E == {n \in Nat : \E m \in 0 .. n : Meets(p, q, h, dead, a[n], b[m])}
<1>1. 0 \in E
  <2>1. a[0] = Start(p) /\ b[0] = Start(q) /\ Standing(p, Start(p))
    BY CourseIs, StartStands
  <2>2. Sequence(p) /\ Sequence(q)
    BY DEF Tidy
  <2>3. CASE p = <<>>
    <3>1. Len(p) = 0
      BY <2>3
    <3>2. \A i : i \notin 1 .. (Len(p) + 1) - 1
      BY <3>1
    <3>3. \A j : j \notin DOMAIN q
      BY <3>2 DEF Settling
    <3>4. q = <<>>
      <4>1. PICK S : q \in Seq(S)
        BY <2>2 DEF Sequence
      <4>2. Len(q) = 0
        <5>1. Len(q) \in Nat /\ DOMAIN q = 1 .. Len(q) /\ 1 \notin DOMAIN q
          BY <2>2, <3>3, SizeOf
        <5> QED BY <5>1
      <4> QED BY <4>1, <4>2
    <3>5. Meets(p, q, h, dead, Start(p), Start(q))
      BY <2>1, <2>3, <3>4 DEF Meets, Start
    <3> HIDE DEF a, b
    <3> QED BY <2>1, <3>5
  <2>4. CASE p # <<>>
    <3>1. Start(p).pc = 1 /\ h[1] = 1 /\ 1 \notin dead
      BY <2>4 DEF Start, Settling
    <3>2. Start(q).pc = Falls(q, 1)
      BY <2>2 DEF Start, Falls, Sequence
    <3>3. Meets(p, q, h, dead, Start(p), Start(q))
      BY <2>1, <3>1, <3>2 DEF Meets, Start, Dies
    <3> HIDE DEF a, b
    <3> QED BY <2>1, <3>3
  <2> QED BY <2>3, <2>4
<1>2. ASSUME NEW n \in Nat, n \in E PROVE n + 1 \in E
  <2>1. PICK m \in 0 .. n : Meets(p, q, h, dead, a[n], b[m])
    BY <1>2
  <2>2. a[n + 1] = Turn(p, d, a[n]) /\ b[m + 1] = Turn(q, d, b[m])
    BY CourseIs
  <2> HIDE DEF a, b
  <2>3. Meets(p, q, h, dead, a[n + 1], b[m]) \/ Meets(p, q, h, dead, a[n + 1], b[m + 1])
    BY <2>1, <2>2, SettledKeepsUp
  <2>4. m \in 0 .. n + 1 /\ m + 1 \in 0 .. n + 1
    OBVIOUS
  <2> QED BY <2>3, <2>4
<1>3. Nat \subseteq E
  <2> HIDE DEF E
  <2> QED BY <1>1, <1>2, SetInduction
<1>4. QED
  BY <1>3

-----------------------------------------------------------------------------
(* The loop of optimize, seen from the end: g says where in what it kept   *)
(* an operation went, or what follows it; rest, what is written by then    *)
(* that is yet to be written where writes are not joined; past, what is    *)
(* behind an exit.                                                         *)
Leaping(p) == \E i \in DOMAIN p : p[i].op \in Pass!Leaps \cup {"label"}

MergedAt(p, q, g, rest, past, j) ==
  \/ j \in past /\ j + 1 \in past
  \/ /\ j \notin past /\ j + 1 \notin past /\ p[j].op = "write"
     /\ Drops(g, j) /\ rest[j] = Shown(p[j]) \o rest[j + 1]
  \/ /\ j \notin past /\ j + 1 \notin past /\ p[j].op = "write"
     /\ Puts(q, g, j, q[g[j]]) /\ q[g[j]].op = "write"
     /\ Shown(q[g[j]]) = Shown(p[j]) \o rest[j + 1] /\ rest[j] = <<>>
  \/ /\ j \notin past /\ p[j].op # "write"
     /\ Puts(q, g, j, p[j]) /\ rest[j] = <<>> /\ rest[j + 1] = <<>>
     /\ j + 1 \in past => p[j].op = "exit"

Merging(p, a, q, g, rest, past) ==
  /\ g[1] = 1 /\ rest[1] = <<>> /\ 1 \notin past
  /\ rest[a] = <<>>
  /\ \A j \in 1 .. a : Sequence(rest[j])
  /\ \A j \in 1 .. a - 1 : MergedAt(p, q, g, rest, past, j)
  /\ \A k \in DOMAIN q : q[k].op = "label" => \E j \in 1 .. a - 1 : p[j] = q[k] /\ g[j] = k
  /\ past # {} => ~Leaping(p)

(* What comes where the program ends ends it.                              *)
Merged(p, q, g, rest, past) ==
  /\ Merging(p, Len(p) + 1, q, g, rest, past)
  /\ g[Len(p) + 1] \in DOMAIN q => q[g[Len(p) + 1]].op = "exit"

(* A label is kept, and nothing is owed at it: writes are not joined       *)
(* across it.                                                              *)
LEMMA LabelStays ==
  ASSUME NEW p, Sequence(p), NEW q, NEW g, NEW rest, NEW past, Merged(p, q, g, rest, past),
         NEW j, NEW l, OnlyAt(p, j, Pass!Label(l))
  PROVE  OnlyAt(q, g[j], Pass!Label(l)) /\ j \notin past /\ rest[j] = <<>>
<1>1. j \in 1 .. Len(p) /\ p[j] = Pass!Label(l) /\ p[j].op = "label" /\ Len(p) \in Nat /\ j \in DOMAIN p
  BY SizeOf DEF OnlyAt, Pass!Label
<1>2. MergedAt(p, q, g, rest, past, j)
  BY <1>1 DEF Merged, Merging
<1>3. j \notin past
  BY <1>1 DEF Merged, Merging, Leaping
<1>4. Puts(q, g, j, p[j]) /\ rest[j] = <<>>
  BY <1>1, <1>2, <1>3 DEF MergedAt
<1>5. ASSUME NEW k \in DOMAIN q, q[k] = Pass!Label(l) PROVE k = g[j]
  <2>1. q[k].op = "label"
    BY <1>5 DEF Pass!Label
  <2>2. PICK i \in 1 .. (Len(p) + 1) - 1 : p[i] = q[k] /\ g[i] = k
    BY <2>1 DEF Merged, Merging
  <2>3. i \in DOMAIN p
    BY SizeOf
  <2> QED BY <1>5, <2>2, <2>3 DEF OnlyAt
<1>6. QED
  BY <1>1, <1>3, <1>4, <1>5 DEF OnlyAt, Puts

(* The one program at s, the other at t, which is ahead by the rest.       *)
Ahead(p, q, g, rest, past, s, t) ==
  /\ Standing(p, s)
  /\ t.asked = s.asked
  /\ s.pc = 0 => t.did = s.did /\ (t.pc = 0 \/ (t.pc \in DOMAIN q /\ q[t.pc].op = "exit"))
  /\ s.pc # 0 => s.pc \notin past /\ t.did = s.did \o rest[s.pc] /\ t.pc = Falls(q, g[s.pc])

(* The one falls to the next operation, and the other is still ahead by    *)
(* the rest.                                                               *)
LEMMA FallsAhead ==
  ASSUME NEW p, Sequence(p), NEW q, Sequence(q), NEW g, NEW rest, NEW past, Merged(p, q, g, rest, past),
         NEW j \in DOMAIN p, j + 1 \notin past, NEW s, NEW t,
         Standing(p, s), s.pc = Falls(p, j + 1),
         t.asked = s.asked, t.did = s.did \o rest[j + 1], t.pc = Falls(q, g[j + 1])
  PROVE  Ahead(p, q, g, rest, past, s, t)
<1>1. Len(p) \in Nat /\ j \in 1 .. Len(p) /\ DOMAIN p = 1 .. Len(p) /\ DOMAIN q = 1 .. Len(q) /\ Len(q) \in Nat
  BY SizeOf
<1>2. CASE j = Len(p)
  <2>1. s.pc = 0
    BY <1>1, <1>2 DEF Falls
  <2>2. rest[j + 1] = <<>> /\ (g[j + 1] \in DOMAIN q => q[g[j + 1]].op = "exit")
    BY <1>2 DEF Merged, Merging
  <2>3. t.did = s.did
    BY <2>2, Joined, NothingIsASequence DEF Standing
  <2>4. t.pc = 0 \/ (t.pc \in DOMAIN q /\ q[t.pc].op = "exit")
    BY <2>2 DEF Falls
  <2> QED BY <2>1, <2>3, <2>4 DEF Ahead
<1>3. CASE j # Len(p)
  <2>1. s.pc = j + 1 /\ s.pc # 0
    BY <1>1, <1>3 DEF Falls
  <2> QED BY <2>1 DEF Ahead
<1>4. QED
  BY <1>2, <1>3

(* For each operation of the one, the other runs none or one, and is ahead *)
(* of it by the rest again.                                                *)
LEMMA MergedKeepsUp ==
  ASSUME NEW p, Tidy(p), NEW q, Tidy(q), NEW g, NEW rest, NEW past, Merged(p, q, g, rest, past), Landing(p),
         NEW d, NEW s, NEW t, Ahead(p, q, g, rest, past, s, t)
  PROVE  Ahead(p, q, g, rest, past, Turn(p, d, s), t) \/ Ahead(p, q, g, rest, past, Turn(p, d, s), Turn(q, d, t))
<1> DEFINE u == Turn(p, d, s)
           v == Turn(q, d, t)
           j == s.pc
           o == p[j]
           zero == d[s.asked + 1]
<1>0. Sequence(p) /\ Sequence(q) /\ Standing(p, s) /\ Standing(p, u)
  BY TurnStands DEF Tidy, Ahead
<1>1. CASE s.pc = 0
  BY <1>1 DEF Turn
<1>2. CASE s.pc # 0
  <2>1. /\ j \in DOMAIN p /\ j \in 1 .. (Len(p) + 1) - 1 /\ j \notin past /\ j + 1 \in 1 .. Len(p) + 1
        /\ j \in 1 .. Len(p) + 1
        /\ t.pc = Falls(q, g[j]) /\ t.did = s.did \o rest[j] /\ t.asked = s.asked /\ Sequence(s.did)
    <3>1. j \in DOMAIN p /\ Sequence(s.did)
      BY <1>0, <1>2 DEF Standing
    <3>2. j \notin past /\ t.pc = Falls(q, g[j]) /\ t.did = s.did \o rest[j] /\ t.asked = s.asked
      BY <1>2 DEF Ahead
    <3>3. j \in 1 .. Len(p) /\ Len(p) \in Nat
      BY <1>0, <3>1, SizeOf
    <3> HIDE DEF j
    <3>4. j \in 1 .. (Len(p) + 1) - 1 /\ j + 1 \in 1 .. Len(p) + 1 /\ j \in 1 .. Len(p) + 1
      BY <3>3
    <3> QED BY <3>1, <3>2, <3>4
  <2>2. MergedAt(p, q, g, rest, past, j) /\ Sequence(rest[j]) /\ Sequence(rest[j + 1])
    BY <2>1 DEF Merged, Merging
  <2>3. u.pc = Place(p, o, j, zero) /\ u.did = s.did \o Shown(o)
        /\ u.asked = IF Asking(o) THEN s.asked + 1 ELSE s.asked
    BY <1>2 DEF Turn
  <2>4. Sequence(Shown(o))
    BY <2>1, ShownIs DEF Tidy
  <2> HIDE DEF u
  <2>5. u.did \o rest[j + 1] = s.did \o (Shown(o) \o rest[j + 1])
    <3> DEFINE a == s.did
               b == Shown(o)
               c == rest[j + 1]
    <3>1. Sequence(a) /\ Sequence(b) /\ Sequence(c) /\ u.did = a \o b
      BY <2>1, <2>2, <2>3, <2>4
    <3> HIDE DEF a, b, c
    <3>2. (a \o b) \o c = a \o (b \o c)
      BY <3>1, JoinedTwice
    <3>3. u.did \o c = a \o (b \o c)
      BY <3>1, <3>2
    <3> QED BY <3>3 DEF a, b, c
  <2>6. ASSUME o.op = "write" PROVE u.pc = Falls(p, j + 1) /\ u.asked = s.asked
    BY <2>3, <2>6 DEF Place, Taken, Asking
  <2>7. CASE j + 1 \notin past /\ o.op = "write" /\ Drops(g, j) /\ rest[j] = Shown(o) \o rest[j + 1]
    <3>1. t.did = u.did \o rest[j + 1] /\ t.pc = Falls(q, g[j + 1])
      BY <2>1, <2>5, <2>7 DEF Drops
    <3>2. Ahead(p, q, g, rest, past, u, t)
      BY <1>0, <2>1, <2>6, <2>7, <3>1, FallsAhead
    <3> QED BY <3>2 DEF u
  <2>8. ASSUME Puts(q, g, j, q[g[j]]), rest[j] = <<>>
        PROVE  /\ t.did = s.did
               /\ t.pc = g[j] /\ t.pc # 0
               /\ v.pc = Place(q, q[g[j]], g[j], zero) /\ v.did = s.did \o Shown(q[g[j]])
               /\ v.asked = IF Asking(q[g[j]]) THEN s.asked + 1 ELSE s.asked
    <3>1. t.did = s.did
      BY <2>1, <2>8, Joined, NothingIsASequence
    <3>2. t.pc = g[j] /\ t.pc # 0
      BY <1>0, <2>1, <2>8, SizeOf DEF Puts, Falls
    <3> QED BY <2>1, <3>1, <3>2 DEF Turn
  <2> HIDE DEF v
  <2>9. CASE /\ j + 1 \notin past /\ o.op = "write"
             /\ Puts(q, g, j, q[g[j]]) /\ q[g[j]].op = "write"
             /\ Shown(q[g[j]]) = Shown(o) \o rest[j + 1] /\ rest[j] = <<>>
    <3>1. v.did = u.did \o rest[j + 1] /\ v.asked = u.asked
      BY <2>5, <2>6, <2>8, <2>9 DEF Asking
    <3>2. v.pc = Falls(q, g[j + 1])
      BY <2>8, <2>9 DEF Place, Taken, Puts
    <3>3. Ahead(p, q, g, rest, past, u, v)
      BY <1>0, <2>1, <2>6, <2>9, <3>1, <3>2, FallsAhead
    <3> QED BY <3>3 DEF u, v
  <2>10. CASE /\ o.op # "write"
              /\ Puts(q, g, j, o) /\ rest[j] = <<>> /\ rest[j + 1] = <<>>
              /\ j + 1 \in past => o.op = "exit"
    <3>1. q[g[j]] = o /\ Puts(q, g, j, q[g[j]])
      BY <2>10 DEF Puts
    <3>2. v.did = u.did /\ v.asked = u.asked /\ v.pc = Place(q, o, g[j], zero) /\ Sequence(u.did)
      BY <1>0, <2>3, <2>8, <2>10, <3>1 DEF Standing
    <3>3. u.did \o <<>> = u.did
      BY <3>2, Joined, NothingIsASequence
    <3>4. CASE o.op = "exit"
      <4>1. u.pc = 0 /\ v.pc = 0
        BY <2>3, <3>2, <3>4 DEF Place
      <4>2. Ahead(p, q, g, rest, past, u, v)
        BY <1>0, <3>2, <4>1 DEF Ahead
      <4> QED BY <4>2 DEF u, v
    <3>5. CASE o.op # "exit" /\ Taken(o, zero)
      <4>1. u.pc = Finds(p, o.target) /\ v.pc = Finds(q, o.target) /\ o.op \in Pass!Leaps
        BY <2>3, <3>2, <3>5 DEF Place, Taken, Pass!Leaps
      <4>2. PICK i \in DOMAIN p : OnlyAt(p, i, Pass!Label(o.target))
        BY <2>1, <4>1 DEF Landing
      <4>3. OnlyAt(q, g[i], Pass!Label(o.target)) /\ i \notin past /\ rest[i] = <<>>
        BY <1>0, <4>2, LabelStays
      <4>4. u.pc = i /\ v.pc = g[i] /\ g[i] \in DOMAIN q /\ i # 0
        BY <1>0, <4>1, <4>2, <4>3, FindsIt, SizeOf DEF OnlyAt
      <4>5. v.pc = Falls(q, g[i]) /\ v.did = u.did \o rest[i]
        BY <3>2, <3>3, <4>3, <4>4 DEF Falls
      <4>6. Ahead(p, q, g, rest, past, u, v)
        BY <1>0, <3>2, <4>3, <4>4, <4>5 DEF Ahead
      <4> QED BY <4>6 DEF u, v
    <3>6. CASE o.op # "exit" /\ ~Taken(o, zero)
      <4>1. u.pc = Falls(p, j + 1) /\ v.pc = Falls(q, g[j + 1]) /\ j + 1 \notin past
        BY <2>3, <2>10, <3>2, <3>6 DEF Place, Puts
      <4>2. Ahead(p, q, g, rest, past, u, v)
        BY <1>0, <2>1, <2>10, <3>2, <3>3, <4>1, FallsAhead
      <4> QED BY <4>2 DEF u, v
    <3> QED BY <3>4, <3>5, <3>6
  <2> QED BY <2>1, <2>2, <2>7, <2>9, <2>10 DEF MergedAt
<1>3. QED
  BY <1>1, <1>2

(* So that after any number of operations of the one the other is, in no   *)
(* more, ahead of it.                                                      *)
LEMMA MergedFollows ==
  ASSUME NEW p, Tidy(p), NEW q, Tidy(q), NEW g, NEW rest, NEW past, Merged(p, q, g, rest, past), Landing(p), NEW d
  PROVE  \A n \in Nat : \E m \in 0 .. n : Ahead(p, q, g, rest, past, Course(p, d)[n], Course(q, d)[m])
<1> DEFINE a == Course(p, d)
           b == Course(q, d)
           E == {n \in Nat : \E m \in 0 .. n : Ahead(p, q, g, rest, past, a[n], b[m])}
<1>1. 0 \in E
  <2>1. a[0] = Start(p) /\ b[0] = Start(q) /\ Standing(p, Start(p))
    BY CourseIs, StartStands
  <2>2. Sequence(p) /\ Sequence(q)
    BY DEF Tidy
  <2>3. g[1] = 1 /\ rest[1] = <<>> /\ 1 \notin past /\ <<>> \o <<>> = <<>>
    BY DEF Merged, Merging
  <2>4. Start(q).pc = Falls(q, 1)
    BY <2>2 DEF Start, Falls, Sequence
  <2>5. CASE p = <<>>
    <3>1. Len(p) + 1 = 1
      BY <2>5
    <3>2. 1 \in DOMAIN q => q[1].op = "exit"
      BY <2>3, <3>1 DEF Merged
    <3>3. Start(q).pc = 0 \/ (Start(q).pc \in DOMAIN q /\ q[Start(q).pc].op = "exit")
      BY <2>4, <3>2 DEF Falls
    <3>4. Start(p).pc = 0 /\ Start(p).did = <<>> /\ Start(q).did = <<>> /\ Start(p).asked = Start(q).asked
      BY <2>5 DEF Start
    <3>5. Ahead(p, q, g, rest, past, Start(p), Start(q))
      BY <2>1, <3>3, <3>4 DEF Ahead
    <3> HIDE DEF a, b
    <3> QED BY <2>1, <3>5
  <2>6. CASE p # <<>>
    <3>1. Start(p).pc = 1 /\ Start(p).did = <<>> /\ Start(q).did = <<>> /\ Start(p).asked = Start(q).asked
      BY <2>6 DEF Start
    <3>2. Ahead(p, q, g, rest, past, Start(p), Start(q))
      BY <2>1, <2>3, <2>4, <3>1 DEF Ahead
    <3> HIDE DEF a, b
    <3> QED BY <2>1, <3>2
  <2> QED BY <2>5, <2>6
<1>2. ASSUME NEW n \in Nat, n \in E PROVE n + 1 \in E
  <2>1. PICK m \in 0 .. n : Ahead(p, q, g, rest, past, a[n], b[m])
    BY <1>2
  <2>2. a[n + 1] = Turn(p, d, a[n]) /\ b[m + 1] = Turn(q, d, b[m])
    BY CourseIs
  <2> HIDE DEF a, b
  <2>3. Ahead(p, q, g, rest, past, a[n + 1], b[m]) \/ Ahead(p, q, g, rest, past, a[n + 1], b[m + 1])
    BY <2>1, <2>2, MergedKeepsUp
  <2>4. m \in 0 .. n + 1 /\ m + 1 \in 0 .. n + 1
    OBVIOUS
  <2> QED BY <2>3, <2>4
<1>3. Nat \subseteq E
  <2> HIDE DEF E
  <2> QED BY <1>1, <1>2, SetInduction
<1>4. QED
  BY <1>3

-----------------------------------------------------------------------------
(* What the one program has done the other has, in no more operations, and *)
(* where the one has ended the other ends too, within one more.            *)
Ends(s, b, m) == b[m].did = s.did /\ b[m + 1].did = s.did /\ b[m + 1].pc = 0
ServedBy(s, b, m) == Opens(s.did, b[m].did) /\ (s.pc = 0 => Ends(s, b, m))
ServesAt(p, q, d, n) == \E m \in 0 .. n : ServedBy(Course(p, d)[n], Course(q, d), m)
Serves(p, q, d) == \A n \in Nat : ServesAt(p, q, d, n)

(* A program serves itself.                                                *)
LEMMA ServesItself ==
  ASSUME NEW p, Tidy(p), NEW d
  PROVE  Serves(p, p, d)
<1> SUFFICES ASSUME NEW n \in Nat PROVE ServesAt(p, p, d, n)
  BY DEF Serves
<1> DEFINE b == Course(p, d)
<1>1. Opens(b[n].did, b[n].did) /\ (b[n].pc = 0 => b[n + 1] = b[n])
  BY CourseGrows
<1>2. n \in 0 .. n
  OBVIOUS
<1> HIDE DEF b
<1>3. b[n].pc = 0 => Ends(b[n], b, n)
  BY <1>1 DEF Ends
<1>4. ServedBy(b[n], b, n)
  BY <1>1, <1>3 DEF ServedBy
<1>5. QED
  BY <1>2, <1>4 DEF b, ServesAt

(* And what serves what is settled serves what it was.                     *)
LEMMA SettledServes ==
  ASSUME NEW p, Tidy(p), NEW q, Tidy(q), NEW h, NEW dead, Settling(p, Len(p) + 1, q, h, dead), Landing(p), NEW d,
         NEW r, Serves(q, r, d)
  PROVE  Serves(p, r, d)
<1> SUFFICES ASSUME NEW n \in Nat PROVE ServesAt(p, r, d, n)
  BY DEF Serves
<1> DEFINE a == Course(p, d)
           b == Course(q, d)
           c == Course(r, d)
<1>1. PICK m \in 0 .. n : Meets(p, q, h, dead, a[n], b[m])
  BY SettledFollows
<1>2. ServesAt(q, r, d, m)
  BY DEF Serves
<1>3. PICK k \in 0 .. m : ServedBy(b[m], c, k)
  BY <1>2 DEF ServesAt
<1> HIDE DEF a, b, c
<1>4. ServedBy(a[n], c, k)
  BY <1>1, <1>3 DEF Meets, ServedBy, Ends
<1>5. k \in 0 .. n
  OBVIOUS
<1>6. QED
  BY <1>4, <1>5 DEF a, c, ServesAt

(* What optimize leaves serves what is settled: what it is ahead by is     *)
(* written by the end, and the exit that is added is the one operation     *)
(* more.                                                                   *)
LEMMA MergedServes ==
  ASSUME NEW p, Tidy(p), NEW q, Tidy(q), NEW g, NEW rest, NEW past, Merged(p, q, g, rest, past), Landing(p), NEW d
  PROVE  Serves(p, q, d)
<1> SUFFICES ASSUME NEW n \in Nat PROVE ServesAt(p, q, d, n)
  BY DEF Serves
<1> DEFINE a == Course(p, d)
           b == Course(q, d)
<1>1. PICK m \in 0 .. n : Ahead(p, q, g, rest, past, a[n], b[m])
  BY MergedFollows
<1>2. m \in Nat /\ b[m + 1] = Turn(q, d, b[m]) /\ (b[m].pc = 0 => b[m + 1] = b[m])
  BY CourseGrows, CourseIs
<1> HIDE DEF a, b
<1>3. Standing(p, a[n])
  BY <1>1 DEF Ahead
<1>4. Opens(a[n].did, b[m].did)
  <2>1. CASE a[n].pc = 0
    BY <1>1, <1>3, <2>1, BeginsItself DEF Ahead, Standing
  <2>2. CASE a[n].pc # 0
    <3>1. a[n].pc \in DOMAIN p /\ Sequence(p)
      BY <1>3, <2>2 DEF Standing, Tidy
    <3>2. a[n].pc \in 1 .. Len(p) + 1
      BY <3>1, SizeOf
    <3>3. Sequence(rest[a[n].pc])
      BY <3>2 DEF Merged, Merging
    <3>4. b[m].did = a[n].did \o rest[a[n].pc]
      BY <1>1, <2>2 DEF Ahead
    <3> QED BY <1>3, <3>3, <3>4 DEF Opens, Standing
  <2> QED BY <2>1, <2>2
<1>5. ASSUME a[n].pc = 0 PROVE Ends(a[n], b, m)
  <2>1. b[m].did = a[n].did /\ (b[m].pc = 0 \/ (b[m].pc \in DOMAIN q /\ q[b[m].pc].op = "exit"))
    BY <1>1, <1>5 DEF Ahead
  <2>2. CASE b[m].pc = 0
    BY <1>2, <2>1, <2>2 DEF Ends
  <2>3. CASE b[m].pc # 0
    <3>1. q[b[m].pc].op = "exit"
      BY <2>1, <2>3
    <3>2. b[m + 1].pc = 0 /\ b[m + 1].did = b[m].did \o <<>>
      BY <1>2, <2>3, <3>1 DEF Turn, Place, Shown
    <3>3. Sequence(b[m].did)
      BY <1>3, <2>1 DEF Standing
    <3>4. b[m].did \o <<>> = b[m].did
      BY <3>3, Joined, NothingIsASequence
    <3> QED BY <2>1, <3>2, <3>4 DEF Ends
  <2> QED BY <2>2, <2>3
<1>6. ServedBy(a[n], b, m)
  BY <1>4, <1>5 DEF ServedBy
<1>7. QED
  BY <1>6 DEF a, b, ServesAt

-----------------------------------------------------------------------------
(* One more turn of _settle_branches.                                      *)
Longer(q, r) == \A j \in DOMAIN q : j \in DOMAIN r /\ r[j] = q[j]
AsFar(a, h, dead, k, gone) == \A i \in 1 .. a : k[i] = h[i] /\ (i \in gone <=> i \in dead)

(* A turn leaves alone what was said of the operations before.             *)
LEMMA SettlingOn ==
  ASSUME NEW p, NEW a \in Nat \ {0}, NEW q, NEW r, NEW h, NEW dead, NEW k, NEW gone,
         Settling(p, a, q, h, dead), Longer(q, r), AsFar(a, h, dead, k, gone),
         k[a + 1] = Len(r) + 1, SettledAt(p, r, k, gone, a),
         \A j \in DOMAIN r : j \in DOMAIN q \/ Origin(p, r, k, j, a)
  PROVE  Settling(p, a + 1, r, k, gone)
<1>1. k[1] = 1 /\ 1 \notin gone
  <2>1. 1 \in 1 .. a
    OBVIOUS
  <2> QED BY <2>1 DEF Settling, AsFar
<1>2. ASSUME NEW i \in 1 .. (a + 1) - 1 PROVE SettledAt(p, r, k, gone, i)
  <2>1. CASE i = a
    BY <2>1
  <2>2. CASE i # a
    <3>1. i \in 1 .. a - 1 /\ i \in 1 .. a /\ i + 1 \in 1 .. a
      BY <2>2
    <3>2. SettledAt(p, q, h, dead, i)
      BY <3>1 DEF Settling
    <3>3. k[i] = h[i] /\ k[i + 1] = h[i + 1] /\ (i \in gone <=> i \in dead) /\ (i + 1 \in gone <=> i + 1 \in dead)
      BY <3>1 DEF AsFar
    <3>4. (Dies(p, gone, i) <=> Dies(p, dead, i)) /\ (Drops(k, i) <=> Drops(h, i))
      BY <3>3 DEF Dies, Drops
    <3>5. \A x : Puts(q, h, i, x) => Puts(r, k, i, x)
      BY <3>3 DEF Puts, Longer
    <3> QED BY <3>2, <3>3, <3>4, <3>5 DEF SettledAt
  <2> QED BY <2>1, <2>2
<1>3. ASSUME NEW j \in DOMAIN r PROVE \E i \in 1 .. (a + 1) - 1 : Origin(p, r, k, j, i)
  <2>0. a \in 1 .. (a + 1) - 1
    OBVIOUS
  <2>1. CASE Origin(p, r, k, j, a)
    BY <2>0, <2>1
  <2>2. CASE j \in DOMAIN q
    <3>1. PICK i \in 1 .. a - 1 : Origin(p, q, h, j, i)
      BY <2>2 DEF Settling
    <3>2. i \in 1 .. a /\ i \in 1 .. (a + 1) - 1
      OBVIOUS
    <3>3. Origin(p, r, k, j, i)
      BY <2>2, <3>1, <3>2 DEF Origin, AsFar, Longer
    <3> QED BY <3>2, <3>3
  <2> QED BY <2>1, <2>2
<1>4. QED
  BY <1>1, <1>2, <1>3 DEF Settling


SettledTo(p, a, q, ends) == \E h, dead : Settling(p, a, q, h, dead) /\ (a \in dead <=> ends)

(* A turn that keeps nothing.                                              *)
LEMMA SettlesDrop ==
  ASSUME NEW p, NEW a \in Nat \ {0}, NEW q, NEW was \in BOOLEAN, SettledTo(p, a, q, was), NEW ends \in BOOLEAN,
         \/ was /\ p[a].op # "label" /\ ends
         \/ ~(was /\ p[a].op # "label") /\ p[a].op = "branch" /\ p[a].cond = "other" /\ ~ends
  PROVE  SettledTo(p, a + 1, q, ends)
<1>0. PICK h, dead : Settling(p, a, q, h, dead) /\ (a \in dead <=> was)
  BY DEF SettledTo
<1> DEFINE k == [i \in 1 .. a + 1 |-> IF i <= a THEN h[i] ELSE Len(q) + 1]
           gone == {i \in 1 .. a : i \in dead} \cup (IF ends THEN {a + 1} ELSE {})
<1>1. k[a + 1] = Len(q) + 1 /\ (a + 1 \in gone <=> ends) /\ k[a] = h[a] /\ (a \in gone <=> a \in dead)
  OBVIOUS
<1>2. AsFar(a, h, dead, k, gone)
  BY DEF AsFar
<1>3. h[a] = Len(q) + 1
  BY <1>0 DEF Settling
<1> HIDE DEF k, gone
<1>4. SettledAt(p, q, k, gone, a)
  BY <1>0, <1>1, <1>3 DEF SettledAt, Dies, Drops
<1>5. Longer(q, q)
  BY DEF Longer
<1>6. Settling(p, a + 1, q, k, gone)
  BY <1>0, <1>1, <1>2, <1>4, <1>5, SettlingOn
<1>7. QED
  BY <1>1, <1>6 DEF SettledTo

(* A sequence with one more at its end.                                    *)
LEMMA AddedTo ==
  ASSUME NEW q, Sequence(q), NEW x
  PROVE  /\ q \o <<x>> = Append(q, x) /\ Sequence(Append(q, x))
         /\ Len(q) \in Nat /\ Len(Append(q, x)) = Len(q) + 1
         /\ DOMAIN q = 1 .. Len(q) /\ DOMAIN Append(q, x) = 1 .. Len(q) + 1
         /\ Len(q) + 1 \in DOMAIN Append(q, x) /\ Append(q, x)[Len(q) + 1] = x
         /\ Longer(q, Append(q, x))
<1>1. PICK S : q \in Seq(S)
  BY DEF Sequence
<1>2. q \in Seq(S \cup {x}) /\ x \in S \cup {x}
  BY <1>1
<1> DEFINE T == S \cup {x}
<1> HIDE DEF T
<1>3. q \in Seq(T) /\ x \in T
  BY <1>2 DEF T
<1>4. QED
  BY <1>3 DEF Sequence, Longer

(* A turn that keeps the operation, or the jump a branch comes to.         *)
LEMMA SettlesKeep ==
  ASSUME NEW p, NEW a \in Nat \ {0}, NEW q, Sequence(q), NEW was \in BOOLEAN, SettledTo(p, a, q, was),
         NEW ends \in BOOLEAN, ~(was /\ p[a].op # "label"), NEW x,
         \/ p[a].op = "branch" /\ p[a].cond = "zero" /\ x = Pass!Jump(p[a].target) /\ ends
         \/ (p[a].op = "branch" => p[a].cond = "unknown") /\ x = p[a] /\ (ends <=> p[a].op = "jump")
  PROVE  SettledTo(p, a + 1, Append(q, x), ends)
<1>9. PICK h, dead : Settling(p, a, q, h, dead) /\ (a \in dead <=> was)
  BY DEF SettledTo
<1> DEFINE r == Append(q, x)
<1>0. /\ Len(q) \in Nat /\ Len(r) = Len(q) + 1 /\ DOMAIN q = 1 .. Len(q) /\ DOMAIN r = 1 .. Len(q) + 1
      /\ Len(q) + 1 \in DOMAIN r /\ r[Len(q) + 1] = x /\ Longer(q, r)
  BY AddedTo
<1> HIDE DEF r
<1> DEFINE k == [i \in 1 .. a + 1 |-> IF i <= a THEN h[i] ELSE Len(r) + 1]
           gone == {i \in 1 .. a : i \in dead} \cup (IF ends THEN {a + 1} ELSE {})
<1>1. k[a + 1] = Len(r) + 1 /\ (a + 1 \in gone <=> ends) /\ k[a] = h[a] /\ (a \in gone <=> a \in dead)
  OBVIOUS
<1>2. AsFar(a, h, dead, k, gone)
  BY DEF AsFar
<1>3. h[a] = Len(q) + 1
  BY <1>9 DEF Settling
<1> HIDE DEF k, gone
<1>4. Puts(r, k, a, x) /\ ~Dies(p, gone, a)
  BY <1>0, <1>1, <1>3, <1>9 DEF Puts, Dies
<1>5. SettledAt(p, r, k, gone, a)
  BY <1>1, <1>4 DEF SettledAt
<1>6. ASSUME NEW j \in DOMAIN r PROVE j \in DOMAIN q \/ Origin(p, r, k, j, a)
  <2>1. j \in DOMAIN q \/ j = Len(q) + 1
    BY <1>0
  <2>2. ASSUME j = Len(q) + 1 PROVE Origin(p, r, k, j, a)
    BY <1>0, <1>1, <1>3, <2>2 DEF Origin
  <2> QED BY <2>1, <2>2
<1>7. Settling(p, a + 1, r, k, gone)
  BY <1>0, <1>1, <1>2, <1>5, <1>6, <1>9, SettlingOn
<1>8. QED
  BY <1>1, <1>7 DEF r, SettledTo

-----------------------------------------------------------------------------
(* One more turn of the loop of optimize.                                  *)
Along(a, g, rest, past, k, left, gone) ==
  \A i \in 1 .. a : k[i] = g[i] /\ left[i] = rest[i] /\ (i \in gone <=> i \in past)

(* A turn leaves alone what was said of the operations before, unless it   *)
(* joins two writes.                                                       *)
LEMMA MergingOn ==
  ASSUME NEW p, NEW a \in Nat \ {0}, NEW q, NEW r, NEW g, NEW rest, NEW past, NEW k, NEW left, NEW gone,
         Merging(p, a, q, g, rest, past), Longer(q, r), Along(a, g, rest, past, k, left, gone),
         left[a + 1] = <<>>, MergedAt(p, r, k, left, gone, a),
         \A j \in DOMAIN r : j \in DOMAIN q \/ (r[j] = p[a] /\ k[a] = j),
         gone # {} => ~Leaping(p)
  PROVE  Merging(p, a + 1, r, k, left, gone)
<1>1. k[1] = 1 /\ left[1] = <<>> /\ 1 \notin gone
  <2>1. 1 \in 1 .. a
    OBVIOUS
  <2> QED BY <2>1 DEF Merging, Along
<1>2. ASSUME NEW i \in 1 .. (a + 1) - 1 PROVE MergedAt(p, r, k, left, gone, i)
  <2>1. CASE i = a
    BY <2>1
  <2>2. CASE i # a
    <3>1. i \in 1 .. a - 1 /\ i \in 1 .. a /\ i + 1 \in 1 .. a
      BY <2>2
    <3>2. MergedAt(p, q, g, rest, past, i)
      BY <3>1 DEF Merging
    <3>3. /\ k[i] = g[i] /\ k[i + 1] = g[i + 1] /\ (i \in gone <=> i \in past) /\ (i + 1 \in gone <=> i + 1 \in past)
          /\ left[i] = rest[i] /\ left[i + 1] = rest[i + 1]
      BY <3>1 DEF Along
    <3>4. Drops(k, i) <=> Drops(g, i)
      BY <3>3 DEF Drops
    <3>5. \A x : Puts(q, g, i, x) => Puts(r, k, i, x) /\ r[k[i]] = q[g[i]]
      BY <3>3 DEF Puts, Longer
    <3> QED BY <3>2, <3>3, <3>4, <3>5 DEF MergedAt
  <2> QED BY <2>1, <2>2
<1>3. ASSUME NEW j \in DOMAIN r, r[j].op = "label" PROVE \E i \in 1 .. (a + 1) - 1 : p[i] = r[j] /\ k[i] = j
  <2>0. a \in 1 .. (a + 1) - 1
    OBVIOUS
  <2>1. CASE r[j] = p[a] /\ k[a] = j
    BY <2>0, <2>1
  <2>2. CASE j \in DOMAIN q
    <3>0. q[j] = r[j]
      BY <2>2 DEF Longer
    <3>1. PICK i \in 1 .. a - 1 : p[i] = q[j] /\ g[i] = j
      BY <1>3, <2>2, <3>0 DEF Merging
    <3>2. i \in 1 .. a /\ i \in 1 .. (a + 1) - 1
      OBVIOUS
    <3>3. p[i] = r[j] /\ k[i] = j
      BY <3>0, <3>1, <3>2 DEF Along
    <3> QED BY <3>2, <3>3
  <2> QED BY <2>1, <2>2
<1>4. ASSUME NEW j \in 1 .. a + 1 PROVE Sequence(left[j])
  <2>1. CASE j = a + 1
    BY <2>1, NothingIsASequence
  <2>2. CASE j # a + 1
    <3>1. j \in 1 .. a
      BY <2>2
    <3> QED BY <3>1 DEF Along, Merging
  <2> QED BY <2>1, <2>2
<1>5. QED
  BY <1>1, <1>2, <1>3, <1>4 DEF Merging

MergedTo(p, a, q, ends) ==
  \E g, rest, past : /\ Merging(p, a, q, g, rest, past)
                     /\ g[a] = Len(q) + 1
                     /\ (a \in past <=> ends)

(* Nothing after nothing is nothing.                                       *)
LEMMA NothingAfterNothing == <<>> \o <<>> = <<>>
  OBVIOUS

(* A turn that keeps nothing: what is behind an exit, or a write of no     *)
(* bytes.                                                                  *)
LEMMA MergesDrop ==
  ASSUME NEW p, NEW a \in Nat \ {0}, NEW q, Sequence(q), NEW ends \in BOOLEAN, MergedTo(p, a, q, ends),
         ends \/ (p[a].op = "write" /\ Shown(p[a]) = <<>>)
  PROVE  MergedTo(p, a + 1, q, ends)
<1>1. PICK g, rest, past : Merging(p, a, q, g, rest, past) /\ g[a] = Len(q) + 1 /\ (a \in past <=> ends)
  BY DEF MergedTo
<1> DEFINE k == [i \in 1 .. a + 1 |-> IF i <= a THEN g[i] ELSE Len(q) + 1]
           left == [i \in 1 .. a + 1 |-> IF i <= a THEN rest[i] ELSE <<>>]
           gone == {i \in 1 .. a : i \in past} \cup (IF ends THEN {a + 1} ELSE {})
<1>2. /\ k[a + 1] = Len(q) + 1 /\ (a + 1 \in gone <=> ends) /\ k[a] = g[a] /\ (a \in gone <=> a \in past)
      /\ left[a] = rest[a] /\ left[a + 1] = <<>>
  OBVIOUS
<1>3. Along(a, g, rest, past, k, left, gone)
  BY DEF Along
<1>4. gone # {} => ~Leaping(p)
  <2>1. gone # {} => past # {}
    BY <1>1
  <2> QED BY <1>1, <2>1 DEF Merging
<1> HIDE DEF k, left, gone
<1>5. rest[a] = <<>>
  BY <1>1 DEF Merging
<1>6. MergedAt(p, q, k, left, gone, a)
  <2>1. CASE ends
    BY <1>1, <1>2, <2>1 DEF MergedAt
  <2>2. CASE ~ends
    BY <1>1, <1>2, <1>5, <2>2, NothingAfterNothing DEF MergedAt, Drops
  <2> QED BY <2>1, <2>2
<1>7. Longer(q, q)
  BY DEF Longer
<1>8. Merging(p, a + 1, q, k, left, gone)
  BY <1>1, <1>2, <1>3, <1>4, <1>6, <1>7, MergingOn
<1>9. QED
  BY <1>2, <1>8 DEF MergedTo

(* A turn that keeps the operation.                                        *)
LEMMA MergesKeep ==
  ASSUME NEW p, NEW a \in Nat \ {0}, NEW q, Sequence(q), MergedTo(p, a, q, FALSE), NEW ends \in BOOLEAN,
         ends => p[a].op = "exit" /\ ~Leaping(p),
         p[a].op = "write" => Sequence(p[a].data)
  PROVE  MergedTo(p, a + 1, Append(q, p[a]), ends)
<1> DEFINE r == Append(q, p[a])
<1>0. /\ Len(q) \in Nat /\ Len(r) = Len(q) + 1 /\ DOMAIN q = 1 .. Len(q) /\ DOMAIN r = 1 .. Len(q) + 1
      /\ Len(q) + 1 \in DOMAIN r /\ r[Len(q) + 1] = p[a] /\ Longer(q, r)
  BY AddedTo
<1> HIDE DEF r
<1>1. PICK g, rest, past : Merging(p, a, q, g, rest, past) /\ g[a] = Len(q) + 1 /\ a \notin past
  BY DEF MergedTo
<1> DEFINE k == [i \in 1 .. a + 1 |-> IF i <= a THEN g[i] ELSE Len(r) + 1]
           left == [i \in 1 .. a + 1 |-> IF i <= a THEN rest[i] ELSE <<>>]
           gone == {i \in 1 .. a : i \in past} \cup (IF ends THEN {a + 1} ELSE {})
<1>2. /\ k[a + 1] = Len(r) + 1 /\ (a + 1 \in gone <=> ends) /\ k[a] = g[a] /\ (a \in gone <=> a \in past)
      /\ left[a] = rest[a] /\ left[a + 1] = <<>>
  OBVIOUS
<1>3. Along(a, g, rest, past, k, left, gone)
  BY DEF Along
<1>4. gone # {} => ~Leaping(p)
  <2>1. gone # {} => past # {} \/ ends
    OBVIOUS
  <2> QED BY <1>1, <2>1 DEF Merging
<1> HIDE DEF k, left, gone
<1>5. rest[a] = <<>>
  BY <1>1 DEF Merging
<1>6. Puts(r, k, a, p[a]) /\ r[k[a]] = p[a]
  BY <1>0, <1>1, <1>2 DEF Puts
<1>7. MergedAt(p, r, k, left, gone, a)
  <2>1. CASE p[a].op = "write"
    <3>1. Sequence(Shown(p[a]))
      BY <2>1, ShownIs
    <3>2. Shown(p[a]) \o <<>> = Shown(p[a])
      BY <3>1, Joined, NothingIsASequence
    <3>3. ~ends
      BY <2>1
    <3> QED BY <1>1, <1>2, <1>5, <1>6, <2>1, <3>2, <3>3 DEF MergedAt
  <2>2. CASE p[a].op # "write"
    BY <1>1, <1>2, <1>5, <1>6, <2>2 DEF MergedAt
  <2> QED BY <2>1, <2>2
<1>8. \A j \in DOMAIN r : j \in DOMAIN q \/ (r[j] = p[a] /\ k[a] = j)
  BY <1>0, <1>1, <1>2
<1>9. Merging(p, a + 1, r, k, left, gone)
  BY <1>0, <1>1, <1>2, <1>3, <1>4, <1>7, <1>8, MergingOn
<1>10. QED
  BY <1>2, <1>9 DEF MergedTo, r

(* A function on 1 .. n is a sequence.                                     *)
LEMMA FunctionIsSequence ==
  ASSUME NEW T, NEW n \in Nat, NEW f \in [1 .. n -> T]
  PROVE  f \in Seq(T) /\ Len(f) = n
  OBVIOUS

(* What is where in two sequences joined.                                  *)
LEMMA JoinIs ==
  ASSUME NEW T, NEW f \in Seq(T), NEW g \in Seq(T), NEW m, NEW n, m = Len(f), n = Len(g)
  PROVE  /\ f \o g \in Seq(T) /\ Len(f \o g) = m + n
         /\ \A i \in 1 .. m : (f \o g)[i] = f[i]
         /\ \A i \in m + 1 .. m + n : (f \o g)[i] = g[i - m]
  OBVIOUS

(* What two writes to one place show, their join shows.                    *)
LEMMA JoinShows ==
  ASSUME NEW x, NEW y, x.op = "write", y.op = "write", x.fd = y.fd, Sequence(x.data), Sequence(y.data)
  PROVE  Shown(Pass!Write(y.fd, x.data \o y.data)) = Shown(x) \o Shown(y)
<1> DEFINE fd == y.fd
           w == Pass!Write(fd, x.data \o y.data)
<1>1. PICK S : x.data \in Seq(S)
  BY DEF Sequence
<1>2. PICK U : y.data \in Seq(U)
  BY DEF Sequence
<1> DEFINE V == S \cup U
           T == {<<fd, v>> : v \in V}
           a == x.data
           b == y.data
           c == a \o b
           f == Shown(x)
           g == Shown(y)
<1>3. a \in Seq(V) /\ b \in Seq(V)
  BY <1>1, <1>2
<1>4. w.op = "write" /\ w.fd = fd /\ w.data = c
  BY DEF Pass!Write
<1>5. Shown(w) = [i \in DOMAIN c |-> <<fd, c[i]>>] /\ f = [i \in DOMAIN a |-> <<fd, a[i]>>] /\ g = [i \in DOMAIN b |-> <<fd, b[i]>>]
  <2> HIDE DEF w
  <2>1. w.op # "effect" /\ x.op # "effect" /\ y.op # "effect"
    BY <1>4
  <2> QED BY <1>4, <2>1 DEF Shown
<1> HIDE DEF w, a, b, f, g, V
<1>6. /\ Len(a) \in Nat /\ Len(b) \in Nat /\ DOMAIN a = 1 .. Len(a) /\ DOMAIN b = 1 .. Len(b)
      /\ c \in Seq(V) /\ DOMAIN c = 1 .. Len(a) + Len(b)
      /\ \A i \in 1 .. Len(a) : a[i] \in V /\ c[i] = a[i]
      /\ \A i \in 1 .. Len(b) : b[i] \in V
      /\ \A i \in Len(a) + 1 .. Len(a) + Len(b) : c[i] = b[i - Len(a)] /\ i - Len(a) \in 1 .. Len(b)
  BY <1>3
<1>7. f \in [1 .. Len(a) -> T] /\ g \in [1 .. Len(b) -> T]
  BY <1>5, <1>6
<1>8. f \in Seq(T) /\ g \in Seq(T) /\ Len(f) = Len(a) /\ Len(g) = Len(b)
  <2> HIDE DEF T
  <2> QED BY <1>6, <1>7, FunctionIsSequence
<1>9. /\ f \o g = [i \in 1 .. Len(a) + Len(b) |-> (f \o g)[i]]
      /\ \A i \in 1 .. Len(a) : (f \o g)[i] = f[i]
      /\ \A i \in Len(a) + 1 .. Len(a) + Len(b) : (f \o g)[i] = g[i - Len(a)]
  <2> HIDE DEF T
  <2> DEFINE m == Len(a)
             l == Len(b)
  <2>1. f \in Seq(T) /\ g \in Seq(T) /\ m = Len(f) /\ l = Len(g)
    BY <1>8
  <2> HIDE DEF m, l, c, fd
  <2>2. /\ f \o g \in Seq(T) /\ Len(f \o g) = m + l
        /\ \A i \in 1 .. m : (f \o g)[i] = f[i]
        /\ \A i \in m + 1 .. m + l : (f \o g)[i] = g[i - m]
    BY <2>1, JoinIs
  <2> DEFINE s == f \o g
  <2>3. s \in Seq(T) /\ Len(s) = m + l
    BY <2>2
  <2> HIDE DEF s
  <2>4. s = [i \in 1 .. m + l |-> s[i]]
    BY <2>3
  <2> QED BY <2>2, <2>4 DEF m, l, s
<1>10. ASSUME NEW i \in 1 .. Len(a) + Len(b) PROVE (f \o g)[i] = <<fd, c[i]>>
  <2> HIDE DEF fd, c
  <2>1. CASE i \in 1 .. Len(a)
    BY <1>5, <1>6, <1>9, <2>1
  <2>2. CASE i \notin 1 .. Len(a)
    <3>1. i \in Len(a) + 1 .. Len(a) + Len(b)
      BY <1>6, <2>2
    <3>2. i - Len(a) \in DOMAIN b /\ c[i] = b[i - Len(a)]
      BY <1>6, <3>1
    <3>3. g[i - Len(a)] = <<fd, b[i - Len(a)]>>
      BY <1>5, <3>2
    <3> QED BY <1>9, <3>1, <3>2, <3>3
  <2> QED BY <2>1, <2>2
<1>11. f \o g = [i \in 1 .. Len(a) + Len(b) |-> <<fd, c[i]>>]
  <2> HIDE DEF fd, c
  <2> QED BY <1>9, <1>10
<1>12. Shown(w) = f \o g
  <2> HIDE DEF fd, c
  <2> QED BY <1>5, <1>6, <1>11
<1>13. QED
  BY <1>12 DEF w, f, g, a, b

(* A write joined to the one before it.                                    *)
JoinedAt(p, a, q, r) ==
  /\ Sequence(r) /\ Len(r) = Len(q) /\ DOMAIN r = DOMAIN q /\ q # <<>>
  /\ \A j \in DOMAIN q : j # Len(q) => r[j] = q[j]
  /\ p[a].op = "write" /\ q[Len(q)].op = "write" /\ r[Len(q)].op = "write"
  /\ Shown(r[Len(q)]) = Shown(q[Len(q)]) \o Shown(p[a])
  /\ \A j \in 1 .. a : Sequence(Shown(p[j]))

(* A turn that joins: what was owed up to the end of what is kept grows by *)
(* what is joined.                                                         *)
LEMMA MergesJoin ==
  ASSUME NEW p, NEW a \in Nat \ {0}, NEW q, Sequence(q), MergedTo(p, a, q, FALSE),
         NEW r, JoinedAt(p, a, q, r)
  PROVE  MergedTo(p, a + 1, r, FALSE)
<1> DEFINE n == Len(q)
           w == Shown(p[a])
<1>0. n \in Nat /\ n # 0 /\ DOMAIN q = 1 .. n /\ n \in DOMAIN q
  <2>1. PICK S : q \in Seq(S)
    BY DEF Sequence
  <2> QED BY <2>1 DEF JoinedAt
<1>1. PICK g, rest, past : Merging(p, a, q, g, rest, past) /\ g[a] = n + 1 /\ a \notin past
  BY DEF MergedTo
<1>8. Sequence(w)
  <2>1. a \in 1 .. a
    OBVIOUS
  <2> QED BY <2>1 DEF JoinedAt
<1>15. /\ Len(r) = n /\ DOMAIN r = DOMAIN q /\ \A j \in DOMAIN q : j # n => r[j] = q[j]
       /\ p[a].op = "write" /\ q[n].op = "write" /\ r[n].op = "write"
       /\ Shown(r[n]) = Shown(q[n]) \o w
       /\ \A j \in 1 .. a : Sequence(Shown(p[j]))
  BY DEF JoinedAt
<1> HIDE DEF n, w
<1> DEFINE k == [i \in 1 .. a + 1 |-> IF i <= a THEN g[i] ELSE n + 1]
           left == [i \in 1 .. a + 1 |-> IF i <= a THEN (IF g[i] = n + 1 THEN rest[i] \o w ELSE rest[i]) ELSE <<>>]
           gone == {i \in 1 .. a : i \in past}
<1>2. k[a + 1] = n + 1 /\ a + 1 \notin gone /\ left[a + 1] = <<>>
  OBVIOUS
<1>3. \A i \in 1 .. a : k[i] = g[i] /\ (i \in gone <=> i \in past)
  OBVIOUS
<1>4. \A i \in 1 .. a : /\ g[i] = n + 1 => left[i] = rest[i] \o w
                        /\ g[i] # n + 1 => left[i] = rest[i]
  OBVIOUS
<1>5. gone # {} => ~Leaping(p)
  <2>1. gone # {} => past # {}
    OBVIOUS
  <2> QED BY <1>1, <2>1 DEF Merging
<1> HIDE DEF k, left, gone
<1>6. g[1] = 1 /\ rest[1] = <<>> /\ 1 \notin past /\ rest[a] = <<>> /\ \A j \in 1 .. a : Sequence(rest[j])
  BY <1>1 DEF Merging
<1>7. k[1] = 1 /\ left[1] = <<>> /\ 1 \notin gone
  <2>1. 1 \in 1 .. a /\ g[1] # n + 1
    BY <1>0, <1>6
  <2> QED BY <1>3, <1>4, <1>6, <2>1
<1>9. ASSUME NEW i \in 1 .. a PROVE Sequence(left[i])
  <2>1. Sequence(rest[i])
    BY <1>6
  <2>2. Sequence(rest[i] \o w)
    BY <1>8, <2>1, Joined
  <2>3. left[i] = rest[i] \/ left[i] = rest[i] \o w
    BY <1>4
  <2> QED BY <2>1, <2>2, <2>3
<1>10. ASSUME NEW i \in 1 .. (a + 1) - 1 PROVE MergedAt(p, r, k, left, gone, i)
  <2>1. CASE i = a
    <3>1. a \in 1 .. a
      OBVIOUS
    <3>2. left[a] = <<>> \o w /\ <<>> \o w = w /\ w \o <<>> = w
      BY <1>1, <1>4, <1>6, <1>8, <3>1, Joined, NothingIsASequence
    <3>3. Drops(k, a) /\ a \notin gone
      BY <1>1, <1>2, <1>3, <3>1 DEF Drops
    <3>4. left[a] = w \o left[a + 1]
      BY <1>2, <3>2
    <3> QED BY <1>2, <1>15, <2>1, <3>3, <3>4 DEF MergedAt, w
  <2>2. CASE i # a
    <3>1. i \in 1 .. a - 1 /\ i \in 1 .. a /\ i + 1 \in 1 .. a
      BY <2>2
    <3>2. MergedAt(p, q, g, rest, past, i)
      BY <1>1, <3>1 DEF Merging
    <3>3. k[i] = g[i] /\ k[i + 1] = g[i + 1] /\ (i \in gone <=> i \in past) /\ (i + 1 \in gone <=> i + 1 \in past)
      BY <1>3, <3>1
    <3>4. Sequence(rest[i + 1]) /\ Sequence(Shown(p[i])) /\ Sequence(rest[i])
      BY <1>6, <1>15, <3>1
    <3>5. (Shown(p[i]) \o rest[i + 1]) \o w = Shown(p[i]) \o (rest[i + 1] \o w)
      <4> DEFINE x == Shown(p[i])
                 y == rest[i + 1]
      <4> HIDE DEF x, y
      <4>1. Sequence(x) /\ Sequence(y)
        BY <3>4 DEF x, y
      <4>2. Sequence(w)
        BY <1>8
      <4>3. (x \o y) \o w = x \o (y \o w)
        BY <4>1, <4>2, JoinedTwice
      <4> QED BY <4>3 DEF x, y
    <3>6. /\ g[i] = n + 1 => left[i] = rest[i] \o w
          /\ g[i] # n + 1 => left[i] = rest[i]
          /\ g[i + 1] = n + 1 => left[i + 1] = rest[i + 1] \o w
          /\ g[i + 1] # n + 1 => left[i + 1] = rest[i + 1]
      BY <1>4, <3>1
    <3>7. CASE i \in past /\ i + 1 \in past
      BY <3>3, <3>7 DEF MergedAt
    <3>8. CASE /\ i \notin past /\ i + 1 \notin past /\ p[i].op = "write"
               /\ Drops(g, i) /\ rest[i] = Shown(p[i]) \o rest[i + 1]
      <4>1. Drops(k, i) /\ g[i + 1] = g[i]
        BY <3>3, <3>8 DEF Drops
      <4>2. left[i] = Shown(p[i]) \o left[i + 1]
        BY <3>5, <3>6, <3>8, <4>1
      <4> QED BY <3>3, <3>8, <4>1, <4>2 DEF MergedAt
    <3>9. CASE /\ i \notin past /\ i + 1 \notin past /\ p[i].op = "write"
               /\ Puts(q, g, i, q[g[i]]) /\ q[g[i]].op = "write"
               /\ Shown(q[g[i]]) = Shown(p[i]) \o rest[i + 1] /\ rest[i] = <<>>
      <4>1. g[i] \in 1 .. n /\ g[i] # n + 1 /\ g[i + 1] = g[i] + 1 /\ g[i] \in DOMAIN q
        BY <1>0, <3>9 DEF Puts
      <4>2. Puts(r, k, i, r[k[i]]) /\ left[i] = <<>>
        BY <1>15, <3>3, <3>6, <3>9, <4>1 DEF Puts
      <4>3. r[k[i]].op = "write" /\ Shown(r[k[i]]) = Shown(p[i]) \o left[i + 1]
        <5>1. CASE g[i] = n
          <6>1. g[i + 1] = n + 1 /\ k[i] = n
            BY <3>3, <4>1, <5>1
          <6>2. Shown(r[n]) = Shown(q[n]) \o w /\ r[n].op = "write"
            BY <1>15
          <6>3. Shown(q[n]) = Shown(p[i]) \o rest[i + 1]
            BY <3>9, <5>1
          <6>4. left[i + 1] = rest[i + 1] \o w
            BY <3>6, <6>1
          <6>5. Shown(r[n]) = Shown(p[i]) \o left[i + 1]
            BY <3>5, <6>2, <6>3, <6>4
          <6> QED BY <6>1, <6>2, <6>5
        <5>2. CASE g[i] # n
          <6>1. r[g[i]] = q[g[i]]
            BY <1>15, <4>1, <5>2
          <6>2. g[i + 1] # n + 1
            BY <1>0, <4>1, <5>2
          <6> QED BY <3>3, <3>6, <3>9, <6>1, <6>2
        <5> QED BY <5>1, <5>2
      <4> QED BY <3>3, <3>9, <4>2, <4>3 DEF MergedAt
    <3>10. CASE /\ i \notin past /\ p[i].op # "write"
                /\ Puts(q, g, i, p[i]) /\ rest[i] = <<>> /\ rest[i + 1] = <<>>
                /\ i + 1 \in past => p[i].op = "exit"
      <4>1. g[i] \in 1 .. n /\ q[g[i]] = p[i] /\ g[i + 1] = g[i] + 1 /\ g[i] \in DOMAIN q
        BY <1>0, <3>10 DEF Puts
      <4>2. g[i] # n
        BY <1>15, <3>10, <4>1
      <4>3. r[g[i]] = q[g[i]]
        BY <1>15, <4>1, <4>2
      <4>4. g[i] # n + 1 /\ g[i + 1] # n + 1
        BY <1>0, <4>1, <4>2
      <4>5. Puts(r, k, i, p[i]) /\ left[i] = <<>> /\ left[i + 1] = <<>>
        BY <1>15, <3>3, <3>6, <3>10, <4>1, <4>3, <4>4 DEF Puts
      <4> QED BY <3>3, <3>10, <4>5 DEF MergedAt
    <3> QED BY <3>2, <3>7, <3>8, <3>9, <3>10 DEF MergedAt
  <2> QED BY <2>1, <2>2
<1>11. ASSUME NEW j \in DOMAIN r, r[j].op = "label" PROVE \E i \in 1 .. (a + 1) - 1 : p[i] = r[j] /\ k[i] = j
  <2>1. j # n
    BY <1>11, <1>15
  <2>2. j \in DOMAIN q /\ r[j] = q[j]
    BY <1>15, <2>1
  <2>3. PICK i \in 1 .. a - 1 : p[i] = q[j] /\ g[i] = j
    BY <1>1, <1>11, <2>2 DEF Merging
  <2>4. i \in 1 .. a /\ i \in 1 .. (a + 1) - 1
    OBVIOUS
  <2>5. p[i] = r[j] /\ k[i] = j
    BY <1>3, <2>2, <2>3, <2>4
  <2> QED BY <2>4, <2>5
<1>12. \A j \in 1 .. a + 1 : Sequence(left[j])
  <2> TAKE j \in 1 .. a + 1
  <2>1. CASE j = a + 1
    BY <1>2, <2>1, NothingIsASequence
  <2>2. CASE j # a + 1
    <3>1. j \in 1 .. a
      BY <2>2
    <3> QED BY <1>9, <3>1
  <2> QED BY <2>1, <2>2
<1>13. Merging(p, a + 1, r, k, left, gone)
  BY <1>2, <1>5, <1>7, <1>10, <1>11, <1>12 DEF Merging
<1>14. QED
  <2>1. k[a + 1] = Len(r) + 1
    BY <1>2, <1>15
  <2> QED BY <1>2, <1>13, <2>1 DEF MergedTo

(* The exit that is added, or was there, ends what the loop has kept.      *)
LEMMA MergesClose ==
  ASSUME NEW p, Sequence(p), NEW q, Sequence(q), NEW ends, MergedTo(p, Len(p) + 1, q, ends),
         NEW r, r = q \/ (r = Append(q, Pass!Exit))
  PROVE  \E g, rest, past : Merged(p, r, g, rest, past)
<1>1. PICK g, rest, past : Merging(p, Len(p) + 1, q, g, rest, past) /\ g[Len(p) + 1] = Len(q) + 1
  BY DEF MergedTo
<1>0. Len(q) \in Nat /\ DOMAIN q = 1 .. Len(q) /\ Len(p) \in Nat
  BY SizeOf
<1>2. Longer(q, r) /\ \A j \in DOMAIN r : j \in DOMAIN q \/ (j = Len(q) + 1 /\ r[j] = Pass!Exit)
  <2>1. CASE r = q
    BY <2>1 DEF Longer
  <2>2. CASE r = Append(q, Pass!Exit)
    BY <2>2, AddedTo, <1>0
  <2> QED BY <2>1, <2>2
<1>3. ASSUME NEW i \in 1 .. (Len(p) + 1) - 1 PROVE MergedAt(p, r, g, rest, past, i)
  <2>1. MergedAt(p, q, g, rest, past, i)
    BY <1>1 DEF Merging
  <2>2. \A x : Puts(q, g, i, x) => Puts(r, g, i, x) /\ r[g[i]] = q[g[i]]
    BY <1>2 DEF Puts, Longer
  <2> QED BY <2>1, <2>2 DEF MergedAt
<1>4. ASSUME NEW j \in DOMAIN r, r[j].op = "label" PROVE \E i \in 1 .. (Len(p) + 1) - 1 : p[i] = r[j] /\ g[i] = j
  <2>1. r[j] # Pass!Exit
    BY <1>4 DEF Pass!Exit
  <2>2. j \in DOMAIN q /\ r[j] = q[j]
    BY <1>2, <2>1 DEF Longer
  <2> QED BY <1>1, <1>4, <2>2 DEF Merging
<1>5. Merging(p, Len(p) + 1, r, g, rest, past)
  BY <1>1, <1>3, <1>4 DEF Merging
<1>6. g[Len(p) + 1] \in DOMAIN r => r[g[Len(p) + 1]].op = "exit"
  BY <1>0, <1>1, <1>2 DEF Pass!Exit
<1>7. QED
  BY <1>5, <1>6 DEF Merged

-----------------------------------------------------------------------------
(* What holds while the passes run.                                        *)
WholeSettled(p, q) == \E h, dead : Settling(p, Len(p) + 1, q, h, dead)
WholeMerged(p, q)  == \E g, rest, past : Merged(p, q, g, rest, past)

PassHolds ==
  /\ Tidy(source) /\ Landing(source) /\ Tidy(settled) /\ Tidy(optimized)
  /\ unreachable \in BOOLEAN /\ terminated \in BOOLEAN
  /\ phase \in {"settle", "merge", "close", "done"}
  /\ phase = "settle" => /\ at \in 1 .. Len(source) + 1
                         /\ SettledTo(source, at, settled, unreachable)
                         /\ optimized = <<>> /\ ~terminated
  /\ phase # "settle" => WholeSettled(source, settled)
  /\ phase \in {"merge", "close"} => /\ at \in 1 .. Len(settled) + 1
                                     /\ MergedTo(settled, at, optimized, terminated)
  /\ phase = "close" => at = Len(settled) + 1
  /\ phase = "done" => WholeMerged(settled, optimized)

(* The program of no operations.                                           *)
LEMMA NothingIsTidy == Tidy(<<>>)
<1>1. \A i \in DOMAIN <<>> : FALSE
  OBVIOUS
<1>2. QED
  BY <1>1, NothingIsASequence DEF Tidy

(* _settle_branches, before its first turn.                                *)
LEMMA SettledToStart ==
  ASSUME NEW p
  PROVE  SettledTo(p, 1, <<>>, FALSE)
<1> DEFINE h == [i \in 1 .. 1 |-> 1]
<1>1. h[1] = 1 /\ Len(<<>>) = 0 /\ (\A j \in DOMAIN <<>> : FALSE) /\ (\A i \in 1 .. 1 - 1 : FALSE)
  OBVIOUS
<1> HIDE DEF h
<1>2. Settling(p, 1, <<>>, h, {})
  BY <1>1 DEF Settling
<1>3. QED
  BY <1>2 DEF SettledTo

(* The loop of optimize, before its first turn.                            *)
LEMMA MergedToStart ==
  ASSUME NEW p
  PROVE  MergedTo(p, 1, <<>>, FALSE)
<1> DEFINE g == [i \in 1 .. 1 |-> 1]
           rest == [i \in 1 .. 1 |-> <<>>]
<1>1. /\ g[1] = 1 /\ Len(<<>>) = 0 /\ (\A j \in DOMAIN <<>> : FALSE) /\ (\A i \in 1 .. 1 - 1 : FALSE)
      /\ rest[1] = <<>> /\ (\A i \in 1 .. 1 : rest[i] = <<>>)
  OBVIOUS
<1> HIDE DEF g, rest
<1>2. Merging(p, 1, <<>>, g, rest, {})
  BY <1>1, NothingIsASequence DEF Merging
<1>3. QED
  BY <1>1, <1>2 DEF MergedTo

(* An operation is kept.                                                   *)
LEMMA AddedTidy ==
  ASSUME NEW q, Tidy(q), NEW x, x.op = "write" => Sequence(x.data)
  PROVE  Tidy(Append(q, x)) /\ q \o <<x>> = Append(q, x) /\ q \o <<>> = q
<1>0. Sequence(q)
  BY DEF Tidy
<1> DEFINE r == Append(q, x)
<1>1. /\ q \o <<x>> = r /\ Sequence(r) /\ Longer(q, r) /\ Len(q) \in Nat
      /\ DOMAIN q = 1 .. Len(q) /\ DOMAIN r = 1 .. Len(q) + 1 /\ r[Len(q) + 1] = x
  BY <1>0, AddedTo
<1> HIDE DEF r
<1>2. ASSUME NEW i \in DOMAIN r PROVE r[i] = x \/ (i \in DOMAIN q /\ r[i] = q[i])
  BY <1>1 DEF Longer
<1>3. Tidy(r)
  BY <1>1, <1>2 DEF Tidy
<1>4. q \o <<>> = q
  BY <1>0, Joined, NothingIsASequence
<1>5. QED
  BY <1>1, <1>3, <1>4 DEF r

(* What a program may be, which is what the assumptions say.               *)
LEMMA SourceStands ==
  ASSUME NEW p \in Programs
  PROVE  Tidy(p) /\ Landing(p)
<1>1. p \in Seq(Operations) /\ Pass!WellFormed(p) /\ \A i, j \in DOMAIN p : p[i].op = "label" /\ p[j] = p[i] => i = j
  BY LabelsAssumption
<1>2. \A i \in DOMAIN p : p[i] \in Operations
  BY <1>1
<1>3. Tidy(p)
  BY <1>1, <1>2, OperationsAssumption DEF Tidy, Sequence
<1>4. ASSUME NEW i \in DOMAIN p, p[i].op \in Pass!Leaps
      PROVE  \E j \in DOMAIN p : OnlyAt(p, j, Pass!Label(p[i].target))
  <2> DEFINE l == p[i].target
  <2>1. l \in Pass!Targets(p)
    BY <1>4 DEF Pass!Targets
  <2>2. l \in Pass!Labels(p)
    BY <1>1, <2>1 DEF Pass!WellFormed
  <2>3. PICK j \in DOMAIN p : p[j].op = "label" /\ p[j].name = l
    BY <2>2 DEF Pass!Labels
  <2>4. p[j] = Pass!Label(l)
    BY <1>2, <2>3, OperationsAssumption
  <2> HIDE DEF l
  <2>5. OnlyAt(p, j, Pass!Label(l))
    BY <1>1, <2>3, <2>4 DEF OnlyAt
  <2> QED BY <2>5 DEF l
<1>5. QED
  BY <1>3, <1>4 DEF Landing

(* It holds at first,                                                      *)
LEMMA PassStarts ==
  ASSUME Pass!Init
  PROVE  PassHolds
<1>1. /\ source \in Programs /\ phase = "settle" /\ at = 1 /\ settled = <<>> /\ ~unreachable
      /\ unreachable = FALSE /\ optimized = <<>> /\ terminated = FALSE
  BY DEF Pass!Init
<1>2. Tidy(source) /\ Landing(source)
  BY <1>1, SourceStands
<1>3. at \in 1 .. Len(source) + 1
  BY <1>1, <1>2, SizeOf DEF Tidy
<1>4. SettledTo(source, at, settled, unreachable)
  BY <1>1, SettledToStart
<1>5. QED
  BY <1>1, <1>2, <1>3, <1>4, NothingIsTidy DEF PassHolds

-----------------------------------------------------------------------------
(* and after a turn of _settle_branches,                                   *)
LEMMA SettleStep ==
  ASSUME PassHolds, Pass!Looking, UNCHANGED <<source, phase, optimized, terminated>>, at' = at + 1,
         unreachable' \in BOOLEAN, Tidy(settled'), SettledTo(source, at + 1, settled', unreachable')
  PROVE  PassHolds'
<1>1. /\ phase = "settle" /\ phase' = "settle" /\ Tidy(source) /\ Landing(source) /\ source' = source
      /\ Tidy(optimized) /\ optimized' = optimized /\ terminated' = terminated /\ terminated \in BOOLEAN
      /\ optimized = <<>> /\ ~terminated /\ at \in 1 .. Len(source) + 1 /\ at <= Len(source) /\ at' = at + 1
  BY DEF PassHolds, Pass!Looking
<1>2. at' \in 1 .. Len(source') + 1
  BY <1>1, SizeOf DEF Tidy
<1>3. SettledTo(source', at', settled', unreachable')
  BY <1>1
<1>4. QED
  BY <1>1, <1>2, <1>3 DEF PassHolds

(* whichever it is;                                                        *)
LEMMA SettleKeeps ==
  ASSUME PassHolds, Pass!SettleDead \/ Pass!SettleBranch \/ Pass!SettleOther
  PROVE  PassHolds'
<1> DEFINE It == source[at]
<1>1. /\ Pass!Looking /\ phase = "settle" /\ at \in Nat \ {0} /\ at \in DOMAIN source /\ Tidy(settled)
      /\ Sequence(settled) /\ unreachable \in BOOLEAN /\ SettledTo(source, at, settled, unreachable)
      /\ (It.op = "write" => Sequence(It.data))
  <2>1. Pass!Looking
    BY DEF Pass!SettleDead, Pass!SettleBranch, Pass!SettleOther
  <2>2. /\ phase = "settle" /\ Tidy(source) /\ at \in 1 .. Len(source) + 1 /\ at <= Len(source)
        /\ Tidy(settled) /\ unreachable \in BOOLEAN /\ SettledTo(source, at, settled, unreachable)
    BY <2>1 DEF PassHolds, Pass!Looking
  <2>3. at \in Nat \ {0} /\ at \in DOMAIN source
    BY <2>2, SizeOf DEF Tidy
  <2> QED BY <2>1, <2>2, <2>3 DEF Tidy
<1>2. /\ Pass!It = It /\ (Pass!Dead <=> unreachable /\ It.op # "label")
  BY DEF Pass!It, Pass!Dead
<1>3. \A x, e : Pass!Settles(x, e) => /\ settled' = settled \o x /\ unreachable' = e
                                      /\ at' = at + 1 /\ UNCHANGED <<source, phase, optimized, terminated>>
  BY DEF Pass!Settles
<1> HIDE DEF It
<1>4. ASSUME NEW e \in BOOLEAN, Pass!Settles(<<>>, e),
             \/ unreachable /\ It.op # "label" /\ e
             \/ ~(unreachable /\ It.op # "label") /\ It.op = "branch" /\ It.cond = "other" /\ ~e
      PROVE  PassHolds'
  <2>1. settled' = settled
    BY <1>1, <1>3, <1>4, Joined, NothingIsASequence
  <2>2. SettledTo(source, at + 1, settled, e)
    BY <1>1, <1>4, SettlesDrop DEF It
  <2> QED BY <1>1, <1>3, <1>4, <2>1, <2>2, SettleStep
<1>5. ASSUME NEW e \in BOOLEAN, NEW x, Pass!Settles(<<x>>, e), ~(unreachable /\ It.op # "label"),
             \/ It.op = "branch" /\ It.cond = "zero" /\ x = Pass!Jump(It.target) /\ e
             \/ (It.op = "branch" => It.cond = "unknown") /\ x = It /\ (e <=> It.op = "jump")
      PROVE  PassHolds'
  <2>1. x.op = "write" => Sequence(x.data)
    <3>1. CASE x = It
      BY <1>1, <3>1
    <3>2. CASE x # It
      BY <1>5, <3>2 DEF Pass!Jump
    <3> QED BY <3>1, <3>2
  <2>2. settled' = Append(settled, x) /\ Tidy(Append(settled, x))
    BY <1>1, <1>3, <1>5, <2>1, AddedTidy
  <2>3. SettledTo(source, at + 1, Append(settled, x), e)
    BY <1>1, <1>5, SettlesKeep DEF It
  <2> QED BY <1>1, <1>3, <1>5, <2>2, <2>3, SettleStep
<1>6. CASE Pass!SettleDead
  BY <1>2, <1>4, <1>6 DEF Pass!SettleDead
<1>7. CASE Pass!SettleBranch
  <2>1. /\ ~(unreachable /\ It.op # "label") /\ It.op = "branch"
        /\ \/ It.cond = "zero" /\ Pass!Settles(<<Pass!Jump(It.target)>>, TRUE)
           \/ It.cond = "other" /\ Pass!Settles(<<>>, FALSE)
           \/ It.cond = "unknown" /\ Pass!Settles(<<It>>, FALSE)
    BY <1>2, <1>7 DEF Pass!SettleBranch
  <2>2. CASE It.cond = "zero" /\ Pass!Settles(<<Pass!Jump(It.target)>>, TRUE)
    BY <1>5, <2>1, <2>2
  <2>3. CASE It.cond = "other" /\ Pass!Settles(<<>>, FALSE)
    BY <1>4, <2>1, <2>3
  <2>4. CASE It.cond = "unknown" /\ Pass!Settles(<<It>>, FALSE)
    <3>1. ~(It.op = "jump")
      BY <2>1
    <3> QED BY <1>5, <2>1, <2>4, <3>1
  <2> QED BY <2>1, <2>2, <2>3, <2>4
<1>8. CASE Pass!SettleOther
  <2>1. ~(unreachable /\ It.op # "label") /\ It.op # "branch" /\ Pass!Settles(<<It>>, It.op = "jump")
    BY <1>2, <1>8 DEF Pass!SettleOther
  <2>2. (It.op = "jump") \in BOOLEAN
    OBVIOUS
  <2> QED BY <1>5, <2>1, <2>2
<1>9. QED
  BY <1>6, <1>7, <1>8

(* after a turn of the loop of optimize,                                   *)
LEMMA MergeStep ==
  ASSUME PassHolds, Pass!Merging, UNCHANGED <<source, phase, settled, unreachable>>, at' = at + 1,
         terminated' \in BOOLEAN, Tidy(optimized'), MergedTo(settled, at + 1, optimized', terminated')
  PROVE  PassHolds'
<1>1. /\ phase = "merge" /\ phase' = "merge" /\ Tidy(source) /\ Landing(source) /\ source' = source
      /\ Tidy(settled) /\ settled' = settled /\ unreachable' = unreachable /\ unreachable \in BOOLEAN
      /\ WholeSettled(source, settled) /\ at \in 1 .. Len(settled) + 1 /\ at <= Len(settled) /\ at' = at + 1
  BY DEF PassHolds, Pass!Merging
<1>2. at' \in 1 .. Len(settled') + 1
  BY <1>1, SizeOf DEF Tidy
<1>3. MergedTo(settled', at', optimized', terminated') /\ WholeSettled(source', settled')
  BY <1>1
<1>4. QED
  BY <1>1, <1>2, <1>3 DEF PassHolds

(* The last write kept, with what is joined to it.                         *)
LEMMA JoinedTidy ==
  ASSUME NEW p, Tidy(p), NEW a \in DOMAIN p, p[a].op = "write", NEW q, Tidy(q), q # <<>>,
         q[Len(q)].op = "write", q[Len(q)].fd = p[a].fd,
         NEW r, r = [q EXCEPT ![Len(q)] = Pass!Write(p[a].fd, @.data \o p[a].data)]
  PROVE  Tidy(r) /\ JoinedAt(p, a, q, r)
<1> DEFINE n == Len(q)
           x == q[n]
           y == p[a]
           w == Pass!Write(y.fd, x.data \o y.data)
<1>1. PICK S : q \in Seq(S)
  BY DEF Tidy, Sequence
<1>2. n \in Nat /\ n # 0 /\ DOMAIN q = 1 .. n /\ n \in DOMAIN q
  BY <1>1
<1>3. r = [q EXCEPT ![n] = w]
  OBVIOUS
<1> HIDE DEF n, w
<1>4. r \in Seq(S \cup {w}) /\ Len(r) = n /\ DOMAIN r = DOMAIN q
  <2>1. q \in [1 .. n -> S]
    BY <1>1, <1>2 DEF n
  <2> DEFINE T == S \cup {w}
  <2>2. r \in [1 .. n -> T]
    BY <1>3, <2>1
  <2> HIDE DEF T
  <2>3. r \in Seq(T) /\ Len(r) = n
    BY <1>2, <2>2, FunctionIsSequence
  <2> QED BY <1>3, <2>3 DEF T
<1>5. r[n] = w /\ \A j \in DOMAIN q : j # n => r[j] = q[j]
  BY <1>2, <1>3
<1>6. Sequence(x.data) /\ Sequence(y.data) /\ x.op = "write" /\ y.op = "write" /\ x.fd = y.fd
  BY <1>2 DEF Tidy, n
<1>7. w.op = "write" /\ w.data = x.data \o y.data
  BY DEF w, Pass!Write
<1>8. Shown(w) = Shown(x) \o Shown(y)
  <2> HIDE DEF x, y
  <2> QED BY <1>6, JoinShows DEF w
<1>9. Sequence(w.data)
  BY <1>6, <1>7, Joined
<1>10. Tidy(r)
  <2>1. Sequence(r)
    BY <1>4 DEF Sequence
  <2>2. ASSUME NEW j \in DOMAIN r, r[j].op = "write" PROVE Sequence(r[j].data)
    <3>1. CASE j = n
      BY <1>5, <1>9, <3>1
    <3>2. CASE j # n
      BY <1>4, <1>5, <2>2, <3>2 DEF Tidy
    <3> QED BY <3>1, <3>2
  <2> QED BY <2>1, <2>2 DEF Tidy
<1>11. \A j \in 1 .. a : Sequence(Shown(p[j]))
  <2>1. DOMAIN p = 1 .. Len(p) /\ Len(p) \in Nat
    BY SizeOf DEF Tidy
  <2> TAKE j \in 1 .. a
  <2>2. j \in DOMAIN p
    BY <2>1
  <2> QED BY <2>2, ShownIs DEF Tidy
<1>12. JoinedAt(p, a, q, r)
  <2>1. /\ Sequence(r) /\ Len(r) = n /\ DOMAIN r = DOMAIN q
        /\ \A j \in DOMAIN q : j # n => r[j] = q[j]
        /\ r[n].op = "write" /\ Shown(r[n]) = Shown(q[n]) \o Shown(p[a])
    BY <1>4, <1>5, <1>7, <1>8, <1>10 DEF Tidy
  <2> QED BY <1>11, <2>1 DEF JoinedAt, n
<1>13. QED
  BY <1>10, <1>12

(* whichever it is;                                                        *)
LEMMA MergeKeeps ==
  ASSUME PassHolds, Pass!DropTheRest \/ Pass!DropEmptyWrite \/ Pass!MergeWrite \/ Pass!Keep
  PROVE  PassHolds'
<1> DEFINE This == settled[at]
<1>1. /\ Pass!Merging /\ phase = "merge" /\ at \in Nat \ {0} /\ at \in DOMAIN settled /\ Tidy(settled) /\ Tidy(optimized)
      /\ Sequence(optimized) /\ terminated \in BOOLEAN /\ MergedTo(settled, at, optimized, terminated)
      /\ (This.op = "write" => Sequence(This.data))
  <2>1. Pass!Merging
    BY DEF Pass!DropTheRest, Pass!DropEmptyWrite, Pass!MergeWrite, Pass!Keep
  <2>2. /\ phase = "merge" /\ Tidy(settled) /\ at \in 1 .. Len(settled) + 1 /\ at <= Len(settled)
        /\ Tidy(optimized) /\ terminated \in BOOLEAN /\ MergedTo(settled, at, optimized, terminated)
    BY <2>1 DEF PassHolds, Pass!Merging
  <2>3. at \in Nat \ {0} /\ at \in DOMAIN settled
    BY <2>2, SizeOf DEF Tidy
  <2> QED BY <2>1, <2>2, <2>3 DEF Tidy
<1>2. Pass!This = This
  BY DEF Pass!This
<1>3. \A x, e : Pass!Keeps(x, e) => /\ optimized' = x /\ terminated' = e /\ at' = at + 1
                                    /\ UNCHANGED <<source, phase, settled, unreachable>>
  BY DEF Pass!Keeps
<1> HIDE DEF This
<1>4. ASSUME NEW e \in BOOLEAN, NEW x, Pass!Keeps(x, e), Tidy(x), MergedTo(settled, at + 1, x, e)
      PROVE  PassHolds'
  BY <1>1, <1>3, <1>4, MergeStep
<1>5. CASE Pass!DropTheRest
  <2>1. terminated = TRUE /\ Pass!Keeps(optimized, TRUE)
    BY <1>1, <1>5 DEF Pass!DropTheRest
  <2>2. MergedTo(settled, at + 1, optimized, TRUE)
    BY <1>1, <2>1, MergesDrop
  <2> QED BY <1>1, <1>4, <2>1, <2>2
<1>6. CASE Pass!DropEmptyWrite
  <2>1. terminated = FALSE /\ This.op = "write" /\ This.data = <<>> /\ Pass!Keeps(optimized, FALSE)
    BY <1>1, <1>2, <1>6 DEF Pass!DropEmptyWrite
  <2>2. Shown(This) = <<>>
    <3>1. Shown(This) = [i \in DOMAIN <<>> |-> <<This.fd, This.data[i]>>]
      BY <2>1 DEF Shown
    <3>2. \A i : i \notin DOMAIN <<>>
      OBVIOUS
    <3>3. Shown(This) \in Seq({}) /\ Len(Shown(This)) = 0
      <4>1. Shown(This) \in [1 .. 0 -> {}]
        BY <3>1, <3>2
      <4> QED BY <4>1, FunctionIsSequence
    <3> QED BY <3>3
  <2>3. MergedTo(settled, at + 1, optimized, FALSE)
    BY <1>1, <2>1, <2>2, MergesDrop DEF This
  <2> QED BY <1>1, <1>4, <2>1, <2>3
<1>7. CASE Pass!MergeWrite
  <2>1. /\ terminated = FALSE /\ This.op = "write" /\ optimized # <<>>
        /\ optimized[Len(optimized)].op = "write" /\ optimized[Len(optimized)].fd = This.fd
        /\ Pass!Keeps([optimized EXCEPT ![Len(optimized)] = Pass!Write(This.fd, @.data \o This.data)], FALSE)
    BY <1>1, <1>2, <1>7 DEF Pass!MergeWrite, Pass!Joins, Pass!Last
  <2> DEFINE r == [optimized EXCEPT ![Len(optimized)] = Pass!Write(This.fd, @.data \o This.data)]
  <2>2. Pass!Keeps(r, FALSE)
    BY <2>1
  <2>3. r = [optimized EXCEPT ![Len(optimized)] = Pass!Write(settled[at].fd, @.data \o settled[at].data)]
    BY DEF This
  <2> HIDE DEF r
  <2>4. Tidy(r) /\ JoinedAt(settled, at, optimized, r)
    BY <1>1, <2>1, <2>3, JoinedTidy DEF This
  <2>5. MergedTo(settled, at + 1, r, FALSE)
    BY <1>1, <2>1, <2>4, MergesJoin
  <2> QED BY <1>4, <2>2, <2>4, <2>5
<1>8. CASE Pass!Keep
  <2> DEFINE e == This.op = "exit" /\ ~Pass!HasControlFlow
             r == Append(optimized, This)
  <2>1. terminated = FALSE /\ Pass!Keeps(r, e)
    BY <1>1, <1>2, <1>8 DEF Pass!Keep
  <2>2. e \in BOOLEAN /\ (e => This.op = "exit" /\ ~Leaping(settled))
    BY DEF Pass!HasControlFlow, Leaping
  <2> HIDE DEF e
  <2>3. Tidy(r)
    BY <1>1, AddedTidy
  <2>4. MergedTo(settled, at + 1, r, e)
    BY <1>1, <2>1, <2>2, MergesKeep DEF This
  <2> HIDE DEF r
  <2> QED BY <1>4, <2>1, <2>2, <2>3, <2>4
<1>9. QED
  BY <1>5, <1>6, <1>7, <1>8

(* and where a loop ends.                                                  *)
LEMMA EndingsKeep ==
  ASSUME PassHolds, Pass!EndSettling \/ Pass!EndMerging \/ Pass!Close
  PROVE  PassHolds'
<1>1. CASE Pass!EndSettling
  <2>1. /\ phase = "settle" /\ phase' = "merge" /\ at > Len(source) /\ at' = 1
        /\ UNCHANGED <<source, settled, unreachable, optimized, terminated>>
    BY <1>1 DEF Pass!EndSettling
  <2>2. /\ Tidy(source) /\ Landing(source) /\ Tidy(settled) /\ Tidy(optimized)
        /\ unreachable \in BOOLEAN /\ terminated \in BOOLEAN /\ at \in 1 .. Len(source) + 1
        /\ SettledTo(source, at, settled, unreachable) /\ optimized = <<>> /\ ~terminated
    BY <2>1 DEF PassHolds
  <2>3. at = Len(source) + 1
    BY <2>1, <2>2, SizeOf DEF Tidy
  <2>4. WholeSettled(source', settled')
    BY <2>1, <2>2, <2>3 DEF WholeSettled, SettledTo
  <2>5. MergedTo(settled', at', optimized', terminated')
    <3>1. optimized' = <<>> /\ terminated' = FALSE /\ at' = 1
      BY <2>1, <2>2
    <3> QED BY <3>1, MergedToStart
  <2>6. at' \in 1 .. Len(settled') + 1
    BY <2>1, <2>2, SizeOf DEF Tidy
  <2>7. Tidy(source') /\ Landing(source') /\ Tidy(settled') /\ Tidy(optimized')
        /\ unreachable' \in BOOLEAN /\ terminated' \in BOOLEAN
    BY <2>1, <2>2
  <2> QED BY <2>1, <2>4, <2>5, <2>6, <2>7 DEF PassHolds
<1>2. CASE Pass!EndMerging
  <2>1. /\ phase = "merge" /\ phase' = "close" /\ at > Len(settled)
        /\ UNCHANGED <<source, at, settled, unreachable, optimized, terminated>>
    BY <1>2 DEF Pass!EndMerging
  <2>2. /\ Tidy(source) /\ Landing(source) /\ Tidy(settled) /\ Tidy(optimized)
        /\ unreachable \in BOOLEAN /\ terminated \in BOOLEAN /\ at \in 1 .. Len(settled) + 1
        /\ WholeSettled(source, settled) /\ MergedTo(settled, at, optimized, terminated)
    BY <2>1 DEF PassHolds
  <2>3. at = Len(settled) + 1
    BY <2>1, <2>2, SizeOf DEF Tidy
  <2> QED BY <2>1, <2>2, <2>3 DEF PassHolds
<1>3. CASE Pass!Close
  <2>1. /\ phase = "close" /\ phase' = "done"
        /\ UNCHANGED <<source, at, settled, unreachable, terminated>>
        /\ optimized' = optimized \/ optimized' = Append(optimized, Pass!Exit)
    BY <1>3 DEF Pass!Close
  <2>2. /\ Tidy(source) /\ Landing(source) /\ Tidy(settled) /\ Tidy(optimized)
        /\ unreachable \in BOOLEAN /\ terminated \in BOOLEAN /\ at = Len(settled) + 1
        /\ WholeSettled(source, settled) /\ MergedTo(settled, at, optimized, terminated)
    BY <2>1 DEF PassHolds
  <2>3. Tidy(optimized')
    <3>1. Pass!Exit.op # "write"
      BY DEF Pass!Exit
    <3> QED BY <2>1, <2>2, <3>1, AddedTidy
  <2>4. WholeMerged(settled, optimized')
    <3>1. Sequence(settled) /\ Sequence(optimized) /\ MergedTo(settled, Len(settled) + 1, optimized, terminated)
      BY <2>2 DEF Tidy
    <3> QED BY <2>1, <3>1, MergesClose DEF WholeMerged
  <2>5. Tidy(source') /\ Landing(source') /\ Tidy(settled')
        /\ unreachable' \in BOOLEAN /\ terminated' \in BOOLEAN /\ WholeSettled(source', settled')
        /\ WholeMerged(settled', optimized')
    BY <2>1, <2>2, <2>4
  <2> QED BY <2>1, <2>3, <2>5 DEF PassHolds
<1>4. QED
  BY <1>1, <1>2, <1>3

(* So that it holds throughout.                                            *)
LEMMA PassKeeps ==
  ASSUME PassHolds, Pass!Next
  PROVE  PassHolds'
<1>1. CASE Pass!SettleDead \/ Pass!SettleBranch \/ Pass!SettleOther
  BY <1>1, SettleKeeps
<1>2. CASE Pass!DropTheRest \/ Pass!DropEmptyWrite \/ Pass!MergeWrite \/ Pass!Keep
  BY <1>2, MergeKeeps
<1>3. CASE Pass!EndSettling \/ Pass!EndMerging \/ Pass!Close
  BY <1>3, EndingsKeep
<1>4. QED
  BY <1>1, <1>2, <1>3 DEF Pass!Next

-----------------------------------------------------------------------------
(* A program that runs is where its course is, whatever its conditions     *)
(* will yet come to.                                                       *)
Says(d, given) == \A i \in DOMAIN given : d[i] = given[i]
Courses(k, d) == LET s == Course(Text(k), d)[steps[k]]
                 IN  pc[k] = s.pc /\ did[k] = s.did /\ asked[k] = s.asked

Unrun == /\ did = [k \in Stages |-> <<>>] /\ steps = [k \in Stages |-> 0]
         /\ asked = [k \in Stages |-> 0] /\ decided = <<>>

Tallied == /\ DOMAIN pc = Stages /\ DOMAIN steps = Stages /\ DOMAIN did = Stages /\ DOMAIN asked = Stages
           /\ decided \in Seq(BOOLEAN)
           /\ \A k \in Stages : steps[k] \in Nat /\ asked[k] \in 0 .. Len(decided)

RunHolds == /\ phase # "done" => Unrun
            /\ phase = "done" => /\ Tallied
                                 /\ \A k \in Stages : \A d : Says(d, decided) => Courses(k, d)

IsChanged(f, g, k, v) == DOMAIN g = DOMAIN f /\ g[k] = v /\ \A j \in DOMAIN f : j # k => g[j] = f[j]

(* EXCEPT changes the one.                                                 *)
LEMMA ChangesOne ==
  ASSUME NEW f, NEW k \in DOMAIN f, NEW v
  PROVE  IsChanged(f, [f EXCEPT ![k] = v], k, v) /\ IsChanged(f, f, k, f[k])
  BY DEF IsChanged

(* One operation of a program that runs: zero is what its condition, if it *)
(* has one, comes to.                                                      *)
Performs(k, o, zero) ==
  /\ IsChanged(pc, pc', k, Place(Text(k), o, pc[k], zero))
  /\ IsChanged(did, did', k, did[k] \o Shown(o))
  /\ IsChanged(asked, asked', k, IF Asking(o) THEN asked[k] + 1 ELSE asked[k])
  /\ IsChanged(steps, steps', k, steps[k] + 1)
  /\ Asking(o) => asked[k] + 1 \in DOMAIN decided' /\ decided'[asked[k] + 1] = zero
  /\ decided' = decided \/ (decided' = Append(decided, zero) /\ Asking(o))

(* Each way to run an operation is a turn of the course.                   *)
LEMMA PerformIs ==
  ASSUME Tallied, NEW k \in Stages, Perform(k), Sequence(did[k])
  PROVE  \E zero \in BOOLEAN : Performs(k, Text(k)[pc[k]], zero)
<1> DEFINE o == Text(k)[pc[k]]
           p == Text(k)
<1>1. IsChanged(steps, steps', k, steps[k] + 1)
  BY ChangesOne DEF Perform, Tallied
<1>2. \/ o.op = "effect" /\ Shows(k, <<"effect">>)
      \/ o.op = "write" /\ Shows(k, [i \in DOMAIN o.data |-> <<o.fd, o.data[i]>>])
      \/ o.op = "branch" /\ o.cond = "unknown" /\ Asks(k, o)
      \/ Flow(k, o)
  BY DEF Perform
<1>3. did[k] \o <<>> = did[k]
  BY Joined, NothingIsASequence
<1>4. k \in DOMAIN pc /\ k \in DOMAIN did /\ k \in DOMAIN asked
  BY DEF Tallied
<1>5. \A i : Proceed(k, i) => IsChanged(pc, pc', k, Falls(p, i))
  <2> TAKE i
  <2>1. Proceed(k, i) => pc' = [pc EXCEPT ![k] = Falls(p, i)]
    BY DEF Proceed, Falls
  <2> QED BY <1>4, <2>1, ChangesOne
<1>6. \A l : Leap(k, l) => IsChanged(pc, pc', k, Finds(p, l))
  BY <1>5 DEF Leap, Finds
<1> SUFFICES \E zero \in BOOLEAN : Performs(k, o, zero)
  OBVIOUS
<1> HIDE DEF o
<1>7. ASSUME NEW x, Shows(k, x), Shown(o) = x, ~Asking(o), \A z : ~Taken(o, z), o.op # "exit"
      PROVE  \E zero \in BOOLEAN : Performs(k, o, zero)
  <2>1. IsChanged(did, did', k, did[k] \o x)
    BY <1>4, <1>7, ChangesOne DEF Shows
  <2>2. IsChanged(pc, pc', k, Falls(p, pc[k] + 1)) /\ asked' = asked /\ decided' = decided
    BY <1>5, <1>7 DEF Shows
  <2>3. IsChanged(asked, asked', k, asked[k])
    BY <1>4, <2>2, ChangesOne
  <2>4. Place(p, o, pc[k], TRUE) = Falls(p, pc[k] + 1)
    BY <1>7 DEF Place
  <2>5. Performs(k, o, TRUE)
    BY <1>1, <1>7, <2>1, <2>2, <2>3, <2>4 DEF Performs
  <2> QED BY <2>5
<1>8. CASE o.op = "effect" /\ Shows(k, <<"effect">>)
  <2>1. Shown(o) = <<"effect">> /\ ~Asking(o) /\ (\A z : ~Taken(o, z)) /\ o.op # "exit"
    BY <1>8 DEF Shown, Asking, Taken
  <2> QED BY <1>7, <1>8, <2>1
<1>9. CASE o.op = "write" /\ Shows(k, [i \in DOMAIN o.data |-> <<o.fd, o.data[i]>>])
  <2> DEFINE x == [i \in DOMAIN o.data |-> <<o.fd, o.data[i]>>]
  <2>1. Shows(k, x) /\ Shown(o) = x /\ ~Asking(o) /\ (\A z : ~Taken(o, z)) /\ o.op # "exit"
    BY <1>9 DEF Shown, Asking, Taken
  <2> HIDE DEF x
  <2> QED BY <1>7, <2>1
<1>10. CASE o.op = "branch" /\ o.cond = "unknown" /\ Asks(k, o)
  <2>1. PICK zero \in BOOLEAN : /\ asked[k] < Len(decided) => zero = decided[asked[k] + 1]
                                /\ decided' = IF asked[k] < Len(decided) THEN decided ELSE Append(decided, zero)
                                /\ IF zero THEN Leap(k, o.target) ELSE Proceed(k, pc[k] + 1)
    BY <1>10 DEF Asks
  <2>2. asked' = [asked EXCEPT ![k] = asked[k] + 1] /\ did' = did
    BY <1>10 DEF Asks
  <2>3. Shown(o) = <<>> /\ Asking(o) /\ o.op # "exit" /\ (Taken(o, zero) <=> zero)
    BY <1>10 DEF Shown, Asking, Taken
  <2>4. IsChanged(pc, pc', k, Place(p, o, pc[k], zero))
    BY <1>5, <1>6, <2>1, <2>3 DEF Place
  <2>5. IsChanged(asked, asked', k, asked[k] + 1) /\ IsChanged(did, did', k, did[k] \o Shown(o))
    BY <1>3, <1>4, <2>2, <2>3, ChangesOne
  <2>6. asked[k] + 1 \in DOMAIN decided' /\ decided'[asked[k] + 1] = zero
        /\ (decided' = decided \/ decided' = Append(decided, zero))
    <3>1. decided \in Seq(BOOLEAN) /\ asked[k] \in 0 .. Len(decided)
      BY DEF Tallied
    <3> QED BY <2>1, <3>1
  <2>7. Performs(k, o, zero)
    BY <1>1, <2>3, <2>4, <2>5, <2>6 DEF Performs
  <2> QED BY <2>7
<1>11. CASE Flow(k, o)
  <2>1. asked' = asked /\ did' = did /\ decided' = decided
    BY <1>11 DEF Flow
  <2>2. Shown(o) = <<>> /\ ~Asking(o)
    BY <1>11 DEF Flow, Shown, Asking
  <2>3. IsChanged(pc, pc', k, Place(p, o, pc[k], TRUE))
    <3>1. CASE o.op = "label" /\ Proceed(k, pc[k] + 1)
      BY <1>5, <3>1 DEF Place, Taken
    <3>2. CASE o.op = "jump" /\ Leap(k, o.target)
      BY <1>6, <3>2 DEF Place, Taken
    <3>3. CASE o.op = "branch" /\ o.cond = "zero" /\ Leap(k, o.target)
      BY <1>6, <3>3 DEF Place, Taken
    <3>4. CASE o.op = "branch" /\ o.cond = "other" /\ Proceed(k, pc[k] + 1)
      BY <1>5, <3>4 DEF Place, Taken
    <3>5. CASE o.op = "exit" /\ Proceed(k, 0)
      <4>1. Falls(p, 0) = 0
        BY DEF Falls
      <4> QED BY <1>5, <3>5, <4>1 DEF Place
    <3> QED BY <1>11, <3>1, <3>2, <3>3, <3>4, <3>5 DEF Flow
  <2>4. IsChanged(asked, asked', k, asked[k]) /\ IsChanged(did, did', k, did[k] \o Shown(o))
    BY <1>3, <1>4, <2>1, <2>2, ChangesOne
  <2>5. Performs(k, o, TRUE)
    BY <1>1, <2>1, <2>2, <2>3, <2>4 DEF Performs
  <2> QED BY <2>5
<1>12. QED
  BY <1>2, <1>8, <1>9, <1>10, <1>11

(* What a condition comes to is of no matter where none is asked for.      *)
LEMMA Untaken ==
  ASSUME NEW p, NEW o, NEW i, NEW y, NEW z, Asking(o) => y = z
  PROVE  Place(p, o, i, y) = Place(p, o, i, z)
<1>1. CASE Asking(o)
  BY <1>1
<1>2. CASE ~Asking(o)
  <2>1. Taken(o, y) <=> Taken(o, z)
    BY <1>2 DEF Taken, Asking
  <2> QED BY <2>1 DEF Place
<1>3. QED
  BY <1>1, <1>2

(* Whichever of the three runs an operation, each is where its course is.  *)
LEMMA RunKeeps ==
  ASSUME PassHolds, phase = "done", RunHolds, UNCHANGED passes, NEW k \in Stages, Perform(k), ~Stopped(k)
  PROVE  RunHolds'
<1>1. Tallied /\ (\A j \in Stages : \A d : Says(d, decided) => Courses(j, d)) /\ phase' = "done"
  BY DEF RunHolds, passes
<1>2. \A j \in Stages : Text(j)' = Text(j) /\ Tidy(Text(j))
  BY DEF passes, Text, Stages, PassHolds
<1>3. pc[k] # 0
  BY DEF Stopped
<1>4. Says(decided, decided)
  BY DEF Says
<1> DEFINE p == Text(k)
           o == p[pc[k]]
<1>5. Sequence(did[k])
  <2>1. Courses(k, decided) /\ steps[k] \in Nat
    BY <1>1, <1>4 DEF Tallied
  <2>2. Standing(p, Course(p, decided)[steps[k]])
    BY <1>2, <2>1, CourseStands
  <2> HIDE DEF p
  <2> QED BY <2>1, <2>2 DEF Courses, Standing, p
<1>6. PICK zero \in BOOLEAN : Performs(k, o, zero)
  BY <1>1, <1>5, PerformIs
<1> HIDE DEF o, p
<1>7. /\ decided \in Seq(BOOLEAN) /\ decided' \in Seq(BOOLEAN) /\ Len(decided) <= Len(decided')
      /\ \A d : Says(d, decided') => Says(d, decided)
  <2>1. decided \in Seq(BOOLEAN)
    BY <1>1 DEF Tallied
  <2>2. CASE decided' = decided
    BY <2>1, <2>2
  <2>3. CASE decided' = Append(decided, zero)
    <3>1. decided' \in Seq(BOOLEAN) /\ Len(decided') = Len(decided) + 1
          /\ \A i \in DOMAIN decided : i \in DOMAIN decided' /\ decided'[i] = decided[i]
      BY <2>1, <2>3
    <3> QED BY <2>1, <3>1 DEF Says
  <2> QED BY <1>6, <2>2, <2>3 DEF Performs
<1>8. ASSUME NEW j \in Stages, j # k
      PROVE  pc'[j] = pc[j] /\ did'[j] = did[j] /\ steps'[j] = steps[j] /\ asked'[j] = asked[j]
  BY <1>1, <1>6, <1>8 DEF Performs, IsChanged, Tallied
<1>9. /\ pc'[k] = Place(p, o, pc[k], zero) /\ did'[k] = did[k] \o Shown(o) /\ steps'[k] = steps[k] + 1
      /\ asked'[k] = IF Asking(o) THEN asked[k] + 1 ELSE asked[k]
  BY <1>6 DEF Performs, IsChanged, p
<1>10. Tallied'
  <2>1. DOMAIN pc' = Stages /\ DOMAIN steps' = Stages /\ DOMAIN did' = Stages /\ DOMAIN asked' = Stages
    BY <1>1, <1>6 DEF Tallied, Performs, IsChanged
  <2>2. ASSUME NEW j \in Stages PROVE steps'[j] \in Nat /\ asked'[j] \in 0 .. Len(decided')
    <3>1. steps[j] \in Nat /\ asked[j] \in 0 .. Len(decided) /\ Len(decided) \in Nat /\ Len(decided') \in Nat
          /\ DOMAIN decided' = 1 .. Len(decided')
      BY <1>1, <1>7 DEF Tallied
    <3>2. CASE j # k
      BY <1>7, <1>8, <3>1, <3>2
    <3>3. CASE j = k
      <4>1. Asking(o) => asked[k] + 1 \in 1 .. Len(decided')
        BY <1>6, <3>1 DEF Performs
      <4> QED BY <1>7, <1>9, <3>1, <3>3, <4>1
    <3> QED BY <3>2, <3>3
  <2> QED BY <1>7, <2>1, <2>2 DEF Tallied
<1>11. ASSUME NEW j \in Stages, NEW d, Says(d, decided') PROVE Courses(j, d)'
  <2>1. Courses(j, d)
    BY <1>1, <1>7, <1>11
  <2>2. CASE j # k
    BY <1>2, <1>8, <2>1, <2>2 DEF Courses
  <2>3. CASE j = k
    <3> DEFINE n == steps[k]
               s == Course(p, d)[n]
    <3>1. n \in Nat
      BY <1>1 DEF Tallied
    <3>2. pc[k] = s.pc /\ did[k] = s.did /\ asked[k] = s.asked
      BY <2>1, <2>3 DEF Courses, p
    <3>3. Course(p, d)[n + 1] = Turn(p, d, s)
      BY <3>1, CourseIs
    <3> HIDE DEF s
    <3>4. Asking(o) => d[asked[k] + 1] = zero
      BY <1>6, <1>11 DEF Performs, Says
    <3>5. Place(p, o, pc[k], zero) = Place(p, o, pc[k], d[asked[k] + 1])
      BY <3>4, Untaken
    <3> DEFINE t == Turn(p, d, s)
    <3>6. t.pc = Place(p, p[s.pc], s.pc, d[s.asked + 1]) /\ t.did = s.did \o Shown(p[s.pc])
          /\ t.asked = IF Asking(p[s.pc]) THEN s.asked + 1 ELSE s.asked
      BY <1>3, <3>2 DEF Turn
    <3> HIDE DEF t
    <3>7. o = p[s.pc]
      BY <3>2 DEF o
    <3>8. pc'[k] = t.pc /\ did'[k] = t.did /\ asked'[k] = t.asked
      BY <1>9, <3>2, <3>5, <3>6, <3>7
    <3>9. Course(p, d)[steps'[k]] = t
      BY <1>9, <3>3 DEF t
    <3>10. Text(k)' = p
      BY <1>2 DEF p
    <3> QED BY <2>3, <3>8, <3>9, <3>10 DEF Courses
  <2> QED BY <2>2, <2>3
<1>12. QED
  BY <1>1, <1>10, <1>11 DEF RunHolds

-----------------------------------------------------------------------------
(* And they start where their courses do.                                  *)
LEMMA OptimizeKeeps ==
  ASSUME RunHolds, Pass!Next, pc' = [k \in Stages |-> IF phase' = "done" /\ Text(k)' # <<>> THEN 1 ELSE 0],
         UNCHANGED <<steps, did, asked, decided>>
  PROVE  RunHolds'
<1>1. phase # "done"
  BY DEF Pass!Next, Pass!SettleDead, Pass!SettleBranch, Pass!SettleOther, Pass!EndSettling, Pass!DropTheRest,
         Pass!DropEmptyWrite, Pass!MergeWrite, Pass!Keep, Pass!EndMerging, Pass!Close, Pass!Looking, Pass!Merging
<1>2. /\ did = [k \in Stages |-> <<>>] /\ steps = [k \in Stages |-> 0]
      /\ asked = [k \in Stages |-> 0] /\ decided = <<>>
  BY <1>1 DEF RunHolds, Unrun
<1>3. did' = did /\ steps' = steps /\ asked' = asked /\ decided' = decided
  OBVIOUS
<1>4. CASE phase' # "done"
  BY <1>2, <1>3, <1>4 DEF RunHolds, Unrun
<1>5. CASE phase' = "done"
  <2>1. Tallied'
    <3>1. <<>> \in Seq(BOOLEAN) /\ Len(<<>>) = 0 /\ 0 \in 0 .. 0
      OBVIOUS
    <3> QED BY <1>2, <1>3, <3>1 DEF Tallied
  <2>2. ASSUME NEW k \in Stages, NEW d PROVE Courses(k, d)'
    <3> DEFINE p == Text(k)'
    <3>1. Course(p, d)[0] = Start(p)
      BY CourseIs
    <3>2. steps'[k] = 0 /\ did'[k] = <<>> /\ asked'[k] = 0 /\ pc'[k] = IF p # <<>> THEN 1 ELSE 0
      BY <1>2, <1>3, <1>5
    <3> HIDE DEF p
    <3>3. LET s == Course(p, d)[steps'[k]] IN pc'[k] = s.pc /\ did'[k] = s.did /\ asked'[k] = s.asked
      BY <3>1, <3>2 DEF Start
    <3> QED BY <3>3 DEF Courses, p
  <2> QED BY <1>5, <2>1, <2>2 DEF RunHolds
<1>6. QED
  BY <1>4, <1>5

(* Each of the three serves the program there was.                         *)
LEMMA AllServe ==
  ASSUME PassHolds, phase = "done", NEW k \in Stages, NEW d
  PROVE  Tidy(source) /\ Tidy(Text(k)) /\ Serves(source, Text(k), d)
<1>1. Tidy(source) /\ Landing(source) /\ Tidy(settled) /\ Tidy(optimized)
  BY DEF PassHolds
<1>2. PICK h, dead : Settling(source, Len(source) + 1, settled, h, dead)
  BY DEF PassHolds, WholeSettled
<1>3. PICK g, rest, past : Merged(settled, optimized, g, rest, past)
  BY DEF PassHolds, WholeMerged
<1>4. Landing(settled)
  BY <1>1, <1>2, SettledLands DEF Tidy
<1>5. Serves(settled, settled, d)
  BY <1>1, ServesItself
<1>6. Serves(settled, optimized, d)
  BY <1>1, <1>3, <1>4, MergedServes
<1>7. Serves(source, source, d)
  BY <1>1, ServesItself
<1>8. Serves(source, settled, d)
  BY <1>1, <1>2, <1>5, SettledServes
<1>9. Serves(source, optimized, d)
  BY <1>1, <1>2, <1>6, SettledServes
<1>10. Text("source") = source /\ Text("settled") = settled /\ Text("optimized") = optimized
  BY DEF Text
<1>11. QED
  BY <1>1, <1>7, <1>8, <1>9, <1>10 DEF Stages

(* What one program that runs shows, against what the program it was shows. *)
LEMMA ServedAgrees ==
  ASSUME NEW p, Tidy(p), NEW q, Tidy(q), NEW d, Serves(p, q, d), NEW n \in Nat, NEW m \in Nat
  PROVE  /\ Agree(Course(q, d)[m].did, Course(p, d)[n].did)
         /\ Course(p, d)[n].pc = 0 /\ m = n + 1 => Course(q, d)[m].pc = 0
         /\ Course(p, d)[n].pc = 0 /\ Course(q, d)[m].pc = 0 => Course(q, d)[m].did = Course(p, d)[n].did
<1> DEFINE a == Course(p, d)
           b == Course(q, d)
<1>1. PICK j \in 0 .. n : ServedBy(a[n], b, j)
  BY DEF Serves, ServesAt
<1>2. \A x, y \in Nat : x <= y => Opens(b[x].did, b[y].did) /\ (b[x].pc = 0 => b[y] = b[x])
  BY CourseGrows
<1> HIDE DEF a, b
<1>3. Opens(a[n].did, b[j].did) /\ (a[n].pc = 0 => b[j + 1].did = a[n].did /\ b[j + 1].pc = 0)
  BY <1>1 DEF ServedBy, Ends
<1>4. Agree(b[m].did, a[n].did)
  <2> DEFINE l == IF m <= j THEN j ELSE m
  <2>1. l \in Nat /\ m <= l /\ j <= l /\ j \in Nat
    OBVIOUS
  <2> HIDE DEF l
  <2>2. Opens(b[m].did, b[l].did) /\ Opens(b[j].did, b[l].did)
    BY <1>2, <2>1
  <2>3. Opens(a[n].did, b[l].did)
    BY <1>3, <2>2, BeginsOn
  <2> QED BY <2>2, <2>3, BothBegin
<1>5. ASSUME a[n].pc = 0, m = n + 1 PROVE b[m].pc = 0
  <2>1. j + 1 \in Nat /\ j + 1 <= m
    BY <1>5
  <2>2. b[m] = b[j + 1]
    BY <1>2, <1>3, <1>5, <2>1
  <2> QED BY <1>3, <1>5, <2>2
<1>6. ASSUME a[n].pc = 0, b[m].pc = 0 PROVE b[m].did = a[n].did
  <2>1. j + 1 \in Nat
    OBVIOUS
  <2>2. CASE j + 1 <= m
    <3>1. b[m] = b[j + 1]
      BY <1>2, <1>3, <1>6, <2>1, <2>2
    <3> QED BY <1>3, <1>6, <3>1
  <2>3. CASE ~(j + 1 <= m)
    <3>1. m <= j + 1
      BY <2>1, <2>3
    <3>2. b[j + 1] = b[m]
      BY <1>2, <1>6, <2>1, <3>1
    <3> QED BY <1>3, <1>6, <3>2
  <2> QED BY <2>2, <2>3
<1>7. QED
  BY <1>4, <1>5, <1>6 DEF a, b

(* Which is what is asked of them.                                         *)
LEMMA SameThen ==
  ASSUME PassHolds, RunHolds
  PROVE  SameProgram
<1>1. CASE phase # "done"
  <2>1. \A k \in Stages : did[k] = <<>> /\ did["source"] = <<>>
    BY <1>1 DEF RunHolds, Unrun, Stages
  <2> QED BY <1>1, <2>1 DEF SameProgram, Agree
<1>2. CASE phase = "done"
  <2> DEFINE d == decided
             n == steps["source"]
  <2>1. Tallied /\ \A k \in Stages : Courses(k, d)
    BY <1>2 DEF RunHolds, Says
  <2>2. "source" \in Stages /\ Text("source") = source
    BY DEF Stages, Text
  <2>3. n \in Nat /\ \A k \in Stages : steps[k] \in Nat
    BY <2>1, <2>2 DEF Tallied
  <2>4. pc["source"] = Course(source, d)[n].pc /\ did["source"] = Course(source, d)[n].did
    BY <2>1, <2>2 DEF Courses
  <2>5. ASSUME NEW k \in Stages
        PROVE  /\ Agree(did[k], did["source"])
               /\ pc["source"] = 0 /\ steps[k] = n + 1 => pc[k] = 0
               /\ pc["source"] = 0 /\ pc[k] = 0 => did[k] = did["source"]
    <3>1. Tidy(source) /\ Tidy(Text(k)) /\ Serves(source, Text(k), d)
      BY <1>2, AllServe
    <3>2. pc[k] = Course(Text(k), d)[steps[k]].pc /\ did[k] = Course(Text(k), d)[steps[k]].did
      BY <2>1 DEF Courses
    <3> DEFINE m == steps[k]
               q == Text(k)
    <3>3. m \in Nat
      BY <2>3
    <3> HIDE DEF d, n, m, q
    <3>4. /\ Agree(Course(q, d)[m].did, Course(source, d)[n].did)
          /\ Course(source, d)[n].pc = 0 /\ m = n + 1 => Course(q, d)[m].pc = 0
          /\ Course(source, d)[n].pc = 0 /\ Course(q, d)[m].pc = 0 => Course(q, d)[m].did = Course(source, d)[n].did
      BY <2>3, <3>1, <3>3, ServedAgrees DEF q
    <3> QED BY <2>4, <3>2, <3>4 DEF m, q
  <2>6. ASSUME pc["source"] = 0, NEW k \in Stages, Stopped(k) PROVE pc[k] = 0
    BY <2>5, <2>6 DEF Stopped
  <2> QED BY <2>2, <2>5, <2>6 DEF SameProgram
<1>3. QED
  BY <1>1, <1>2

(* Whatever the program and whatever its conditions come to, what          *)
(* _settle_branches leaves and what optimize leaves show what the program  *)
(* shows, as far as each has run, and end where it ends, in no more        *)
(* operations and the exit that is added.                                  *)
THEOREM OptimizingKeepsTheProgram == MCSpec => []SameProgram
<1>1. MCInit => PassHolds /\ RunHolds
  <2> SUFFICES ASSUME MCInit PROVE PassHolds /\ RunHolds
    OBVIOUS
  <2>1. PassHolds
    BY PassStarts DEF MCInit
  <2>2. RunHolds
    BY DEF MCInit, Pass!Init, RunHolds, Unrun
  <2> QED BY <2>1, <2>2
<1>2. PassHolds /\ RunHolds /\ [Optimize \/ Run]_<<passes, running>> => PassHolds' /\ RunHolds'
  <2> SUFFICES ASSUME PassHolds, RunHolds, [Optimize \/ Run]_<<passes, running>> PROVE PassHolds' /\ RunHolds'
    OBVIOUS
  <2>1. CASE Optimize
    BY <2>1, PassKeeps, OptimizeKeeps DEF Optimize
  <2>2. ASSUME UNCHANGED passes PROVE PassHolds'
    <3>1. /\ source' = source /\ phase' = phase /\ at' = at /\ settled' = settled /\ unreachable' = unreachable
          /\ optimized' = optimized /\ terminated' = terminated
      BY <2>2 DEF passes
    <3> QED BY <3>1 DEF PassHolds
  <2>3. CASE Run
    <3>1. PICK k \in Stages : Perform(k) /\ ~Stopped(k)
      BY <2>3 DEF Run, Stages
    <3>2. phase = "done" /\ UNCHANGED passes
      BY <2>3 DEF Run
    <3> QED BY <2>2, <3>1, <3>2, RunKeeps
  <2>4. CASE UNCHANGED <<passes, running>>
    <3>1. UNCHANGED passes
      BY <2>4
    <3>2. RunHolds'
      <4>1. UNCHANGED <<pc, steps, did, asked, decided>> /\ UNCHANGED <<source, phase, settled, optimized>>
        BY <2>4 DEF passes, running
      <4>2. \A k \in Stages : \A d : Courses(k, d)' <=> Courses(k, d)
        BY <4>1 DEF Courses, Text
      <4>3. (Tallied' <=> Tallied) /\ (Unrun' <=> Unrun) /\ (\A d : Says(d, decided') <=> Says(d, decided))
        BY <4>1 DEF Tallied, Unrun
      <4> QED BY <4>1, <4>2, <4>3 DEF RunHolds
    <3> QED BY <2>2, <3>1, <3>2
  <2> QED BY <2>1, <2>3, <2>4
<1>3. PassHolds /\ RunHolds => SameProgram
  BY SameThen
<1>4. QED
  BY <1>1, <1>2, <1>3, PTL DEF MCSpec
=============================================================================
