---------------------------- MODULE MCCapiLocals ----------------------------
(***************************************************************************)
(* Functions of up to three statements over two names, with integers close *)
(* to the edge of a word of four bits, floats, and lists.                  *)
(***************************************************************************)
EXTENDS CapiLocals

CONSTANTS x, y

I(v)   == [k |-> "int", v |-> v]
F      == [k |-> "float"]
L      == [k |-> "list"]
Any    == [k |-> "call"]
N(n)   == [k |-> "name", n |-> n]
Op(l, op, r)  == [k |-> "op", op |-> op, l |-> l, r |-> r]
Let(n, e)     == [k |-> "assign", to |-> n, e |-> e]
Aug(n, op, e) == [k |-> "aug", to |-> n, op |-> op, e |-> e]
Range(n, lo, hi, step) == [k |-> "range", to |-> n, lo |-> lo, hi |-> hi, step |-> step]
Does(what, n) == [k |-> what, to |-> n]

Integer == {Let(x, I(3)), Let(y, I(-3)), Let(y, I(5)), Let(x, Op(N(x), "+", N(y))),
            Let(x, Op(N(y), "-", N(x))), Let(y, Op(N(x), "*", I(2))), Let(x, Op(N(x), "//", N(y))),
            Let(y, Op(N(x), "%", N(y))), Aug(x, "+", I(3)), Aug(y, "-", N(x)), Aug(x, "*", N(y)),
            Range(x, -3, 3, 2), Range(y, 3, -3, -2), Range(x, 0, 5, 2), Let(y, Any), Does("for", x)}

Floating == {Let(x, F), Let(y, F), Let(y, N(x)), Let(x, Op(N(x), "+", I(1))), Let(y, Op(N(x), "/", N(y))),
             Let(x, Op(N(y), "*", N(x))), Aug(y, "-", F), Aug(x, "/", I(2)), Aug(x, "//", I(2)), Aug(x, "//", N(y)),
             Let(x, I(2)), Let(y, Any), Let(x, Op(I(2), "/", N(y))), Does("nested", y)}

Listing == {Let(x, L), Let(y, L), Aug(x, "+", N(y)), Aug(x, "+", L), Does("append", x), Does("append", y),
            Let(y, Any), Let(y, Op(N(x), "+", N(y))), Does("unpack", y), Does("nested", x), Let(x, N(y))}

Upto3(pool) == {b \in SUBSET pool : Cardinality(b) <= 3}

MCBodies == {b \in Upto3(Integer) \cup Upto3(Floating) \cup Upto3(Listing) : ~UnseenByLists(b)}
MCNames == {x, y}
=============================================================================
