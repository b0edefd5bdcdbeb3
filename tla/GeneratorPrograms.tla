------------------------- MODULE GeneratorPrograms -------------------------
(***************************************************************************)
(* The bodies of generators, down to the statements capi_generators tells  *)
(* apart: what suspends, what raises, what jumps, and the statements that  *)
(* hold others.  Effects and values are numbers.  A `with` and a           *)
(* `yield from` have numbers too, one each in a body.                      *)
(***************************************************************************)
EXTENDS Integers, SequencesExt

Log(n) == [op |-> "log", n |-> n]                \* any effect that does not suspend
Yield(n) == [op |-> "yield", n |-> n]
Ask(n) == [op |-> "ask", n |-> n]                \* x = yield n
Raise == [op |-> "raise"]                        \* raise E
Return == [op |-> "return"]
Break == [op |-> "break"]
Continue == [op |-> "continue"]
If(body) == [op |-> "if", body |-> body]         \* if x: body
While(body) == [op |-> "while", going |-> 0, body |-> body]    \* while x: body
For(turns, body) == [op |-> "for", turns |-> turns, body |-> body]

(* A clause may name what it catches.  The cleanup is empty where there is *)
(* no `finally`.                                                           *)
Clause(catches, body) == [catches |-> catches, name |-> 0, body |-> body]
Try(body, clauses, cleanup) ==
  [op |-> "try", body |-> body, clauses |-> clauses, cleanup |-> cleanup]

(* A manager's __enter__ and __exit__ are effects; __exit__ swallows what  *)
(* it says.                                                                *)
With(n, swallows, body) == [op |-> "with", n |-> n, swallows |-> swallows, body |-> body]

(* What is delegated to is a generator, or an iterator without its other   *)
(* methods.                                                                *)
YieldFrom(n, generator, body) ==
  [op |-> "yield from", n |-> n, generator |-> generator, body |-> body]

(* The exceptions there are: the program's E, the two of the protocol, and *)
(* what a generator that will not close and an iterator that takes nothing *)
(* answer.                                                                 *)
Errors == {"E", "StopIteration", "RuntimeError", "AttributeError"}
CaughtBy(catches) == CASE catches = "nothing" -> {}
                       [] catches = "Exception" -> Errors
                       [] catches = "BaseException" -> Errors \cup {"GeneratorExit"}
                       [] OTHER -> {catches}

(* The first clause that takes an exception, 0 if none does.               *)
Taker(clauses, e) == SelectInSeq(clauses, LAMBDA c : e \in CaughtBy(c.catches))

RECURSIVE Suspends(_)
(* _yields: whether a statement has a yield in it                          *)
Suspends(s) ==
  \/ s.op \in {"yield", "ask", "pass on", "yield from"}
  \/ s.op \in {"if", "while", "for", "try", "with"} /\ \E i \in DOMAIN s.body : Suspends(s.body[i])
  \/ s.op = "try" /\ \/ \E c \in DOMAIN s.clauses :
                          \E i \in DOMAIN s.clauses[c].body : Suspends(s.clauses[c].body[i])
                     \/ \E i \in DOMAIN s.cleanup : Suspends(s.cleanup[i])
=============================================================================
