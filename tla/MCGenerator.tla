----------------------------- MODULE MCGenerator -----------------------------
(***************************************************************************)
(* The bodies TLC is given: a try of every shape, alone, in a loop, and in *)
(* another try in a loop; a `with` and a `yield from` of every kind, alone *)
(* and in what they may be written in.  What each block of it does is      *)
(* chosen from what the rewrite treats differently: going on, suspending,  *)
(* raising, returning and jumping.                                         *)
(***************************************************************************)
EXTENDS Generator

MCTags == 1 .. 2

Ends == {Raise, Return}
Jumps == {Break, Continue}
After9(s) == <<s, Yield(9)>>

(* Twice, or for as long as it is told to                                  *)
Twice(s) == For(2, <<s>>)
AsTold(s) == <<Ask(8), While(<<s>>), Yield(9)>>

(* What a body of a try does after it has suspended once                   *)
Bodies(leaves) ==
  {<<Yield(1)>>} \cup {<<Yield(1), s>> : s \in {Log(2), Yield(2)} \cup leaves}
                 \cup {<<Ask(1), If(<<s>>)>> : s \in {Yield(2)} \cup leaves}
Handlings(leaves) == {<<s>> : s \in {Log(3), Yield(3)} \cup leaves}
Cleanups == {<<s>> : s \in {Log(4), Yield(4), Raise, Return}}

Tries(bodies, handlings, cleanups) ==
  {Try(b, <<>>, f) : b \in bodies, f \in cleanups}
    \cup {Try(b, <<Clause(e, h)>>, f) :
            b \in bodies, e \in {"E", "Exception"}, h \in handlings, f \in cleanups \cup {<<>>}}

(* Two clauses, of which the first that takes an exception is taken        *)
TwoClauses ==
  {Try(b, <<Clause(e[1], <<Log(3)>>), Clause(e[2], h)>>, f) :
     b \in {<<Yield(1)>>, <<Yield(1), Raise>>},
     e \in {<<"E", "Exception">>, <<"Exception", "E">>, <<"GeneratorExit", "E">>,
            <<"E", "BaseException">>},
     h \in {<<Log(6)>>, <<Yield(6)>>},
     f \in {<<>>, <<Log(4)>>}}

(* A `with`, of what its manager swallows                                  *)
Withs(n, bodies) ==
  {With(n, e, b) : e \in {"nothing", "E", "BaseException"}, b \in bodies}

(* A `yield from`, of a generator that goes on, answers to what it is sent *)
(* or thrown, or does not want to be closed, and of a plain iterator.      *)
Delegations ==
  {YieldFrom(1, TRUE, b) :
     b \in {<<Yield(1), Raise>>, <<Log(1)>>, <<Ask(1), If(<<Raise>>), Yield(2)>>,
            <<Try(<<Yield(1)>>, <<Clause("E", <<Yield(2)>>)>>, <<>>)>>,
            <<Try(<<Yield(1)>>, <<Clause("GeneratorExit", <<Raise>>)>>, <<Log(2)>>)>>,
            <<Try(<<Yield(1)>>, <<>>, <<Yield(2)>>)>>}}
    \cup {YieldFrom(1, FALSE, b) : b \in {<<Yield(1), Yield(2)>>, <<Yield(1), Raise>>}}

Alone == Tries(Bodies(Ends), Handlings(Ends), Cleanups) \cup TwoClauses
InALoop == Tries(Bodies(Ends \cup Jumps), Handlings(Ends \cup Jumps), Cleanups)
             \cup Withs(1, Bodies(Ends \cup Jumps))
             \cup Withs(2, {<<w>> : w \in Withs(1, {<<Yield(1)>>, <<Yield(1), Raise>>})})
             \cup Delegations
InATry ==
  UNION {{Try(<<t>>, <<>>, <<Log(5)>>),
          Try(<<t>>, <<Clause("E", <<Log(6)>>)>>, <<>>),
          Try(<<t>>, <<Clause("Exception", <<Log(6)>>)>>, <<>>),
          With(2, "E", <<t>>)} :
           t \in Tries({<<Yield(1)>>, <<Yield(1), Raise>>, <<Yield(1), Return>>,
                        <<Yield(1), Break>>},
                       {<<Log(3)>>, <<Raise>>}, {<<Log(4)>>})
                   \cup Withs(1, {<<Yield(1)>>, <<Yield(1), Raise>>})
                   \cup Delegations}
    \cup {Try(<<Yield(5)>>, <<Clause("E", <<d>>)>>, <<>>) : d \in Delegations}
    \cup {Try(<<Yield(5)>>, <<>>, <<d>>) : d \in Delegations}

LoopsAsTold == {AsTold(s) : s \in Tries({<<Ask(1), If(<<s>>)>> : s \in Jumps}, {<<Log(3)>>}, {<<Log(4)>>})
                             \cup {With(1, "E", <<Ask(1), If(<<s>>)>>) : s \in Jumps}}
-----------------------------------------------------------------------------
(* The bodies the rewrite carries out as Python does: every one but those  *)
(* where                                                                   *)
(*   a clause of a try that has a cleanup leaves or suspends (the cleanup  *)
(*     is not reached from there);                                         *)
(*   a return is inside a `with` (whose __exit__ is told of it as of an    *)
(*     exception) or inside a clause's `except Exception` (it is caught);  *)
(*   a jump leaves a cleanup that leaves or suspends, or two cleanups at   *)
(*     once (the copies run inside the region, outermost first).           *)
Quiet(body) == \A i \in DOMAIN body : body[i].op = "log"

RECURSIVE Jumping(_)
Jumping(body) ==
  \E i \in DOMAIN body :
    LET s == body[i]
    IN  \/ s.op \in {"break", "continue"}
        \/ s.op \in {"if", "try", "with"} /\ Jumping(s.body)
        \/ s.op = "try" /\ \/ \E c \in DOMAIN s.clauses : Jumping(s.clauses[c].body)
                           \/ Jumping(s.cleanup)

RECURSIVE CarriedIn(_, _, _)
CarriedIn(body, taken, owed) ==
  \A i \in DOMAIN body :
    LET s == body[i]
    IN  CASE s.op = "return" -> ~taken
          [] s.op \in {"break", "continue"} -> owed <= 1
          [] s.op = "if" -> CarriedIn(s.body, taken, owed)
          [] s.op \in {"while", "for"} -> CarriedIn(s.body, taken, 0)
          [] s.op = "with" -> CarriedIn(s.body, TRUE, owed + 1)
          [] s.op = "try" ->
               LET tidy == s.cleanup # <<>>
               IN  /\ tidy => \A c \in DOMAIN s.clauses : Quiet(s.clauses[c].body)
                   /\ tidy /\ Jumping(s.body) => Quiet(s.cleanup)
                   /\ CarriedIn(s.body, taken \/ Taker(s.clauses, "StopIteration") # 0,
                                owed + (IF tidy THEN 1 ELSE 0))
                   /\ \A c \in DOMAIN s.clauses : CarriedIn(s.clauses[c].body, taken, owed)
                   /\ CarriedIn(s.cleanup, taken, owed)
          [] OTHER -> TRUE

MCPrograms ==
  {b \in {After9(s) : s \in Alone \cup Delegations} \cup {After9(Twice(s)) : s \in InALoop \cup InATry}
           \cup LoopsAsTold : CarriedIn(b, FALSE, 0)}

(* The smallest body that is not: its clause raises, and owes a cleanup.   *)
MCReraising == {After9(Try(<<Yield(1)>>, <<Clause("E", <<Raise>>)>>, <<Log(4)>>))}
=============================================================================
