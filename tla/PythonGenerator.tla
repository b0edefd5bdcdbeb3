-------------------------- MODULE PythonGenerator --------------------------
(***************************************************************************)
(* What Python makes of a generator's body: the reference the rewrite is   *)
(* held to.  A suspended generator is what is left to do, a sequence of    *)
(* statements and of marks for the statements it is inside of:             *)
(*   guard      the body of a try ends here                                *)
(*   owed       a clause of a try ends here, and its cleanup is still owed *)
(*   then       a cleanup ends here, and what it interrupted goes on       *)
(*   turn       the body of a loop ends here                               *)
(*   leave      the body of a `with` ends here                             *)
(*   bind       what is sent is bound here                                 *)
(*   delegate   what is sent or thrown goes to another generator           *)
(***************************************************************************)
EXTENDS GeneratorPrograms

Mark(op, of) == [op |-> op, of |-> of]

(* The answer to the call that runs a body to its end.                     *)
Ending(how) == IF how \in {"on", "return"} THEN <<"raise", "StopIteration">>
               ELSE <<"raise", how>>

(* A generator that has not run yet.                                       *)
Fresh(body) == [todo |-> body, x |-> FALSE, said |-> <<>>, begun |-> FALSE]

RECURSIVE Carry(_, _, _, _), Sent(_, _), Thrown(_, _), Delegated(_, _, _, _, _)
(* Carry on with what is left to do, until it suspends or ends: `how` is   *)
(* "on", or the jump or the exception that is looking for its place, and   *)
(* `said` the effects so far and, at the last, the answer.                 *)
Carry(todo, how, x, said) ==
  IF todo = <<>>
    THEN [todo |-> <<>>, x |-> x, said |-> Append(said, Ending(how))]
    ELSE
  LET s == Head(todo)
      rest == Tail(todo)
      On(first) == Carry(first \o rest, "on", x, said)
      Says(event, then) == Carry(rest, then, x, Append(said, event))
  IN  IF how = "on"
      THEN CASE s.op = "log" -> Says(<<"log", s.n>>, "on")
             [] s.op = "yield" ->
                  [todo |-> rest, x |-> x, said |-> Append(said, <<"yield", s.n>>)]
             [] s.op = "ask" ->
                  [todo |-> <<Mark("bind", s)>> \o rest, x |-> x,
                   said |-> Append(said, <<"yield", s.n>>)]
             [] s.op = "raise" -> Carry(rest, "E", x, said)
             [] s.op \in {"return", "break", "continue"} -> Carry(rest, s.op, x, said)
             [] s.op = "if" -> On(IF x THEN s.body ELSE <<>>)
             [] s.op = "while" -> On(IF x THEN Append(s.body, Mark("turn", s)) ELSE <<>>)
             [] s.op = "for" ->
                  On(IF s.turns = 0 THEN <<>>
                     ELSE Append(s.body, Mark("turn", [s EXCEPT !.turns = @ - 1])))
             [] s.op = "turn" -> On(<<s.of>>)
             [] s.op = "try" -> On(Append(s.body, Mark("guard", s)))
             [] s.op \in {"guard", "owed"} -> On(s.of.cleanup)
             [] s.op = "then" -> Carry(rest, s.of, x, said)
             [] s.op = "with" -> Carry(Append(s.body, Mark("leave", s)) \o rest, "on", x,
                                       Append(said, <<"enter", s.n>>))
             [] s.op = "leave" -> Says(<<"exit", "nothing">>, "on")
             [] s.op = "yield from" -> Delegated(s.generator, Sent(Fresh(s.body), FALSE), rest, x, said)
      ELSE CASE s.op = "guard" /\ Taker(s.of.clauses, how) # 0 ->
                  On(Append(s.of.clauses[Taker(s.of.clauses, how)].body, Mark("owed", s.of)))
             [] s.op \in {"guard", "owed"} -> On(Append(s.of.cleanup, Mark("then", how)))
             [] s.op = "turn" /\ how = "break" -> On(<<>>)
             [] s.op = "turn" /\ how = "continue" -> On(<<s.of>>)
             [] s.op = "leave" /\ how \in {"return", "break", "continue"} ->
                  Says(<<"exit", "nothing">>, how)
             [] s.op = "leave" ->
                  Says(<<"exit", how>>, IF how \in CaughtBy(s.of.swallows) THEN "on" ELSE how)
             [] OTHER -> Carry(rest, how, x, said)

(* What one that delegates makes of an answer of the other.                *)
Delegated(generator, sub, rest, x, said) ==
  LET answer == Last(sub.said)
      sofar == said \o Front(sub.said)
  IN  CASE answer[1] = "yield" ->
             [todo |-> <<Mark("delegate", [generator |-> generator, sub |-> [sub EXCEPT !.said = <<>>]])>> \o rest,
              x |-> x, said |-> Append(sofar, answer)]
        [] answer = <<"raise", "StopIteration">> -> Carry(rest, "on", x, sofar)
        [] OTHER -> Carry(rest, answer[2], x, sofar)

(* The three ways to run one.                                              *)
Begun(ran) == [todo |-> ran.todo, x |-> ran.x, said |-> ran.said, begun |-> TRUE]

Delegates(g) == g.todo # <<>> /\ Head(g.todo).op = "delegate"

(* next and send: what is sent is TRUE, None is FALSE.                     *)
Sent(g, value) ==
  LET to == Head(g.todo).of
      rest == Tail(g.todo)
  IN  Begun(CASE Delegates(g) /\ value /\ ~to.generator -> Carry(rest, "AttributeError", g.x, <<>>)
              [] Delegates(g) -> Delegated(to.generator, Sent(to.sub, value), rest, g.x, <<>>)
              [] g.todo # <<>> /\ Head(g.todo).op = "bind" -> Carry(rest, "on", value, <<>>)
              [] OTHER -> Carry(g.todo, "on", g.x, <<>>))

(* What close makes of the answer to GeneratorExit                         *)
Closing(said) ==
  LET answer == Last(said)
  IN  Append(Front(said),
             CASE answer \in {<<"raise", "GeneratorExit">>, <<"raise", "StopIteration">>} ->
                    <<"closed">>
               [] answer[1] = "yield" -> <<"raise", "RuntimeError">>
               [] OTHER -> answer)

Closed(g) == LET ran == Thrown(g, "GeneratorExit")
             IN  [ran EXCEPT !.said = Closing(@)]

(* One that delegates hands on what is thrown, and closes the other before *)
(* it is closed itself.                                                    *)
Thrown(g, e) ==
  LET to == Head(g.todo).of
      rest == Tail(g.todo)
      closed == Closed(to.sub)
      closing == IF Last(closed.said) = <<"closed">> THEN e ELSE Last(closed.said)[2]
  IN  Begun(CASE ~g.begun -> Carry(<<>>, e, g.x, <<>>)
              [] Delegates(g) /\ ~to.generator -> Carry(rest, e, g.x, <<>>)
              [] Delegates(g) /\ e = "GeneratorExit" ->
                   Carry(rest, closing, g.x, Front(closed.said))
              [] Delegates(g) -> Delegated(TRUE, Thrown(to.sub, e), rest, g.x, <<>>)
              [] OTHER -> Carry(g.todo, e, g.x, <<>>))

(* The generator after a call; `said` is what the call did and answered.   *)
After(g, call) ==
  CASE call = "send" /\ ~g.begun -> [g EXCEPT !.said = <<<<"raise", "TypeError">>>>]
    [] call \in {"next", "send"} -> Sent(g, call = "send")
    [] call = "throw" -> Thrown(g, "E")
    [] call = "close" -> Closed(g)
=============================================================================
