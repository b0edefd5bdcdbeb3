------------------------------ MODULE Generator ------------------------------
(***************************************************************************)
(* A generator's life: its body is one of Programs, its machine is driven  *)
(* by next, send, throw and close, and whatever it does and answers is     *)
(* held against what Python makes of the same body and the same calls.     *)
(***************************************************************************)
EXTENDS GeneratorMachine, PythonGenerator

CONSTANTS Programs,     \* the bodies of generators
          Tags,         \* the numbers of their with's and delegations
          MaxCalls      \* how many calls are made of one generator

VARIABLES code,         \* the machine of one of them
          state,        \* _py2bin_state
          block, rest,  \* the block that runs, and what is left of it
          thrown,       \* _py2bin_thrown
          sent,         \* _py2bin_sent
          x,            \* the body's one local
          pending,      \* of every cleanup, what it holds
          turns,        \* of every loop, how many items its iterator has left
          raised,       \* of every with, whether its body raised
          caught,       \* of every name of a clause, what it caught
          delegated,    \* of every delegation, what it is given and gives
          call,         \* the call that runs, or "none"
          calls,        \* how many calls have been made
          python,       \* the generator as Python would have it
          expected,     \* what Python does and answers in this call, as far as
                        \* the machine has not done it
          same          \* whether it has so far done as Python does

names == <<x, pending, turns, raised, caught, delegated>>
machine == <<state, block, rest, thrown, sent, names>>
vars == <<code, machine, call, calls, python, expected, same>>

Nothing == "nothing"
Finished == 0
Calls == {"next", "send", "throw", "close"}

(* A delegation: the other generator, what is to be sent to it, the number *)
(* it has yielded, and whether it has not ended.                           *)
Idle == [sub |-> Fresh(<<>>), generator |-> FALSE, value |-> FALSE, item |-> 0, going |-> FALSE]

Init == /\ \E body \in Programs : code = Build(body) /\ python = Fresh(body)
        /\ state = 1
        /\ block = 1
        /\ rest = <<>>
        /\ thrown = Nothing
        /\ sent = FALSE
        /\ x = FALSE
        /\ pending = [b \in DOMAIN code.blocks |-> Nothing]
        /\ turns = [b \in DOMAIN code.blocks |-> 0]
        /\ raised = [n \in Tags |-> FALSE]
        /\ caught = [n \in Tags |-> Nothing]
        /\ delegated = [n \in Tags |-> Idle]
        /\ call = "none"
        /\ calls = 0
        /\ expected = <<>>
        /\ same = TRUE

(* The machine does something, as far as it goes what Python does next; an *)
(* answer ends the call, and must be the last thing Python does in it.     *)
Does(events) ==
  LET n == Len(events)
  IN  /\ same' = IsPrefix(events, expected)
      /\ expected' = IF same' THEN SubSeq(expected, n + 1, Len(expected)) ELSE <<>>

Answers(events) == /\ Does(events)
                   /\ rest' = <<>>
                   /\ call' = "none"
                   /\ UNCHANGED <<code, calls, python>>

(* What the caller is answered when _py2bin_run returns or raises          *)
Told(event) ==
  IF call # "close" THEN event
  ELSE CASE event[1] = "yield" -> <<"raise", "RuntimeError">>
         [] event[2] \in {"GeneratorExit", "StopIteration"} -> <<"closed">>
         [] OTHER -> event

(* It does something, or nothing, and the call goes on.                    *)
GoesOn(events) == Does(events) /\ UNCHANGED <<code, call, calls, python>>
Goes == GoesOn(<<>>)

-----------------------------------------------------------------------------
(* Slip: _edges without its second half, for a call on a finished one      *)
EdgeOfAThrow(c) == state \in {1, Finished} /\ c \in {"throw", "close"}

(* _edges: throw finds nothing suspended in a generator that has not run   *)
(* or is finished, and a finished one stops again.                         *)
Edge(c) == \/ state \in {1, Finished} /\ c \in {"throw", "close"}
           \/ state = Finished

Call(c) ==
  /\ call = "none"
  /\ calls < MaxCalls
  /\ c = "send" => state # 1
  /\ call' = c
  /\ calls' = calls + 1
  /\ python' = After(python, c)
  /\ expected' = python'.said
  /\ thrown' = CASE c = "throw" -> "E"
                 [] c = "close" -> "GeneratorExit"
                 [] OTHER -> thrown
  /\ sent' = (c = "send")
  /\ rest' = IF Edge(c) THEN <<[op |-> "edge"]>> ELSE <<>>
  /\ UNCHANGED <<code, state, block, names, same>>

(* _py2bin_refuse_send, of a generator that has not run yet                *)
RefuseSend ==
  /\ call = "none"
  /\ calls < MaxCalls
  /\ state = 1
  /\ calls' = calls + 1
  /\ python' = After(python, "send")
  /\ expected' = Tail(python'.said)
  /\ same' = (Head(python'.said) = <<"raise", "TypeError">>)
  /\ UNCHANGED <<code, machine, call>>

(* The dispatch: the block of the state, from its beginning, and round     *)
(* again where no arm is for the state.                                    *)
Dispatch == /\ call # "none"
            /\ rest = <<>>
            /\ IF state \in DOMAIN code.blocks
                 THEN block' = state /\ rest' = code.blocks[state]
                 ELSE UNCHANGED <<block, rest>>
            /\ UNCHANGED <<state, thrown, sent, names>>
            /\ Goes

-----------------------------------------------------------------------------
(* An exception in a block reaches the innermost guard that takes it: the  *)
(* first of its clauses that does, which keeps it under its name if it has *)
(* one, or else its cleanup, which takes anything and holds it.  What no   *)
(* guard takes leaves the machine finished.                                *)
Takes(guard, e) == Taker(guard.clauses, e) # 0 \/ guard.leave # 0

(* The machine does something and then raises.                             *)
Raises(events, e) ==
  LET guards == code.guards[block]
      at == SelectLastInSeq(guards, LAMBDA g : Takes(g, e))
      guard == guards[at]
      clause == Taker(guard.clauses, e)
  IN  IF at = 0
        THEN /\ state' = Finished
             /\ Answers(Append(events, Told(<<"raise", e>>)))
             /\ UNCHANGED <<pending, caught>>
        ELSE /\ rest' = <<>>
             /\ GoesOn(events)
             /\ IF clause # 0
                  THEN /\ state' = guard.entry + clause - 1
                       /\ LET name == guard.clauses[clause].name
                          IN  caught' = IF name = 0 THEN caught ELSE [caught EXCEPT ![name] = e]
                       /\ UNCHANGED pending
                  ELSE /\ state' = guard.leave
                       /\ pending' = [pending EXCEPT ![guard.leave] = e]
                       /\ UNCHANGED caught

(* One statement of the block that runs                                    *)
Running(op) == call # "none" /\ rest # <<>> /\ Head(rest).op = op
GotoBlock(b) == state' = b /\ rest' = <<>>

(* The statement is done, and what it did; or it raises.                   *)
GoOn(events) == rest' = Tail(rest) /\ GoesOn(events) /\ UNCHANGED <<state, pending, caught>>
GoOnOr(e) == IF e = Nothing THEN GoOn(<<>>) ELSE Raises(<<>>, e)

RunEdge == /\ Running("edge")
           /\ thrown' = Nothing
           /\ state' = Finished
           /\ Answers(<<Told(<<"raise", IF thrown = Nothing THEN "StopIteration" ELSE thrown>>)>>)
           /\ UNCHANGED <<block, sent, names>>

RunLog == /\ Running("log")
          /\ GoOn(<<<<"log", Head(rest).n>>>>)
          /\ UNCHANGED <<block, thrown, sent, x, turns, raised, delegated>>

RunRaise == /\ Running("raise")
            /\ Raises(<<>>, "E")
            /\ UNCHANGED <<block, thrown, sent, x, turns, raised, delegated>>

(* raise StopIteration, from where it stands                               *)
RunReturn == /\ Running("return")
             /\ Raises(<<>>, "StopIteration")
             /\ UNCHANGED <<block, thrown, sent, x, turns, raised, delegated>>

RunIf == /\ Running("if")
         /\ rest' = (IF x THEN Head(rest).body ELSE <<>>) \o Tail(rest)
         /\ UNCHANGED <<state, block, thrown, sent, names>>
         /\ Goes

RunSet == /\ Running("set")
          /\ state' = Head(rest).to
          /\ rest' = Tail(rest)
          /\ UNCHANGED <<block, thrown, sent, names>>
          /\ Goes

RunAgain == /\ Running("again")
            /\ rest' = <<>>
            /\ UNCHANGED <<state, block, thrown, sent, names>>
            /\ Goes

RunBranch ==
  LET s == Head(rest)
  IN  /\ Running("branch")
      /\ GotoBlock(IF IF s.on = 0 THEN x ELSE delegated[s.on].going THEN s.then ELSE s.otherwise)
      /\ UNCHANGED <<block, thrown, sent, names>>
      /\ Goes

RunGive ==
  LET given == Head(rest).of
      n == IF given.op = "pass on" THEN delegated[given.n].item ELSE given.n
  IN  /\ Running("give")
      /\ Answers(<<Told(<<"yield", n>>)>>)
      /\ UNCHANGED <<state, block, thrown, sent, names>>

RunRethrow == /\ Running("rethrow")
              /\ thrown' = Nothing
              /\ GoOnOr(thrown)
              /\ UNCHANGED <<block, sent, x, turns, raised, delegated>>

RunRead ==
  LET of == Head(rest).of
  IN  /\ Running("read")
      /\ GoOn(<<>>)
      /\ IF of.op = "ask" THEN x' = sent /\ UNCHANGED delegated
         ELSE delegated' = [delegated EXCEPT ![of.n].value = sent] /\ UNCHANGED x
      /\ UNCHANGED <<block, thrown, sent, turns, raised>>

RunIter == /\ Running("iter")
           /\ turns' = [turns EXCEPT ![Head(rest).loop] = Head(rest).turns]
           /\ GoOn(<<>>)
           /\ UNCHANGED <<block, thrown, sent, x, raised, delegated>>

RunItem ==
  LET s == Head(rest)
  IN  /\ Running("item")
      /\ GotoBlock(IF turns[s.loop] = 0 THEN s.after ELSE s.body)
      /\ turns' = [turns EXCEPT ![s.loop] = IF @ = 0 THEN 0 ELSE @ - 1]
      /\ UNCHANGED <<block, thrown, sent, x, pending, raised, caught, delegated>>
      /\ Goes

RunHold == /\ Running("hold")
           /\ pending' = [pending EXCEPT ![Head(rest).leave] = Nothing]
           /\ rest' = Tail(rest)
           /\ UNCHANGED <<state, block, thrown, sent, x, turns, raised, caught, delegated>>
           /\ Goes

RunPut == /\ Running("put")
          /\ GoOnOr(pending[Head(rest).leave])
          /\ UNCHANGED <<block, thrown, sent, x, turns, raised, delegated>>

-----------------------------------------------------------------------------
(* What a `with` is written out to.                                        *)

Enter == /\ Running("enter")
         /\ raised' = [raised EXCEPT ![Head(rest).n] = FALSE]
         /\ GoOn(<<<<"enter", Head(rest).n>>>>)
         /\ UNCHANGED <<block, thrown, sent, x, turns, delegated>>

NoteRaised == /\ Running("note")
              /\ raised' = [raised EXCEPT ![Head(rest).n] = TRUE]
              /\ GoOn(<<>>)
              /\ UNCHANGED <<block, thrown, sent, x, turns, delegated>>

ExitWithError ==
  LET e == caught[Head(rest).n]
      told == <<<<"exit", e>>>>
  IN  /\ Running("exit")
      /\ IF e \in CaughtBy(Head(rest).swallows) THEN GoOn(told) ELSE Raises(told, e)
      /\ UNCHANGED <<block, thrown, sent, x, turns, raised, delegated>>

ExitUnlessRaised ==
  /\ Running("leave")
  /\ GoOn(IF raised[Head(rest).n] THEN <<>> ELSE <<<<"exit", Nothing>>>>)
  /\ UNCHANGED <<block, thrown, sent, x, turns, raised, delegated>>

-----------------------------------------------------------------------------
(* What a `yield from` is written out to.                                  *)

(* What the other generator did is done in this call; it has yielded, or   *)
(* ended, or it raises.                                                    *)
TakesFrom(n, generator, ran) ==
  LET answer == Last(ran.said)
      did == Front(ran.said)
      sub == [ran EXCEPT !.said = <<>>]
  IN  CASE answer[1] = "yield" ->
             /\ GoOn(did)
             /\ delegated' = [delegated EXCEPT ![n] = [@ EXCEPT !.sub = sub, !.generator = generator,
                                                               !.item = answer[2], !.going = TRUE]]
        [] answer = <<"raise", "StopIteration">> ->
             /\ GoOn(did)
             /\ delegated' = [delegated EXCEPT ![n] = Idle]
        [] OTHER -> Raises(did, answer[2]) /\ UNCHANGED delegated

StartDelegation ==
  LET s == Head(rest)
  IN  /\ Running("start")
      /\ TakesFrom(s.n, s.generator, Sent(Fresh(s.body), FALSE))
      /\ UNCHANGED <<block, thrown, sent, x, turns, raised>>

(* What is sent and what is thrown are nothing before the yield            *)
ClearDelegation ==
  LET n == Head(rest).n
  IN  /\ Running("clear")
      /\ rest' = Tail(rest)
      /\ delegated' = [delegated EXCEPT ![n].value = FALSE]
      /\ caught' = [caught EXCEPT ![n] = Nothing]
      /\ UNCHANGED <<state, block, thrown, sent, x, pending, turns, raised>>
      /\ Goes

(* Closed while it delegates: the other is closed first, if it can be, and *)
(* what that raises is raised.                                             *)
ShutDelegation ==
  LET n == Head(rest).n
      to == delegated[n]
      closed == Closed(to.sub).said
  IN  /\ Running("shut")
      /\ CASE ~to.generator -> Raises(<<>>, caught[n])
           [] Last(closed) = <<"closed">> -> Raises(Front(closed), caught[n])
           [] OTHER -> Raises(Front(closed), Last(closed)[2])
      /\ UNCHANGED <<block, thrown, sent, x, turns, raised, delegated>>

(* The other is sent or thrown what this one was; one that cannot be sent  *)
(* to raises AttributeError, and one that cannot be thrown at has it       *)
(* raised here.                                                            *)
HandOver ==
  LET n == Head(rest).n
      to == delegated[n]
  IN  /\ Running("hand over")
      /\ CASE caught[n] # Nothing /\ ~to.generator -> Raises(<<>>, caught[n]) /\ UNCHANGED delegated
           [] caught[n] # Nothing -> TakesFrom(n, TRUE, Thrown(to.sub, caught[n]))
           [] to.value /\ ~to.generator -> Raises(<<>>, "AttributeError") /\ UNCHANGED delegated
           [] OTHER -> TakesFrom(n, to.generator, Sent(to.sub, to.value))
      /\ UNCHANGED <<block, thrown, sent, x, turns, raised>>

-----------------------------------------------------------------------------
Step == \/ Dispatch \/ RunEdge \/ RunLog \/ RunRaise \/ RunReturn \/ RunIf
        \/ RunSet \/ RunAgain \/ RunBranch \/ RunGive \/ RunRethrow \/ RunRead
        \/ RunIter \/ RunItem \/ RunHold \/ RunPut
        \/ Enter \/ NoteRaised \/ ExitWithError \/ ExitUnlessRaised
        \/ StartDelegation \/ ClearDelegation \/ ShutDelegation \/ HandOver

Next == (\E c \in Calls : Call(c)) \/ RefuseSend \/ Step

Spec == Init /\ [][Next]_vars
FairSpec == Spec /\ WF_vars(Step)

-----------------------------------------------------------------------------
(* The state is a block or the end, what is thrown and what is held are    *)
(* exceptions or nothing.                                                  *)
Exceptions == CaughtBy("BaseException")
TypeOK ==
  /\ state \in 0 .. Len(code.blocks)
  /\ block \in DOMAIN code.blocks
  /\ thrown \in {Nothing, "E", "GeneratorExit"}
  /\ sent \in BOOLEAN /\ x \in BOOLEAN
  /\ pending \in [DOMAIN code.blocks -> Exceptions \cup {Nothing}]
  /\ caught \in [Tags -> Exceptions \cup {Nothing}]
  /\ raised \in [Tags -> BOOLEAN]
  /\ \A n \in Tags : delegated[n].item \in Nat /\ delegated[n].going \in BOOLEAN
  /\ \A b \in DOMAIN turns : turns[b] \in Nat
  /\ call \in Calls \cup {"none"}
  /\ calls \in 0 .. MaxCalls

(* The body cut into blocks is the body: whatever the calls, in whatever   *)
(* order, every effect and every answer of the machine is the one Python's *)
(* generator has at that point, and none of Python's is missing when the   *)
(* call is answered (rewrite, over _Machine).                              *)
SameAsPython == same /\ (call = "none" => expected = <<>>)

(* No call goes round the dispatch loop for ever: what _edges is for.      *)
EveryCallIsAnswered == call # "none" ~> call = "none"
=============================================================================
