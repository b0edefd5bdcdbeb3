-------------------------- MODULE GeneratorMachine --------------------------
(***************************************************************************)
(* What capi_generators makes of a generator's body: a `with` and a        *)
(* `yield from` written out, the body cut into blocks at each yield        *)
(* (_Machine), and the class whose _py2bin_run dispatches on the number of *)
(* the block to run next (rewrite).                                        *)
(*                                                                         *)
(* Block 1 is the code's block 0, where a generator that has not run yet   *)
(* is, and 0 is the code's -1, where a finished one is.                    *)
(***************************************************************************)
EXTENDS GeneratorPrograms

(* The statements of a block that no body has:                             *)
(*   set, again   self.state = to ; continue                               *)
(*   give         return n, or what a delegation has to give               *)
(*   rethrow      raise what throw left, if it left anything               *)
(*   read         x, or what a delegation passes on, is what send left     *)
(*   branch       go to one block or the other, by x or by whether a       *)
(*                delegation is going on                                   *)
(*   iter, item   start on the items of a loop ; go on with the next one   *)
(*   hold, put    clear what the cleanup holds ; raise it, if it is there  *)
Set(to) == [op |-> "set", to |-> to]
Again == [op |-> "again"]
Goto(to) == <<Set(to), Again>>
Branch(on, then, otherwise) ==
  [op |-> "branch", on |-> on, then |-> then, otherwise |-> otherwise]
Item(loop, body, after) == [op |-> "item", loop |-> loop, body |-> body, after |-> after]

(* One entry of a block's guards: the clauses, the block of the first, and *)
(* the cleanup's block, which is 0 where there is none.                    *)
Guard(clauses, entry, leave) == [clauses |-> clauses, entry |-> entry, leave |-> leave]

-----------------------------------------------------------------------------
(* A `with` is written out as the try it stands for, whose handler says    *)
(* that there was an exception, asks __exit__ and raises it again if it is *)
(* not swallowed, and whose cleanup asks __exit__ if there was none.       *)
WithAsTry(s, body) ==
  <<[op |-> "enter", n |-> s.n],
    Try(body,
        <<[Clause("BaseException",
                  <<[op |-> "note", n |-> s.n],
                    [op |-> "exit", n |-> s.n, swallows |-> s.swallows]>>) EXCEPT !.name = s.n]>>,
        <<[op |-> "leave", n |-> s.n]>>)>>

(* _DELEGATION: a loop that yields what the other one yields, closes it    *)
(* when it is closed, and hands on to it what is sent or thrown.           *)
DelegationAsLoop(s) ==
  LET n == s.n
  IN  <<[op |-> "start", n |-> n, generator |-> s.generator, body |-> s.body],
        [While(<<[op |-> "clear", n |-> n],
                 Try(<<[op |-> "pass on", n |-> n]>>,
                     <<[Clause("GeneratorExit", <<[op |-> "shut", n |-> n]>>) EXCEPT !.name = n],
                       [Clause("BaseException", <<>>) EXCEPT !.name = n]>>,
                     <<>>),
                 [op |-> "hand over", n |-> n]>>) EXCEPT !.going = n]>>

RECURSIVE WriteOut(_)
(* _WithRewriter, then _DelegationRewriter                                 *)
WriteOut(body) ==
  FlattenSeq([i \in DOMAIN body |->
    LET s == body[i]
    IN  CASE s.op = "with" -> WithAsTry(s, WriteOut(s.body))
          [] s.op = "yield from" -> DelegationAsLoop(s)
          [] s.op \in {"if", "while", "for"} -> <<[s EXCEPT !.body = WriteOut(@)]>>
          [] s.op = "try" ->
               <<[s EXCEPT !.body = WriteOut(@),
                           !.clauses = [c \in DOMAIN @ |-> [@[c] EXCEPT !.body = WriteOut(@)]],
                           !.cleanup = WriteOut(@)]>>
          [] OTHER -> <<s>>])

-----------------------------------------------------------------------------
(* The passes over a loop's and a try's body.                              *)

RECURSIVE Exits(_, _, _)
(* _ExitRewriter: the jumps of a loop become gotos, those of an inner loop *)
(* are left to it.                                                         *)
Exits(body, test, after) ==
  FlattenSeq([i \in DOMAIN body |->
    LET s == body[i]
        In(part) == Exits(part, test, after)
    IN  CASE s.op = "break" -> Goto(after)
          [] s.op = "continue" -> Goto(test)
          [] s.op = "if" -> <<[s EXCEPT !.body = In(@)]>>
          [] s.op = "try" ->
               <<[s EXCEPT !.body = In(@),
                           !.clauses = [c \in DOMAIN @ |-> [@[c] EXCEPT !.body = In(@)]],
                           !.cleanup = In(@)]>>
          [] OTHER -> <<s>>])

RECURSIVE BeforeExits(_, _)
(* _CleanupBeforeExit: a copy of the cleanup in front of every jump that   *)
(* leaves the region.  The jump is a goto by now, whose `continue` is what *)
(* is found: the copy comes between its two halves.                        *)
BeforeExits(body, cleanup) ==
  FlattenSeq([i \in DOMAIN body |->
    LET s == body[i]
        In(part) == BeforeExits(part, cleanup)
    IN  CASE s.op = "again" -> Append(cleanup, s)
          [] s.op = "if" -> <<[s EXCEPT !.body = In(@)]>>
          [] s.op = "try" ->
               <<[s EXCEPT !.body = In(@),
                           !.clauses = [c \in DOMAIN @ |-> [@[c] EXCEPT !.body = In(@)]],
                           !.cleanup = In(@)]>>
          [] OTHER -> <<s>>])

-----------------------------------------------------------------------------
(* The cut.  A machine being built is its blocks and, for each, the guards *)
(* that are live while it runs, innermost last.                            *)

(* New blocks, under the guards of the region they are made in             *)
New(m, region, k) == [blocks |-> m.blocks \o [i \in 1 .. k |-> <<>>],
                      guards |-> m.guards \o [i \in 1 .. k |-> region]]
Newest(m) == Len(m.blocks)
Put(m, block, code) == [m EXCEPT !.blocks[block] = @ \o code]

RECURSIVE Emit(_, _, _, _), EmitAll(_, _, _, _)

(* A yield ends its block; the block it resumes in begins with what throw  *)
(* left.                                                                   *)
EmitYield(s, m, block, region) ==
  LET made == New(m, region, 1)
      resume == Newest(made)
      left == Put(made, block, <<Set(resume), [op |-> "give", of |-> s]>>)
      back == <<[op |-> "rethrow"]>> \o (IF s.op = "yield" THEN <<>> ELSE <<[op |-> "read", of |-> s]>>)
  IN  [machine |-> Put(left, resume, back), block |-> resume]

EmitIf(s, m, block, region) ==
  LET after == Newest(m) + 1
      then == after + 1
      made == Put(New(m, region, 2), block, <<Branch(0, then, after)>>)
      done == EmitAll(s.body, made, then, region)
  IN  [machine |-> Put(done.machine, done.block, Goto(after)), block |-> after]

(* The three blocks of a loop: its test, by which it is known, its body    *)
(* and what comes after.                                                   *)
EmitLoop(s, m, block, region, begin, again) ==
  LET test == Newest(m) + 1
      body == test + 1
      after == body + 1
      begun == Put(New(m, region, 3), block, begin \o Goto(test))
      tested == Put(begun, test, <<again>>)
      done == EmitAll(Exits(s.body, test, after), tested, body, region)
  IN  [machine |-> Put(done.machine, done.block, Goto(test)), block |-> after]

EmitWhile(s, m, block, region) ==
  LET test == Newest(m) + 1
  IN  EmitLoop(s, m, block, region, <<>>, Branch(s.going, test + 1, test + 2))

EmitFor(s, m, block, region) ==
  LET test == Newest(m) + 1
  IN  EmitLoop(s, m, block, region, <<[op |-> "iter", loop |-> test, turns |-> s.turns]>>,
               Item(test, test + 1, test + 2))

(* Slip: what a cleanup holds is not cleared when its region is entered    *)
NothingCleared(tidy, leave) == <<>>

(* What goes in front of the region of a try                               *)
Cleared(tidy, leave) == IF tidy THEN <<[op |-> "hold", leave |-> leave]>> ELSE <<>>

(* Blocks are made in this order: what comes after, an entry for every     *)
(* clause, the body, the cleanup.  The body alone is in the region.        *)
EmitTry(s, m, block, region) ==
  LET tidy == s.cleanup # <<>>
      after == Newest(m) + 1
      entry == after + 1
      body == entry + Len(s.clauses)
      leave == IF tidy THEN body + 1 ELSE after
      grown == New(m, region, Len(s.clauses) + (IF tidy THEN 3 ELSE 2))
      inner == Append(region, Guard(s.clauses, entry, IF tidy THEN leave ELSE 0))
      begun == Put([grown EXCEPT !.guards[body] = inner], block, Cleared(tidy, leave) \o Goto(body))
      ran == EmitAll(IF tidy THEN BeforeExits(s.body, s.cleanup) ELSE s.body,
                     begun, body, inner)
      tidied == EmitAll(s.cleanup, ran.machine, leave, region)
      settled == IF tidy THEN Put(tidied.machine, tidied.block,
                                  <<[op |-> "put", leave |-> leave]>> \o Goto(after))
                 ELSE tidied.machine
      WithClause(made, i) ==
        LET done == EmitAll(s.clauses[i].body, made, entry + i - 1, region)
        IN  Put(done.machine, done.block, Goto(leave))
  IN  [machine |-> FoldLeftDomain(WithClause, Put(settled, ran.block, Goto(leave)), s.clauses),
       block |-> after]

(* What does not suspend stays as it is written.                           *)
Emit(s, m, block, region) ==
  CASE ~Suspends(s) -> [machine |-> Put(m, block, <<s>>), block |-> block]
    [] s.op \in {"yield", "ask", "pass on"} -> EmitYield(s, m, block, region)
    [] s.op = "if" -> EmitIf(s, m, block, region)
    [] s.op = "while" -> EmitWhile(s, m, block, region)
    [] s.op = "for" -> EmitFor(s, m, block, region)
    [] s.op = "try" -> EmitTry(s, m, block, region)

EmitAll(body, m, block, region) ==
  FoldLeft(LAMBDA at, s : Emit(s, at.machine, at.block, region),
           [machine |-> m, block |-> block], body)

(* The machine of a body: `return` is the end of the iteration, and so is  *)
(* the end of the last block.                                              *)
Build(body) ==
  LET first == New([blocks |-> <<>>, guards |-> <<>>], <<>>, 1)
      done == EmitAll(WriteOut(body), first, 1, <<>>)
  IN  Put(done.machine, done.block, <<Return>>)
=============================================================================
