------------------------------ MODULE Optimizer -----------------------------
(***************************************************************************)
(* py2bin's IR optimizer, native/optimizer.py: _settle_branches, which is  *)
(* run over the entry point and over every function, and the loop of       *)
(* optimize over what that leaves of the entry point.  Each turn of either *)
(* loop is a step.                                                         *)
(*                                                                         *)
(* An operation is a record.  Of a branch, the passes see whether its      *)
(* condition is a constant, and which; of a write, its bytes and where     *)
(* they go; `effect` stands for the operations they let through untouched. *)
(***************************************************************************)
EXTENDS Integers, Sequences, FiniteSets

CONSTANTS Operations,   \* the operations a program may be made of
          Programs      \* the entry points: sequences of operations

VARIABLES source,       \* the entry point
          phase,        \* "settle", then "merge", then "close", then "done"
          at,           \* the operation the loop is at
          settled,      \* what _settle_branches has kept so far
          unreachable,  \* whether nothing leads to the operation it is at
          optimized,    \* what optimize has kept so far
          terminated    \* whether optimize has kept an exit nothing leads past

vars == <<source, phase, at, settled, unreachable, optimized, terminated>>

Label(l)     == [op |-> "label", name |-> l]
Jump(l)      == [op |-> "jump", target |-> l]
Branch(c, l) == [op |-> "branch", cond |-> c, target |-> l]
Write(fd, d) == [op |-> "write", fd |-> fd, data |-> d]
Exit         == [op |-> "exit"]

Leaps  == {"jump", "branch"}
Last(s) == s[Len(s)]

Labels(s)  == {s[i].name : i \in {j \in DOMAIN s : s[j].op = "label"}}
Targets(s) == {s[i].target : i \in {j \in DOMAIN s : s[j].op \in Leaps}}

Init == /\ source \in Programs
        /\ phase = "settle"
        /\ at = 1
        /\ settled = <<>>
        /\ unreachable = FALSE
        /\ optimized = <<>>
        /\ terminated = FALSE

-----------------------------------------------------------------------------
(* _settle_branches: a turn looks at one operation, and adds what is given *)
(* to what is kept.                                                        *)
Looking == phase = "settle" /\ at <= Len(source)
It == source[at]
Dead == unreachable /\ It.op # "label"

Settles(kept, dead) == /\ settled' = settled \o kept
                       /\ unreachable' = dead
                       /\ at' = at + 1
                       /\ UNCHANGED <<source, phase, optimized, terminated>>

SettleDead == /\ Looking
              /\ Dead
              /\ Settles(<<>>, TRUE)

(* A slip: the test of a condition that is zero goes, and not the branch.  *)
SettleBranchTheOtherWay ==
  /\ Looking
  /\ ~Dead
  /\ It.op = "branch"
  /\ \/ It.cond = "zero" /\ Settles(<<>>, FALSE)
     \/ It.cond = "other" /\ Settles(<<Jump(It.target)>>, TRUE)
     \/ It.cond = "unknown" /\ Settles(<<It>>, FALSE)

(* A false condition always jumps; a true one never does.                  *)
SettleBranch == /\ Looking
                /\ ~Dead
                /\ It.op = "branch"
                /\ \/ It.cond = "zero" /\ Settles(<<Jump(It.target)>>, TRUE)
                   \/ It.cond = "other" /\ Settles(<<>>, FALSE)
                   \/ It.cond = "unknown" /\ Settles(<<It>>, FALSE)

SettleOther == /\ Looking
               /\ ~Dead
               /\ It.op # "branch"
               /\ Settles(<<It>>, It.op = "jump")

EndSettling == /\ phase = "settle"
               /\ at > Len(source)
               /\ phase' = "merge"
               /\ at' = 1
               /\ UNCHANGED <<source, settled, unreachable, optimized, terminated>>

-----------------------------------------------------------------------------
(* The loop of optimize over what is settled.                              *)
HasControlFlow == \E i \in DOMAIN settled : settled[i].op \in Leaps \cup {"label"}

Merging == phase = "merge" /\ at <= Len(settled)
This == settled[at]

Keeps(kept, ends) == /\ optimized' = kept
                     /\ terminated' = ends
                     /\ at' = at + 1
                     /\ UNCHANGED <<source, phase, settled, unreachable>>

DropTheRest == /\ Merging
               /\ terminated
               /\ Keeps(optimized, TRUE)

DropEmptyWrite == /\ Merging
                  /\ ~terminated
                  /\ This.op = "write" /\ This.data = <<>>
                  /\ Keeps(optimized, FALSE)

Joins == /\ optimized # <<>>
         /\ Last(optimized).op = "write"
         /\ Last(optimized).fd = This.fd

MergeWrite == /\ Merging
              /\ ~terminated
              /\ This.op = "write" /\ This.data # <<>>
              /\ Joins
              /\ Keeps([optimized EXCEPT ![Len(optimized)] = Write(This.fd, @.data \o This.data)], FALSE)

Keep == /\ Merging
        /\ ~terminated
        /\ This.op = "write" => This.data # <<>> /\ ~Joins
        /\ Keeps(Append(optimized, This), This.op = "exit" /\ ~HasControlFlow)

EndMerging == /\ phase = "merge"
              /\ at > Len(settled)
              /\ phase' = "close"
              /\ UNCHANGED <<source, at, settled, unreachable, optimized, terminated>>

(* An entry point that does not end with an exit is given one.             *)
Close == /\ phase = "close"
         /\ phase' = "done"
         /\ optimized' = IF optimized = <<>> \/ Last(optimized).op # "exit"
                         THEN Append(optimized, Exit) ELSE optimized
         /\ UNCHANGED <<source, at, settled, unreachable, terminated>>

Next == \/ SettleDead \/ SettleBranch \/ SettleOther \/ EndSettling
        \/ DropTheRest \/ DropEmptyWrite \/ MergeWrite \/ Keep \/ EndMerging \/ Close

Spec == Init /\ [][Next]_vars

(* Whatever is dropped, a jump that is kept still has its label: in a      *)
(* function's body and in the entry point alike.                           *)
WellFormed(s) == Targets(s) \subseteq Labels(s)

TargetsStand == WellFormed(source) =>
                  /\ phase # "settle" => WellFormed(settled)
                  /\ phase = "done" => WellFormed(optimized)
=============================================================================
