-------------------------- MODULE TicketLockProofs --------------------------
(***************************************************************************)
(* The ticket lock excludes, for every number of threads below LongSpan    *)
(* and whatever the counters wrap at - on a target whose `long` is as wide *)
(* as the atomic word.  Mutual exclusion alone is not inductive: a thread  *)
(* inside says nothing of the tickets the others hold.  Window is what is  *)
(* kept, and it gives exclusion at once: two threads inside are both       *)
(* served the same ticket, and one thread holds it.                        *)
(***************************************************************************)
EXTENDS TicketLock, FiniteSetTheorems, TLAPS

IInv == TypeOK /\ Window

(* The threads with a ticket are finitely many, and fewer than LongSpan.   *)
LEMMA TicketedBound ==
  /\ IsFiniteSet(Ticketed)
  /\ Cardinality(Ticketed) \in Nat
  /\ Cardinality(Ticketed) <= Cardinality(Threads)
  /\ Cardinality(Threads) \in Nat
<1>1. Ticketed \subseteq Threads
  BY DEF Ticketed
<1>2. QED
  BY <1>1, ThreadsAssumption, FS_Subset, FS_CardinalityType

LEMMA InitIInv == Init => IInv
<1> SUFFICES ASSUME Init PROVE IInv
  OBVIOUS
<1>1. Ticketed = {}
  BY DEF Init, Ticketed
<1>2. Cardinality(Ticketed) = 0
  BY <1>1, FS_EmptySet
<1>3. LongSpan \in Nat /\ LongSpan > 0
  BY LongSpanAssumption, ThreadsAssumption, FS_CardinalityType
<1>4. TypeOK
  BY <1>3 DEF Init, TypeOK, Long, Places
<1>5. Window
  BY <1>1, <1>2, <1>3 DEF Init, Window, Ahead, Ticketed
<1>6. QED
  BY <1>4, <1>5 DEF IInv

(* Steps of the lock leave the width alone, and threads inside are served. *)
LEMMA NextIInv ==
  ASSUME ~WideAdd, IInv, [Next]_vars
  PROVE  IInv'
<1> USE DEF Long, Places
<1>0. LongSpan \in Nat /\ Cardinality(Threads) < LongSpan
  BY LongSpanAssumption
<1>1. ASSUME NEW t \in Threads, DrawTicket(t)
      PROVE  IInv'
  <2>1. /\ Ticketed' = Ticketed \cup {t}
        /\ t \notin Ticketed
    BY <1>1 DEF DrawTicket, Ticketed, IInv, TypeOK
  <2>2. Cardinality(Ticketed') = Cardinality(Ticketed) + 1
    BY <2>1, TicketedBound, FS_AddElement
  <2>3. /\ Ticketed' \subseteq Threads
        /\ Cardinality(Ticketed') <= Cardinality(Threads)
    BY <2>1, ThreadsAssumption, FS_Subset DEF Ticketed
  <2>4. /\ serving' = serving
        /\ ticket' = Succ(ticket)
        /\ at' = [at EXCEPT ![t] = "waiting"]
        /\ mine' = [mine EXCEPT ![t] = ticket]
    BY <1>1 DEF DrawTicket
  <2>5. TypeOK'
    BY <1>0, <2>4 DEF IInv, TypeOK, Succ
  <2>6. Ahead(ticket)' = Ahead(ticket) + 1
    BY <1>0, <2>2, <2>3, <2>4, TicketedBound DEF IInv, TypeOK, Window, Succ, Ahead
  <2>7. \A u \in Ticketed : u # t /\ mine'[u] = mine[u] /\ Ahead(mine[u])' = Ahead(mine[u])
    BY <2>1, <2>4 DEF Ahead, IInv, TypeOK, Ticketed
  <2>8. Ahead(mine[t])' = Ahead(ticket)
    BY <2>4 DEF Ahead, IInv, TypeOK
  <2>9. \A u \in Threads : Ahead(mine[u]) \in Int /\ Ahead(ticket) \in Int
    BY <1>0 DEF IInv, TypeOK, Ahead
  <2>10. Window'
    <3>1. Ahead(ticket)' = Cardinality(Ticketed')
      BY <2>2, <2>6 DEF IInv, Window
    <3>2. \A u \in Ticketed' : Ahead(mine[u])' < Ahead(ticket)'
      <4>1. \A u \in Ticketed : /\ Ahead(mine[u]) < Ahead(ticket)
                                /\ Ahead(mine[u]) \in Int
                                /\ Ahead(ticket) \in Int
        BY <2>9 DEF IInv, Window, Ticketed
      <4>2. \A u \in Ticketed : Ahead(mine[u])' < Ahead(ticket)'
        BY <2>6, <2>7, <4>1
      <4>3. Ahead(mine[t])' < Ahead(ticket)'
        BY <2>6, <2>8, <2>9
      <4>4. QED
        BY <2>1, <4>2, <4>3
    <3>3. \A u \in Ticketed : mine[u] # ticket
      <4>1. \A u \in Ticketed : Ahead(mine[u]) < Ahead(ticket) /\ Ahead(ticket) \in Int
        BY <2>9 DEF IInv, Window
      <4>2. QED
        BY <4>1
    <3>4. \A u, v \in Ticketed' : mine'[u] = mine'[v] => u = v
      BY <2>1, <2>4, <2>7, <3>3 DEF IInv, Window, TypeOK
    <3>5. \A u \in Threads : at'[u] \in {"confirming", "inside"} => mine'[u] = serving'
      BY <2>4 DEF IInv, Window, TypeOK
    <3>6. QED
      BY <3>1, <3>2, <3>4, <3>5 DEF Window
  <2>11. QED
    BY <2>5, <2>10 DEF IInv
<1>2. ASSUME NEW t \in Threads, See(t) \/ Confirm(t)
      PROVE  IInv'
  <2>1. /\ UNCHANGED <<ticket, serving, mine>>
        /\ at[t] # "outside"
        /\ serving = mine[t]
        /\ \E p \in {"confirming", "inside"} : at' = [at EXCEPT ![t] = p]
    BY <1>2 DEF See, Confirm, IInv, Window
  <2>2. Ticketed' = Ticketed
    BY <2>1 DEF Ticketed, IInv, TypeOK
  <2>3. TypeOK'
    BY <2>1 DEF IInv, TypeOK
  <2>4. \A u \in Threads : at'[u] \in {"confirming", "inside"} => mine'[u] = serving'
    BY <2>1 DEF IInv, Window, TypeOK
  <2>5. Window'
    BY <2>1, <2>2, <2>4 DEF IInv, Window, Ahead
  <2>6. QED
    BY <2>3, <2>5 DEF IInv
<1>3. ASSUME NEW t \in Threads, Give(t)
      PROVE  IInv'
  <2>1. /\ UNCHANGED <<ticket, mine>>
        /\ serving' = Succ(serving)
        /\ at[t] = "inside"
        /\ at' = [at EXCEPT ![t] = "outside"]
    BY <1>3 DEF Give
  <2>2. TypeOK'
    BY <1>0, <2>1 DEF IInv, TypeOK, Succ
  <2>3. /\ Ticketed' = Ticketed \ {t}
        /\ t \in Ticketed
        /\ mine[t] = serving
    BY <2>1 DEF Ticketed, IInv, TypeOK, Window
  <2>4. Cardinality(Ticketed') = Cardinality(Ticketed) - 1
    BY <2>3, TicketedBound, FS_RemoveElement
  <2>5. \A n \in Long : n # serving => Ahead(n)' = Ahead(n) - 1
    BY <1>0, <2>1 DEF IInv, TypeOK, Succ, Ahead
  <2>6. ticket # serving
    BY <2>3 DEF IInv, Window, TypeOK, Ahead
  <2>7. Ahead(ticket)' = Ahead(ticket) - 1
    BY <2>1, <2>5, <2>6 DEF IInv, TypeOK, Ahead
  <2>8. \A u \in Ticketed' : /\ u \in Ticketed
                             /\ mine[u] # serving
                             /\ Ahead(mine[u])' = Ahead(mine[u]) - 1
    <3> SUFFICES ASSUME NEW u \in Ticketed'
                 PROVE  /\ u \in Ticketed
                        /\ mine[u] # serving
                        /\ Ahead(mine[u])' = Ahead(mine[u]) - 1
      OBVIOUS
    <3>1. u \in Ticketed /\ mine[u] # serving
      BY <2>3 DEF IInv, Window
    <3>2. mine[u] \in Long
      BY <3>1 DEF IInv, TypeOK, Ticketed
    <3>3. QED
      BY <2>1, <2>5, <3>1, <3>2 DEF Ahead
  <2>9. \A u \in Threads : Ahead(mine[u]) \in Int /\ Ahead(ticket) \in Int
    BY <1>0 DEF IInv, TypeOK, Ahead
  <2>10. Window'
    <3>1. Ahead(ticket)' = Cardinality(Ticketed')
      BY <2>4, <2>7 DEF IInv, Window
    <3>2. \A u \in Ticketed' : Ahead(mine[u])' < Ahead(ticket)'
      BY <2>7, <2>8, <2>9 DEF IInv, Window, Ticketed
    <3>3. \A u, v \in Ticketed' : mine'[u] = mine'[v] => u = v
      BY <2>1, <2>8 DEF IInv, Window
    <3>4. \A u \in Threads : at'[u] \notin {"confirming", "inside"}
      BY <2>1, <2>3 DEF IInv, Window, TypeOK, Ticketed
    <3>5. QED
      BY <3>1, <3>2, <3>3, <3>4 DEF Window
  <2>11. QED
    BY <2>2, <2>10 DEF IInv
<1>4. CASE UNCHANGED vars
  BY <1>4 DEF vars, IInv, TypeOK, Window, Ahead, Ticketed
<1>5. QED
  BY <1>1, <1>2, <1>3, <1>4 DEF Next

(* Every counter keeps to its width and the tickets between `serving` and  *)
(* `ticket` stay exactly those of the threads that wait or are served,     *)
(* through every wrap of the counters of __py2bin_heap_take.               *)
THEOREM WindowKept ==
  ASSUME ~WideAdd
  PROVE  Spec => [](TypeOK /\ Window)
<1>1. Init => IInv
  BY InitIInv
<1>2. IInv /\ [Next]_vars => IInv'
  BY NextIInv
<1>3. QED
  BY <1>1, <1>2, PTL DEF Spec, IInv

(* No two threads are among the free lists at once, for any number of      *)
(* threads and any width of `long` that counts them.                       *)
THEOREM Exclusion ==
  ASSUME ~WideAdd
  PROVE  Spec => []MutualExclusion
<1>1. TypeOK /\ Window => MutualExclusion
  BY DEF Window, MutualExclusion, Ticketed
<1>2. QED
  BY <1>1, WindowKept, PTL
=============================================================================
