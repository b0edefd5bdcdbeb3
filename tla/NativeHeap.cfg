\* Two threads, four calls between them, an arena of six granules, and sizes
\* of two classes that do not divide it.
CONSTANTS
  Threads = {t1, t2}
  AddressSpace = 1024
  LongSpan = 1024
  ArenaBytes = 96
  Arenas = {64}
  Refusals = {}
  Sizes = {1, 20, 100}
  TicketSpan = 3
  MaxCalls = 4
SPECIFICATION FairSpec
INVARIANTS BlocksApart NothingLeaked ListsSound ContentsKept LeastClassServes
PROPERTIES KeepsItsPromise EveryCallReturns
CHECK_DEADLOCK FALSE
