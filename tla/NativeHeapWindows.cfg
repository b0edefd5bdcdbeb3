CONSTANTS
  Threads = {t1}
  AddressSpace = 1024
  LongSpan = 128
  ArenaBytes = 96
  Arenas = {320}
  Refusals = {}
  Sizes = {1, 90}
  TicketSpan = 3
  MaxCalls = 4
SPECIFICATION Spec
INVARIANT EndIsTheArenas
CHECK_DEADLOCK FALSE
