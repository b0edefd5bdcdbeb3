# A verification of py2bin

py2bin turns Python, C and C++ into executables without a compiler, an assembler or a linker: it
translates (`src/py2bin/cpp_frontend.py`, `capi_*.py`), preprocesses and compiles (`c_preprocessor.py`,
`c_frontend.py`), emits machine code (`native/`), and packs what it made into bundles and one-file
programs (`freezer.py`, `onefile.py`). Most of that is sequential: one pass over one tree. What is hard
to test is in the **programs it produces** - an allocator that several threads share, locks written over
one atomic instruction, containers that build and destroy their elements one by one, launchers that
race for a cache, generators taken apart into state machines, Python integers kept in machine words -
and in the **builds** that share a cache and a lock file. That is what is modelled here, in TLA+, checked
with TLC and, in part, proved with TLAPS.

Paths below are relative to `src/py2bin/` unless they start at the repository's root.

1. [Inventory](#1-inventory)
2. [The models](#2-the-models)
3. [The runs, and what they show](#3-the-runs-and-what-they-show)
4. [Where the code and its documentation disagree](#4-where-the-code-and-its-documentation-disagree)
5. [Fairness](#5-fairness)
6. [The proofs](#6-the-proofs)
7. [What is not modelled](#7-what-is-not-modelled)
8. [Plan](#8-plan)

## 1. Inventory

| Part | Its state | What it does | What is hard | What makes it right |
|---|---|---|---|---|
| Heap lock (`c_preprocessor.py` `__py2bin_heap_take`, `_give`) | two counters | draw a ticket, wait, serve the next | interleaving, counters that wrap | one thread inside; served in order |
| Heap (`malloc`, `free`, `realloc` of the bundled `<stdlib.h>`) | arena, bump, a list per size class, a header per block | reserve, bump, unlink, link, copy | races of first callers, the bump moved before it is checked, bad `free`s | no storage in two places, none lost, contents kept |
| `std::thread`, `std::mutex`, locks (`cpp_frontend.py` `_THREADS`, `_MUTEX_HEADER`) | the mutex's word, what a `unique_lock` owns, a handle | exchange, spin, start, join, detach | interleaving, a lock given back early, a refused thread | exclusion; nothing that is guarded is lost |
| One-file launcher, Windows (`onefile.py` `_powershell_script`) | cache, temporaries, a named mutex | probe, wait, look again, unpack, replace, start | races, kills at any step, abandoned mutex, reused pids | the cache is whole, published once, never taken away |
| One-file launcher, POSIX (`onefile.py` `_posix_command`) | cache, lock directory, temporaries, traps | the same under `set -eu` | no second look, waiters that poll, signals | the same, and does not hold (section 4) |
| Containers (`cpp_frontend.py` `_VECTOR_HEADER`, `_DEQUE_HEADER`, `_LIST_HEADER`, `_MAP_HEADER`, ...) | an array and two counters, a chain of nodes, a sorted array | insert, erase, resize, assign, copy, at either end | arguments inside the container, a start that moves both ways, links both ways | each element built and destroyed once; what C++ says of the container |
| Python's locals (`capi_ints.py`, `capi_floats.py`, `capi_exact.py`, `capi_emit.py`) | a register, an object and a flag for each name | pick the names, store, compute, fall back, count | overflow, a register left behind, a type supposed too early | the program does what Python's does |
| Generators (`capi_generators.py`) | number of the block to resume in, what was thrown and sent, what a cleanup holds | `next`, `send`, `throw`, `close` of a body cut at its yields | control carried over calls and regions | does and answers what Python does |
| Fetched runtimes and wheels (`runtime_fetch.py`, `freezer.py`) | blobs by digest, a lock file of digests, the unpacked runtime | download, verify, record, replace | two builds with one lock file or one directory, interrupted writes, a runtime found in the cache | what is used is what was verified; no pin is lost |
| Fetched sources (`source_fetch.py`) | archives and trees by digest | download, verify, extract, replace | two builds, interrupted or spoilt files | a tree in the cache is the archive's; a spoilt one is replaced |
| IR optimizer (`native/optimizer.py`) | the operations of a function | settle branches, drop, merge writes | what may be dropped | the program does what it did |
| Translators and compilers (`native/frontend.py`, `capi_emit.py`, `cpp_frontend.py`, `c_frontend.py`, `c_preprocessor.py`) | a tree and its types | parse, lower, print | breadth | each construct keeps its meaning |
| Backends and formats (`native/x86_64.py`, `native/arm64.py`, `native/formats/`) | bytes | encode, lay out | breadth | the bytes are the processor's and the loader's |
| Bundles and images (`freezer.py`, `dmg.py`, `macos_seal.py`, ...) | files | write a directory once | layout | the platform accepts it |
| Command line (`cli.py`, `interactive.py`) | arguments | call the above in turn | none | - |

How they interact: the command line calls a translator, the translators hand C text to the C compiler,
the compiler hands IR to the optimizer and the backends, and the formats write it out. A program of
C++ threads calls the allocator of the bundled `<stdlib.h>`, and both stand on one instruction, the
64-bit atomic add or exchange of `Lowerer.atomic_add_builtin` (`c_frontend.py`). A one-file program
is a bundle with one of the two launchers in front, and the launchers of one program share one cache
directory, whose name is a digest of the payload. The containers and threads are text that the C++
translator puts in front of a program; the locals' analyses and the rewritten generators are read by
the printer of C (`capi_emit.py`). Fetching runs before a build, and two builds may run at once over one
cache: they share the downloads, the sources, and - all freezes of a user by default, and command lines with
one output - the directory a runtime is unpacked into, on which no lock is taken.

`PROJECT.json` lists every part with its state here, and under `hazards` each thing that could go
wrong, at its line, with the property that would notice.

## 2. The models

| Module | Models | State | Actions |
|---|---|---|---|
| `FifoLock` | what a fair lock promises | a queue, who is inside | join, enter, leave |
| `TicketLock` | `__py2bin_heap_take`, `__py2bin_heap_give` | `ticket`, `serving`, each call's `mine` | `DrawTicket`, `See`, `Confirm`, `Give`: the three accesses of the one and the one of the other |
| `HeapSizes` | `(n + 15) & ~15`, `__py2bin_heap_class_of`, `_class_size` | - | - |
| `Storage` | what an allocator promises a program | the blocks it has | grant, take back |
| `NativeHeap` | `malloc`, `free`, `realloc` | the header's statics, the lists, block headers, what payloads hold, each call's locals | one per access to memory the threads share; the lock's steps are `TicketLock`'s |
| `Mutex` | what a mutex promises its locks | whether it is free, who owns it | acquire, release |
| `StdThread` | `thread`, `mutex`, `lock_guard`, `unique_lock` | the mutex's word and the member after it, what each lock owns, handles | `Lock`, `TryLock`, `Unlock`, `Relock`, `Leave` (the destructor), and the main thread's `Start`, `StartRefused`, `Join`, `Detach` |
| `ContentCache` | what the cache promises | published or not, what each launch was told | publish, run, give up |
| `OnefileWindows` | the PowerShell text | `cache`, a temporary per process identifier, the mutex as Windows keeps it | one per command, `Fail` and `Die` |
| `OnefilePosix` | the shell text | `cache`, the lock directory, temporaries, traps | one per command, `CommandFails`, `Signal`, `Die` |
| `GeneratorPrograms` | the bodies: statements as records | - | - |
| `GeneratorMachine` | `_WithRewriter`, `_DelegationRewriter`, `_Machine`: a body written out and cut into blocks, `Build` | - | - |
| `PythonGenerator` | CPython's generator: what a body does when it is resumed | - | - |
| `Generator` | the class `rewrite` writes | `state`, `thrown`, `sent`, the cleanups' `pending`, the loops' iterators, what clauses caught, what a delegation gives and is given | the four calls, and one action per kind of statement of a block |
| `MCGenerator` | the bodies TLC is given | - | - |
| `CxxSequence`, `CxxDictionary` | what a sequence and a dictionary promise | the elements in order; the values under keys | insert, remove, put, ... |
| `CxxVector` | the bundled `vector` | per object the cells, how many are elements, whether none was misused; the steps a call is made of | one per member function that changes it, made of loops that build, assign and destroy cell by cell: `BuildEach`, `Copied`, `Emptied`, `PutEach`, `PutDown`, `PutUp`, `DestroyDown` |
| `CxxDeque` | the bundled `deque` | the array, `first`, `count` | push and pop at both ends, clear; growth is part of a push |
| `CxxList` | the bundled `list` | nodes with links both ways, head, tail, count | push and pop at both ends, clear |
| `CxxMap` | the bundled `map` and `set` | the sorted entries and what each cell holds | `write`, `insert`, `read` (`m[k]`), `erase`, `clear` |
| `MCContainers` | the four side by side, one of which is used | `which` | theirs |
| `MachineIntegers` | the word arithmetic `capi_emit.py` prints, and its overflow tests | - | - |
| `PythonValues`, `PythonLocals` | Python's values; a function run as Python runs it | the names' values | one per statement |
| `CapiLocals` | the three analyses and the C of a local | `reg`, `obj`, `flag` of each name | one per kind of statement, a fast and a slow arm in each |
| `MCCapiLocals` | the functions TLC is given | - | - |
| `RuntimeFetch` | `FetchLock`, `download_verified`, `fetch_windows_runtime`, `fetch_wheel` and their two callers | blobs, lock files, runtimes; each build's entries, digest and place; who disturbed whom (`met`, `behind`) | one per read or write of a file, `Kill` |
| `SourceFetch` | `_download`, `fetch_source` | the archive, the tree, what each build staged | one per read or write, `Kill` |
| `MCFetch` | both, for two or three builds of four | who builds, and what | theirs |
| `Optimizer` | `_settle_branches` and `optimize` | the operations read, kept and left | one per kind of turn of the two loops |
| `MCOptimizer` | the programs TLC is given, and their execution | where the two programs are | a step of each |
| `TicketLockProofs`, `NativeHeapProofs`, `OnefileWindowsProofs`, `OnefilePosixProofs`, `StdThreadProofs`, `FetchProofs`, `CompilerProofs`, `ContainersProofs` | the theorems, and the lemmas they rest on | - | - |

`TicketLock` is a lock of its own and a part of `NativeHeap`, which instantiates it over its own
variables and conjoins its actions to its own. `FifoLock`, `Storage`, `Mutex` and `ContentCache` are the abstract specifications: each is a
promise made to the code's users, and the run checks that the detailed module implements it under the
refinement mapping written at its end (the queue is the threads with a ticket in the order of their
tickets; the program's blocks are those `malloc` has returned; the mutex is free when its word is zero, and is
had by the threads whose lock's `__owns` is set; the cache is published when it is whole and marked). `CxxSequence` and
`CxxDictionary` are the same for the containers, `ContentCache` again for the fetched sources, and
`PythonGenerator`, `PythonLocals` and the execution in `MCOptimizer` are the semantics a rewrite is held
to: the generator's run compares event by event, the other two are refinements or an invariant over
both executions.

How the code's data is abstracted:

* **Addresses** are numbers in a small arena with the code's own granule of 16; a header's magic
  word is its tag, and a payload's word holds a token of the block's owner, the list's link, or what
  the kernel cleared it to.
* **Trees of files** are `none`, `some` or `all` of the payload's files, with or without the marker.
  A recursive removal is two steps, and a marker may survive the first on POSIX; what it leaves there when it
  is cut short or fails is a kind of tree of its own (`left`).
* **Width** is kept where it bites: the counters modulo `LongSpan`, the sizes modulo `AddressSpace`,
  the casts to `long` in `ToLong`. `WideAdd` and `Narrow` are the targets whose `long` is 32 bits,
  where the atomic word is still 64.
* **Python's exceptions** are one a clause may name, the two of the generator protocol, and what a
  generator that will not close (`RuntimeError`) and an iterator that takes nothing (`AttributeError`)
  answer. A local of a generator is one boolean, enough for a branch or a loop that depends on what was
  sent. What a generator delegates to is Python's own generator, or an iterator with `__next__` alone.
* **Values** of containers are two or three tokens, a cell knows whether an element stands in it, and
  `Zero` is what a new one is set to. Storage that is let go is not followed further: `NativeHeap` does.
* **Words** are four bits in the run; `MachineIntegers` is written for any `Half`, and the proofs are for
  every one. A float is a value that is not an int; which one it is makes no difference to where it is held.
* **Downloads** are digests or bytes that have none; a lock file is a set of digests or no JSON at all; an
  unpacked runtime is absent, in pieces, or whole, and of a digest or of two archives mixed. `met` and `behind`
  are no state of the code and no step of a build reads them: they say which builds were at work while
  another was in their room, and whose lock file another wrote after they had read it.
* **`free`** looks at a header in one step (`CallFree`, and `CheckOld` inside `realloc`) and writes its tag in
  another (`Retire`). A program hands it blocks, blocks given back already, unaligned addresses and ones
  outside the arena, but not one live block from two threads at once. C leaves that undefined, and here both would
  find it live and list it twice.
* **A failing command** of the shell text may be any from `rm -rf "$TMP"` to `mv`; `rm -rf "$CACHE"` fails
  with all, some or none of the cache gone. What the trap itself runs, `mkdir` of a lock that is not there and
  `rmdir` of one that is are taken to succeed.
* **Operations of the IR** are a write, a jump, a branch on a condition that may be known, a label, an exit
  and everything else, which the passes let through.

The model of the generator was compared with the rewriter itself, with each of the 628 bodies of its
run written as Python: over 40,192 sequences of calls, what `PythonGenerator` says, what CPython does
with the body, and what CPython does with the body as `capi_generators.py` rewrites it are the same.
The containers' two violations (section 4) and the fallbacks of the locals were compiled and run.

## 3. The runs, and what they show

| Run | Bounds | States | Properties |
|---|---|---|---|
| `ticket_lock` | 3 threads, counters that wrap at 5 | 1,971 | one inside; the window of tickets; served in order, and each served |
| `native_heap` | 2 threads, 4 calls, an arena of 96 bytes, requests of 1, 20 and 100 | 133,155 | blocks apart, nothing leaked, lists sound, contents kept, the least class; `Storage`; every call returns |
| `onefile_windows` | 3 launches, 2 process identifiers, failures and kills anywhere | 45,160 | one unpacks; a marked cache is whole; `ContentCache`; every launch settles |
| `onefile_posix` | 3 launches, failing commands, kills, 1 signal | 41,912 | one unpacks; a lock has an owner; a marked tree is whole, or what a removal left; undisturbed launches settle |
| `generator` | 628 bodies, 4 calls | 251,230 | the same effects and answers as Python; every call is answered |
| `std_thread` | 3 threads, 2 turns | 568,136 | exclusion; nothing lost; what was joined has run; `Mutex`; every thread ends |
| `containers` | 2 vectors of 3, a deque of 4 in up to 8 cells, 2 lists of 4 nodes, a map of 4 keys | 757,940 | each element built and destroyed once; inside the array; links both ways; in order; what C++ says |
| `capi_locals` | functions of up to 3 statements over 2 names, words of 4 bits | 35,991 | a value is held in one place; a type supposed is the type; `PythonLocals` |
| `fetch` | 2 or 3 of 4 builds, 2 digests, failures, kills and spoilt files anywhere | 539,101 | no pin lost; takes and is done with what is pinned; `ContentCache`; every build ends |
| `optimizer` | entry points of up to 5 operations | 2,199,908 | the optimized program does what the other did |
| `generator_reraises`, `cxx_deque_front` | | | one property each, violated: section 4 |

Why these bounds are enough to be worth running:

* Three threads over counters modulo five: each counter wraps many times while two wait and one is
  served, so `serving` is behind, at and beyond every ticket it can be compared with. The theorem of
  section 6 says the rest.
* The arena is exactly three of the smaller blocks (32 bytes with their header) or two of the larger
  (48), and one of each leaves 16 bytes over; a request of 100 fits in no way. So malloc fills the arena
  to its last byte, is refused, bumps past the end, and is served from a list. Two threads are enough for every pair of accesses to race, including
  two first callers in the reservation. Four calls let a block be made, given back by another thread
  and handed out again while a fourth call resizes it. `LeastClassServes` looks at every size a
  10-bit `size_t` can ask for, the boundaries of all classes up to 1 KB among them; the last fifteen
  sizes wrap and are a hazard of their own.
* Three launches: one that unpacks, one that waits for it, and one that comes after it was killed.
  Two identifiers make the third reuse one, with the temporary the first left under it.
* A body is a try of every shape - clauses that name the exception or everything, two of them in either
  order, or none; a cleanup that goes on, suspends, raises or returns; a `with` whose manager swallows
  nothing, the exception or everything; a `yield from` of a generator that raises, catches, will not
  close or ends at once, or of a plain iterator - alone, in a loop of two turns or one that goes on for as
  long as it is told to, and inside another try or `with` in a loop. Four calls reach each yield, throw
  there and ask again of what is left. Bodies the rewrite is
  known not to carry out (`CarriedIn` names them) are left out of this run; one is in section 4, the
  others are hazards.
* Containers: three elements are the fewest with a first, a middle and a last; the second object is what is
  copied, assigned and swapped; a deque of two cells grows twice on its way to eight, pushed and
  popped at both ends, so its start is at every cell of the array.
* Functions of three statements are enough for a name to be supposed a float, shown to be none by a second
  and read by a third; four bits are a word in which the sums and products of 3, 5 and -3 overflow both
  ways. Bodies where a name taken for a list is bound to something else (`UnseenByLists`) are a hazard and
  left out. Those where one taken for a float is divided in place by something that need not be a float
  (`UnseenByFloats`) are in: `TypesAreKnown` says nothing of their floats, `IsPython` does.
* Fetching: two builds of the command line have one lock file and one room, and so have two of the freezer.
  Two builds overlap as they like; of three, those with one room are made one after the other
  (`Begins`), and the third, of the other kind, overlaps them. Every build may fail or be killed at each
  step, which leaves each kind of half-written file, and any build after it meets it. Two digests are a
  runtime and its successor. What `PinsKept` says is of builds whose lock file nobody wrote since they
  read it, and `DoneWithWhatIsPinned` is of builds nobody met in their room (`Undisturbed`). The steps
  of the others are in the run, in `TakesWhatIsPinned` and in `EveryFetchEnds`, and section 4 says what becomes
  of them.
* Five operations hold a branch, its label, a jump over something and an exit, in every order.
* Three threads of two turns: one in the mutex, one spinning and one trying, and a `unique_lock` that
  is given back and taken again between. A `lock` that was refused is in `mutex::lock`'s loop, where it was
  first made (`spinning`) or taken again (`respinning`), and leaves it with the mutex only.
* Of the shell's launches, one may fail or be killed at any command, half-way through the removal of a
  cache included; another then meets its lock, its temporary or the cache, and a third runs from it.

`CHECK_DEADLOCK FALSE` is there where the system does stop: launches and builds end, a program makes
`MaxCalls` calls, threads have had their turns, an optimized program has been run. `ticket_lock` checks for deadlock.

Bounds in guards: `MaxCalls` (`NativeHeap`, `Generator`), `Begins` (`MCFetch`), `Turns` (`StdThread`), `MaxSignals`
(`OnefilePosix`), `VectorMost`, `DequeMost` and `RoomMost` (containers), `MaxInt` (`CapiLocals`: how far an unbounded
integer is followed), `MaxSteps` (`MCOptimizer`: the length of an execution that loops). Nothing else is
capped: the counters wrap as the code's do.

Each module keeps a type invariant `TypeOK`. The runs spend their time on the other properties; where
a module has proofs, its types are proved, or are the first conjunct of its inductive invariant.

Every property of a passing run has a **mutant** in `PROJECT.json`: a slip in one definition of the
model (they are in the modules, each commented as a slip) under which TLC finds that property
violated.

## 4. Where the code and its documentation disagree

Two are runs of the project, each of which must find its property violated.

* **`generator_reraises`** - a clause of a `try` with a cleanup runs outside its region: one that raises,
  returns, jumps or is thrown into at its own yield leaves without the cleanup.
* **`cxx_deque_front`** - `push_front` on a deque that holds nothing sets `first = count`, which is zero,
  and takes one from it: the element is written in the eight bytes before the array, where the allocator
  keeps its header (`cpp_frontend.py:29169`).

Further configurations beside the runs show the others; each stops at the property named in it
(`FetchOverlap.cfg` has two, and stops at the second when the first is taken out of it).

* `NativeHeapWindows.cfg` (`NativeHeap`) - the arena's end is published through a cast to `long`
  (`c_preprocessor.py:3697`). On Windows that cuts it to 32 bits and extends the sign, so for an arena
  mapped above 4 GB `end` is not the end: a low address, and malloc answers NULL from then on, or a
  negative one, and nothing bounds the bump.
* `StdThreadWindows.cfg` (`StdThread`) - the mutex is a `long`, the exchange eight bytes. Where a `long` is
  four, lock and unlock also clear the member after the mutex, and a lock spins for ever while that member
  is not zero. Compiling the corpus' own program for Windows shows the two at offsets 0 and 4.
* `OnefilePosixWaits.cfg` (`OnefilePosix`) - a launch that waits looks only for the marker. When the one it
  waits for fails its lock is gone and nobody unpacks; when it is killed its lock is there for good. The
  waiter waits for ever either way.
* `OnefilePosixLate.cfg` (`OnefilePosix`) - the marker is looked for before the lock is taken and never
  under it, so a launch that looked just before the first one published unpacks again and deletes the
  cache that program is running from. The Windows text looks a second time, and `onefile_windows` shows
  that this is enough.
* `MapFresh.cfg` (`CxxMap`) - `m[k]` of a new key opens an entry in the sorted array and writes its key
  alone: its value is what was in that cell, another key's. `m[5] += 1; m[3] += 1; m[4] += 1;` compiled
  and run gives 2 2 1.
* `FetchOverlap.cfg` (`MCFetch`) - two builds that go on at once with one lock file: the one that saves
  last writes back what it loaded and the other's digests are gone (`NoPinIsLost`), though the lock file is
  there to hold the digest of every file that was used (`runtime_fetch.py:128`). And with one directory to
  unpack into, as all freezes have by default (`freezer.py:1541`): one is done while the other has begun to
  delete the runtime (`runtime_fetch.py:437`) or to unpack over it, and hands on a directory with files missing
  or of two archives (`EveryoneFinishesWhole`).
* A removal of the cache that fails part-way (`onefile.py:142`) ends the launch through its trap and may leave
  the cache half gone and marked; later launches run it. `MarkedIsWhole` names this case (`left`).

Smaller ones are in the notes of the hazards: a `return` inside a clause that catches everything or
inside a `with`, the copies of two cleanups before one jump, an `append` to a name that is a list no
more; and a request that does not fit moves the bump by its size all the same (`c_preprocessor.py:3729`),
where the comment says that this costs nothing that was not already gone: it costs the room a smaller
request would have fitted in.

## 5. Fairness

* `TicketLock`, `NativeHeap`: weak fairness of each thread's steps inside a call. The machine runs
  every thread, the lock is a queue, and nothing more is needed. Nothing makes a program call, so
  no fairness on calls.
* `StdThread`: weak fairness of each started thread. The mutex spins and promises nobody a turn; every
  thread ends because the others' turns are finite, which is what the property says and no more. No
  fairness on the main thread: nothing makes it start, join or detach.
* `OnefileWindows`, `OnefilePosix`: weak fairness of each launch's next command; none on starting a
  launch, on failing, on dying or on signals. On Windows a free mutex is handed to somebody who
  waits, and each launch takes it once. On POSIX a waiter polls for a marker that stays, so that it
  sees it is a matter of weak fairness.
* `Generator`: weak fairness of the running call's steps; none on calling.
* `MCFetch`: weak fairness of each build's steps, a build being a process that the machine runs; none on
  `Kill`. Whether a step fails is a choice within the step, so fairness does not make downloads
  succeed.

## 6. The proofs

All theorems hold for every value of the constants that satisfies the assumptions named in the
modules. `tlapm` checks them with SMT (Z3), Zenon and, for temporal steps, LS4.

**`TicketLockProofs`**, under `~WideAdd` (a `long` as wide as the atomic word), for every finite set of
threads smaller than `LongSpan`. Exclusion alone is not inductive: a thread inside says nothing about
the tickets others hold. What is kept is `Window`: the tickets from `serving` up to `ticket`, counted
round the wrap, are exactly those of the threads that drew one and have not given the lock back, one
each, and a thread that saw its ticket served is still being served. Drawing adds one at the far end,
giving back takes the nearest off, and because there are fewer threads than `LongSpan` the two ends
never meet. `WindowKept` and `Exclusion` follow.

**`OnefileWindowsProofs`**, for any number of launches and identifiers, with or without failures and
kills. The inductive invariant adds four facts to the properties: the owner of the mutex is the launch
between the wait and the release (`OwnerIsInside`); what is about to be moved is whole and marked
(`TempIsBuilt`); whoever unpacks does so while the cache is unmarked (`UnpacksUnmarked`), which is what
the second look establishes; and whoever starts the program was shown a marked cache (`ShownMarked`).
From it: `TypesHold`, `OneUnpacksHolds`, `MarkedIsWholeHolds`, the action property
`PublishedStaysHolds`, and `Implements`, the refinement of `ContentCache`.

**`StdThreadProofs`**, under `~Narrow`, for any number of threads and turns. That an exchange answers
zero must mean that nobody is inside (`HeldByOwner`), that a lock owns must mean that its own thread is
(`OwnsInside`), what a thread has read must still be there when it writes (`SeenIsThere`), and a handle
is missing only of a thread that never began (`HandleOfBegun`). From them: `TypesHold`,
`MutualExclusionHolds`, `NothingLostHolds`, `JoinedHasRunHolds`, and `Implements`, the refinement of
`Mutex`, whose state is the word and what the locks own: that the word is zero exactly while no lock owns
(`WordAndOwners`) makes each change of the one a change of the other.

**`OnefilePosixProofs`**, for any number of launches, failures, kills and signals. The run's three
safety properties hold one another up in one invariant, with two facts more: a launch past its `trap`
command has the trap set (`Trapped`), and what it is about to mark is whole, unless a signal's trap took it
away (`UntarredIsWhole`). A failing command, `rm -rf "$CACHE"` half-way included, is in the steps they are proved
for. `TypesHold`, `OneUnpacksHolds` (as long as no signal has arrived: a trapped signal gives the lock back while the shell
goes on, which is what the code does), `LockIsSomebodysHolds`, `MarkedIsWholeHolds`.

**`NativeHeapProofs`**, for any number of threads and calls, any arenas and sizes. The theorems about memory
have two hypotheses. `Sane` leaves out what is known to go wrong: a `long` narrower than an
address (section 4), an arena the system refuses and the last fifteen sizes, whose rounding wraps (two
hazards). `BumpStays` says
that some `m` is at least the room of every class and that an arena's address plus `m` for each call stays
below `AddressSpace`: the bump moves before it is checked and never comes back, so without it enough
refused calls would carry it round. `NativeHeap.cfg` satisfies both (112 a call, four calls, from 64,
below 1024). The invariant takes `TicketLock`'s own, from `TicketLockProofs`, and adds, by name:
`Threaded`, what each place in a call says of its locals and of the lock; `Reservation`, that the arena's
three statics are written once and by one caller; `Geometry`, where a header may stand and how long its
block is; `Covered`, that every granule below the bump lies in a block or in one a caller has just taken;
`Owned`, whose hands a block is in; `Chained`, that each list is a chain without a cycle - there is a rank
that falls along its links - of free blocks of its class; and `Contents`. Every conjunct was an invariant of
the run before it was proved. From it: `TypesHold`, `ListsSoundHolds`, `BlocksApartHolds`,
`NothingLeakedHolds`, `ContentsKeptHolds` and `KeepsItsPromiseHolds`, the refinement of `Storage`.
`LeastClassServesHolds` needs neither hypothesis. `ClassOf`, `Links` and the other
recursive functions are reasoned about by `SetInduction`: induction over a set of numbers that is closed
under successor, which needs no operator as a parameter.

**`FetchProofs`**, for any number of builds, digests, lock files and rooms, shared as they like, by builds that
overlap as they like: the theorems have no hypotheses. What a build may suffer from others is in the
properties, by `met` and `behind`: `PinsKept` is of builds whose lock file nobody wrote since they read it, and
`DoneWithWhatIsPinned` of builds that met nobody in their room; a freezer, which takes what it finds there, must
also have had no predecessor in its room with another lock file. `TakesWhatIsPinned` has no such condition.
The invariant says of each build what its place means: two live builds in one room have met (`Exclusive`); what
a build has loaded is what the file says (`PinsHeldBy`), and nobody writes the file while an undisturbed
freezer works (`Abreast`); the digest it goes by is the one pinned or one it saw verified, of a blob that has it
(`Fetching`); the room is as its place says (`Unpacking`), is without a manifest until a freezer that found none has
written its own (`Absent`), and one with a manifest is whole and what its lock file names (`KeptRoom`).
`PinsAreKept`, `TakesWhatIsPinnedHolds` and `DoneIsPinned` follow. Of sources: a build past the
verification of the archive knows it is right, what it staged is what its place says, and one that
returns has the whole tree. `SourcesAppearWhole` and `SourcesAreCached`, the refinement of `ContentCache`,
follow.

**`CompilerProofs`**, of a function's locals for every width of a word, every set of names and every body of statements.
`MachineArithmeticIsPython`: sums and differences overflow exactly when the signs say so; a product is looked
at through its bounds; the quotient truncated towards zero, corrected by one when signs differ and
something is left over, is the floored one. The library has no fact about division and remainder but their
definitions, so uniqueness of the quotient is a lemma of its own (`OneQuotient`). `NoNeedlessDetour` and
`CountersStay` say when the fast arm is taken and that a counted loop stays in its word. Then the function:
`HeldOnceHolds` from types and itself, with each step split into one that stores an object, one that fails
and one that stores a register. `TypesAreKnownHolds` adds `ListsKnown` and `FloatsKnown`, and needs that
`capi_floats.py`'s striking out of names comes to an end where nothing more is struck
(`DoublesAreStable`): each round leaves the set alone or makes it smaller, and there are no more rounds than
names. `IsPythonHolds`, the refinement of `PythonLocals`, has the hypothesis that no body binds a name taken
for a list in a way `capi_exact.py` overlooks (`UnseenByLists`, a hazard); floats need none, since a
register that is not a float's is never read as one.

**`CompilerProofs`**, of the optimizer, for programs of any length over any operations. Both loops keep every label
they have passed and add no target, and an exit ends the second only where there is no control flow at all:
those are the facts the invariant carries about the part already kept, and `JumpsKeepTheirLabels` follows.

That the program does what it did (`OptimizingKeepsTheProgram`, which is `SameProgram`) rests on two
assumptions that `MCOptimizer` names. `OperationsAssumption` says how a label and a write are written down;
`LabelsAssumption`, that a program is a sequence of them in which no label stands twice and every jump has
one, which `Lowerer.new_label` sees to where labels are made and the backends check
(`native/x86_64.py:465`). Neither bounds the length of a program or what its operations write. The argument
has three parts:

* *What a loop leaves.* Of `_settle_branches` the invariant (`PassHolds`) keeps a map `h` from each operation
  it has passed to the place that operation, or what follows it if it was dropped, has in what is kept,
  and the set `dead` of the places nothing led to (`Settling`). Of the loop of `optimize` it keeps such a map
  `g`, the set `past` of what is behind an exit, and `rest`: what has been joined to a kept write and
  belongs to operations that come later (`Merging`). Each turn makes the maps longer; `MergeWrite`, which
  changes an operation that is kept already, makes `rest` longer at every place it stands for (`MergesJoin`).
* *What a program does alone.* Given what its conditions will come to, a program has one `Course`, defined by
  recursion on the number of operations (`CourseIs`: it exists). An operation of the source is answered by
  none or one of what is kept, after which the two are where the map says, having done the same
  (`SettledKeepsUp`), or the kept one is ahead by `rest` (`MergedKeepsUp`). So what has been done after any
  number of operations is done in no more, and an end is an end, or one exit short of it (`Serves`).
* *What the runs show.* Each of the three is on its course, for any way the conditions may yet come out
  (`RunHolds`). Two beginnings of one sequence agree (`BothBegin`), which is all the order of the runs
  has to do with it.

**`ContainersProofs`**, for any keys, values, nodes and number of objects, and any first room, under
`VectorAssumption` and the others of `MCContainers` (no value is the mark of an empty cell, zero is a value, and
what stands for no call is not a call). The calls are
those C++ allows but the two that are known to go wrong: `m[k]` read for a key that is not there
(`MapFresh.cfg`) and `push_front` on an empty deque whose start is zero (`cxx_deque_front`). Each
container's invariant is about its storage, and a lemma for each member function says what it leaves of it
and that this is what C++ means by the call. Of a map: the used cells are sorted, so `Find` has one answer
and `Place` splits them; a new key's cells are the old ones with one put between (`SlotIs`). Of a
deque: the elements are `count` cells from `first`, inside the array, and the two loops that move them go
in the order in which no cell is overwritten before it is read (`MovedDownIs`, `MovedUpIs`). Of a list: there
is a chain of nodes for each list, no node is in two, and all that were made and not deleted are in one
(`Chains`); `clear` is `pop_front` as often as there are elements (`ClearedIs`). Of a vector: nothing was ever
misused, and the storage is `Stored(s, n, r)`, `r` cells of which the first `n` hold a sequence `s` of values
and the others nothing. Within a call neither is so - cells are built, assigned and destroyed one after another - so
each of the loops a member function is made of is first given a closed form: what its cells hold after it, and that
none was misused, as long as the stretch it goes over was built or raw as the loop needs (`Filled`, `Laid`; from
`SameLoop`, an induction over the turns). Put together they say where each member function lands (`Lands`): on which
sequence, with nothing misused, in place and in new storage (`VectorPushBackIs`, `EraseIs`, `InPlaceIs`,
`GrowingIs`, ...). An argument inside the vector is the delicate part: it is read while its cell still
stands, or one place further along once that has moved (`Stands`, `SeenIs`). That this sequence is the one C++ names is then
a matter of sequences alone. `MapsWalkInOrder`, `DequesStayInside`, `ListsAreLinkedBothWays`,
`VectorsKeepEachElementOnce` and `ContainersKeepTheirPromises` are the run's five properties;
`VectorIsASequence`, `MapIsADictionary`, `DequeIsASequence` and `ListIsASequence` are the last one's parts.

Only model-checked:

* liveness (`EveryCallReturns`, `EveryLaunchSettles`, `EveryThreadEnds`, `EveryCallIsAnswered`,
  `EveryFetchEnds`, the fair half of `ServedInOrder`): liveness under fairness and ENABLED are beyond this prover;
* everything about generators: what a recursive definition computes for every body is an induction over
  data, which the installed provers cannot instantiate, and the generators' modules declare RECURSIVE operators;

## 7. What is not modelled

* Of what is modelled: `calloc`'s second clearing; the parsing of the command line and the wait for
  the child in the PowerShell text; async generators, `async with` and `async for`, what a generator
  returns, the record of the exception being handled, and generator expressions; `atomic<T>`, thread
  identities and `sleep`, and the trampolines that hand a callable to a new thread; a vector's range
  constructor, elements whose own copy throws, and `string`, `unordered_map`, `queue`, `stack` and the
  smart pointers; comparisons, bitwise and unary operators and deeper expressions over machine locals;
  the macOS runtime and source distributions in `runtime_fetch.py`, which are downloaded the same way; the
  flow analysis by which the native frontend knows a condition. A `long` narrower than the exchange is in
  the model and violates, so what the other runs say of threads is said of targets where the two agree.
* Calls that C++ leaves undefined - erasing past the end, popping what is empty - are not made of the
  containers.
* **Header fetching** has the same cache again.
* **Translators, compilers, backends, formats** (`native/frontend.py`, `capi_emit.py`,
  `cpp_frontend.py`, `c_frontend.py`, `c_preprocessor.py`, `native/x86_64.py`, `native/formats/`, ...):
  over 90,000 lines of sequential functions from a text to a text or to bytes. A model of one construct
  at a time, against a semantics of that construct, is possible where control is subtle, as generators
  and locals are; as a whole they are not a state machine, and a copy of them would show nothing.
* **Bundles, seals, images, command line**: file layout and I/O, with nothing else running.

These parts are most of the code by lines, so the share of lines the models stand for is small.

## 8. Plan

Done: the lock, the heap, the two launchers, generators with every statement that may hold a yield,
threads and their locks, the sequence and map containers, Python's locals in registers, both fetches and
the optimizer; proofs of the lock, the heap, both launchers, the threads, both fetches, Python's locals,
the optimizer, and all four containers.

1. `atomic<T>` and the handing over of a callable in `StdThread`; async generators; comparisons of machine
   locals.
2. `unordered_map` and `string` of the bundled C++ library, against the same abstract specifications.

The runs are kept to a dozen, each a question of its own. A new component's run takes the place of
`generator_reraises` or `cxx_deque_front`, which its hazard's note can stand for, as notes and a
configuration beside the runs do for the others of section 4.
