------------------------------ MODULE HeapSizes ------------------------------
(***************************************************************************)
(* The sizes the allocator deals in, in bytes: what a request is rounded   *)
(* to, the class a rounded request belongs to and the size of a class.     *)
(* Arithmetic is that of size_t and keeps to AddressSpace.                 *)
(***************************************************************************)
EXTENDS Integers

CONSTANT AddressSpace     \* 2^width of a size_t

Granule == 16             \* the alignment of a block, and the size of a header

(* (__n + 15) & ~15, and never zero                                        *)
Rounded(n) ==
  LET up == (((n + Granule - 1) % AddressSpace) \div Granule) * Granule
  IN  IF up = 0 THEN Granule ELSE up

(* __py2bin_heap_class_size: a granule a step up to 128, then doubling     *)
ClassSize(c) == IF c < 8 THEN (c + 1) * Granule ELSE 256 * 2 ^ (c - 8)

(* A slip: the search stops one doubling late on an exact size.            *)
ClassOfPast(n) ==
  IF n <= 128 THEN n \div Granule - 1
  ELSE LET search[c \in 8 .. 20] == IF ClassSize(c) <= n THEN search[c + 1] ELSE c
       IN  search[8]

(* __py2bin_heap_class_of: a loop over the doublings until one holds n.    *)
(* An arena of 64 MB ends it by the class of 2^26 bytes.                   *)
LastClass == 26
ClassOf(n) ==
  IF n <= 128 THEN n \div Granule - 1
  ELSE LET search[c \in 8 .. LastClass] == IF ClassSize(c) < n THEN search[c + 1] ELSE c
       IN  search[8]

(* The room a request of n bytes gets is the least any class has that is   *)
(* enough for it, and whole granules.                                      *)
GetsLeastRoom(n) ==
  LET room == ClassSize(ClassOf(Rounded(n)))
  IN  /\ room >= n /\ room % Granule = 0
      /\ \A c \in 0 .. LastClass : ClassSize(c) >= n => room <= ClassSize(c)

(* The last requests a size_t can hold are rounded past its end and get    *)
(* sixteen bytes; they are left out.                                       *)
AllGetLeastRoom ==
  \A n \in 0 .. AddressSpace - Granule :
    Rounded(n) <= ClassSize(LastClass) => GetsLeastRoom(n)
=============================================================================
