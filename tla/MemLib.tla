------------------------------- MODULE MemLib -------------------------------
(***************************************************************************)
(* The memory system of memlib.c: one region of MAX_HEAP bytes obtained    *)
(* once from the C library, and a break pointer that mem_sbrk moves        *)
(* through it.                                                             *)
(*                                                                         *)
(* Addresses and sizes are 32-bit in the build (-m32): every one is a      *)
(* number modulo WORD, which is 2^32 in the program and small in a run.    *)
(***************************************************************************)
EXTENDS Integers

CONSTANTS
  WORD,        \* size of the address space, 2^32 in the program
  MEM_START,   \* where malloc(MAX_HEAP) put the region (mem_start_brk)
  MAX_HEAP,    \* bytes in the region, 20 MB in the program
  Sizes        \* the size_t arguments callers pass: to mem_sbrk here, to the
               \* allocator in the modules built on this one

(***************************************************************************)
(* The region lies inside the address space, away from NULL and from the   *)
(* error value of mem_sbrk (all ones), and malloc aligns it on 8 bytes.   *)
(***************************************************************************)
ASSUME MemLibAssumption ==
  /\ WORD \in Nat /\ WORD % 16 = 0
  /\ MEM_START \in Nat /\ MEM_START > 0 /\ MEM_START % 8 = 0
  /\ MAX_HEAP \in Nat /\ MAX_HEAP % 8 = 0
  /\ MEM_START + MAX_HEAP < WORD
  /\ Sizes \subseteq 0 .. WORD - 1

VARIABLE mem_brk   \* the current break

mem_max_addr == MEM_START + MAX_HEAP

\* The parameter of mem_sbrk is an int: a size_t is converted on the way in.
ToInt(u) == IF u < WORD \div 2 THEN u ELSE u - WORD

\* Where the break lands. Pointer addition is modulo the address space; C
\* leaves its overflow undefined and the compiler emits the machine addition.
Advance(brk, size) == (brk + ToInt(size)) % WORD

\* An operator X_Y is X with a slip Y that the properties are to notice.
SbrkFails_AtLimit(brk, size) == ToInt(size) < 0 \/ Advance(brk, size) >= mem_max_addr

SbrkFails_Unsigned(brk, size) == Advance(brk, size) > mem_max_addr

\* The test of mem_sbrk: a negative increment or a break past the region.
SbrkFails(brk, size) ==
  \/ ToInt(size) < 0
  \/ Advance(brk, size) > mem_max_addr

-----------------------------------------------------------------------------

mem_init == mem_brk = MEM_START

mem_sbrk(size) ==
  /\ ~ SbrkFails(mem_brk, size)
  /\ mem_brk' = Advance(mem_brk, size)

mem_sbrk_fails(size) ==
  /\ SbrkFails(mem_brk, size)
  /\ UNCHANGED mem_brk

mem_reset_brk == mem_brk' = MEM_START

mem_heapsize == mem_brk - MEM_START

MemNext ==
  \/ \E size \in Sizes : mem_sbrk(size) \/ mem_sbrk_fails(size)
  \/ mem_reset_brk

MemSpec == mem_init /\ [][MemNext]_mem_brk

-----------------------------------------------------------------------------

\* The break never leaves the region malloc returned (memlib.c:71-76).
BrkInRegion == mem_brk \in MEM_START .. mem_max_addr

\* The heap cannot be shrunk by mem_sbrk (memlib.c:62-63), not even by a request so
\* large that it arrives as a negative incr: only a reset, which empties the heap,
\* moves the break down. That is so of increments for which mem_brk + incr does not
\* wrap; of others the test of line 71 knows nothing.
HeapNeverShrinks == [][mem_brk' >= mem_brk \/ mem_brk' = MEM_START]_mem_brk

=============================================================================
