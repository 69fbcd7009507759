----------------------------- MODULE MemoryArena -----------------------------
(***************************************************************************)
(* Memory (src/structure/memory.h, memory.cpp), the bump allocator each    *)
(* StorageBuffer skip list draws its entries and nodes from.  An arena is  *)
(* a record of alloc_ptr_, alloc_bytes_remaining_, blocks_ and             *)
(* blocks_memory_; every operation maps an arena and a size to the arena   *)
(* it leaves and the address it returns.  Addresses are naturals, nullptr  *)
(* is 0.  A block that new char[] returns is placed at a fresh multiple of *)
(* BlockStride: operator new gives addresses aligned for any type (a       *)
(* multiple of 16) and never overlapping a live block; which ones it gives *)
(* does not matter to the arena.  Only the allocator's own state is        *)
(* modelled, not the bytes written into the memory.                        *)
(***************************************************************************)
EXTENDS Integers, Sequences

kBlockSize == 4096
Align == 8                 \* sizeof(void*)
BlockStride == 2 * kBlockSize

\* Memory::Memory(): no block, alloc_ptr_ = nullptr, nothing remaining.
NewMemory == [ptr |-> 0, remaining |-> 0, blocks |-> <<>>, memory |-> 0]

\* AllocateNewBlock: new char[block_bytes]; blocks_memory_ += block_bytes;
\* blocks_.push_back(result).
AllocateNewBlock(m, blockBytes) ==
    LET base == (Len(m.blocks) + 1) * BlockStride
    IN  [mem    |-> [m EXCEPT !.blocks = Append(@, [base |-> base, size |-> blockBytes]),
                              !.memory = @ + blockBytes],
         result |-> base]

\* Mutant: the small-request path forgets alloc_ptr_ += bytes.
AllocateFallbackNoBump(m, bytes) ==
    IF bytes > kBlockSize \div 4
    THEN AllocateNewBlock(m, bytes)
    ELSE LET b == AllocateNewBlock(m, kBlockSize)
         IN  [mem    |-> [b.mem EXCEPT !.ptr = b.result, !.remaining = kBlockSize - bytes],
              result |-> b.result]

\* AllocateFallback: a request above a quarter block gets a block of its
\* own and the current block stays in use; a smaller one abandons what is
\* left of the current block and bumps from a fresh kBlockSize block.
AllocateFallback(m, bytes) ==
    IF bytes > kBlockSize \div 4
    THEN AllocateNewBlock(m, bytes)
    ELSE LET b == AllocateNewBlock(m, kBlockSize)
         IN  [mem    |-> [b.mem EXCEPT !.ptr = b.result + bytes,
                                       !.remaining = kBlockSize - bytes],
              result |-> b.result]

\* Allocate (bytes > 0 asserted): bump alloc_ptr_ when the request fits in
\* what remains, otherwise AllocateFallback.
Allocate(m, bytes) ==
    IF bytes <= m.remaining
    THEN [mem    |-> [m EXCEPT !.ptr = @ + bytes, !.remaining = @ - bytes],
          result |-> m.ptr]
    ELSE AllocateFallback(m, bytes)

\* Mutant: the slop is current_mod instead of align - current_mod.
SlopOfMod(currentMod) == currentMod

\* The padding AllocateAligned skips: current_mod == 0 ? 0 : align - current_mod.
Slop(currentMod) == IF currentMod = 0 THEN 0 ELSE Align - currentMod

\* AllocateAligned: current_mod = alloc_ptr_ & (align - 1); the request
\* padded by the slop is bumped when it fits, else AllocateFallback(bytes)
\* (whose blocks are aligned).
AllocateAligned(m, bytes) ==
    LET needed == bytes + Slop(m.ptr % Align)
    IN  IF needed <= m.remaining
        THEN [mem    |-> [m EXCEPT !.ptr = @ + needed, !.remaining = @ - needed],
              result |-> m.ptr + Slop(m.ptr % Align)]
        ELSE AllocateFallback(m, bytes)

=============================================================================
