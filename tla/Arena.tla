--------------------------------- MODULE Arena ---------------------------------
(***************************************************************************)
(* core/memory_pool.hpp, class Arena: memory cut from the front of blocks, *)
(* given back all at once, and cut again from the same blocks.             *)
(*                                                                         *)
(* An address is a block and an offset from an address that every          *)
(* alignment divides; a block may begin at any of Bases.                   *)
(***************************************************************************)
EXTENDS Integers, Sequences, SequencesExt, FiniteSetsExt

CONSTANTS
  BlockSize,    \* block_size_
  Requests,     \* [size, alignment] of what callers ask for
  Bases,        \* where a block that operator new returns may begin
  MaxRequests,  \* bound: allocations between two resets
  MaxResets     \* bound

\* What the constants have to be; the runs that instantiate the module assume it.
ArenaAssumption ==
  /\ BlockSize \in Nat \ {0}
  /\ Requests \subseteq [size : Nat \ {0}, alignment : Nat \ {0}]
  /\ Bases \subseteq Nat /\ MaxRequests \in Nat /\ MaxResets \in Nat

VARIABLES
  blocks,       \* blocks_: their [base, size]
  index,        \* current_block_idx_, from 1; 0 before the first block
  current,      \* current_, in the block of that index
  total,        \* total_allocated_
  live,         \* what callers hold: [block, from, size, alignment]
  asked,        \* history: the requests since the arena was last emptied
  before,       \* history: those of the round before that, since the last clear()
  held,         \* history: how many blocks that round left
  resets        \* how often it was emptied

vars == <<blocks, index, current, total, live, asked, before, held, resets>>

Init ==
  /\ blocks = <<>> /\ index = 0 /\ current = 0 /\ total = 0
  /\ live = {} /\ asked = <<>> /\ before = <<>> /\ held = 0 /\ resets = 0

\* std::align
Aligned(p, alignment) == ((p + alignment - 1) \div alignment) * alignment
Fits(block, p, request) ==
  Aligned(p, request.alignment) + request.size <= block.base + block.size

\* The first block after the current one that can take the request from its front, if
\* any: what allocate() and allocate_from_new_block() arrive at by calling each other.
LaterBlocks(request) == {i \in (index + 1)..Len(blocks) : Fits(blocks[i], blocks[i].base, request)}

Take(request, newBlocks, i, p) ==
  LET from == Aligned(p, request.alignment) IN
  /\ blocks' = newBlocks
  /\ index' = i
  /\ current' = from + request.size
  /\ total' = total + request.size
  /\ live' = live \cup {[block |-> i, from |-> from, size |-> request.size, alignment |-> request.alignment]}
  /\ asked' = Append(asked, request)
  /\ UNCHANGED <<before, held, resets>>

FitsCurrent(request) == index > 0 /\ Fits(blocks[index], current, request)

InCurrent(request) == FitsCurrent(request) /\ Take(request, blocks, index, current)

InLater(request) ==
  /\ ~FitsCurrent(request) /\ LaterBlocks(request) # {}
  /\ LET i == Min(LaterBlocks(request)) IN Take(request, blocks, i, blocks[i].base)

InNew(request, base) ==
  /\ ~FitsCurrent(request) /\ LaterBlocks(request) = {}
  /\ LET size == Max({BlockSize, request.size + request.alignment}) IN
     Take(request, Append(blocks, [base |-> base, size |-> size]), Len(blocks) + 1, base)

Allocate ==
  /\ Len(asked) < MaxRequests
  /\ \E request \in Requests :
       InCurrent(request) \/ InLater(request) \/ \E base \in Bases : InNew(request, base)

\* Mutant: the blocks after the current one are not used again.
Reset_KeepsIndex ==
  /\ resets < MaxResets
  /\ IF blocks # <<>>
       THEN index' = index /\ current' = blocks[index].base
       ELSE UNCHANGED <<index, current>>
  /\ total' = 0
  /\ live' = {} /\ asked' = <<>> /\ before' = asked /\ held' = Len(blocks) /\ resets' = resets + 1
  /\ UNCHANGED blocks

\* reset()
Reset ==
  /\ resets < MaxResets
  /\ IF blocks # <<>> THEN index' = 1 /\ current' = blocks[1].base ELSE UNCHANGED <<index, current>>
  /\ total' = 0
  /\ live' = {} /\ asked' = <<>> /\ before' = asked /\ held' = Len(blocks) /\ resets' = resets + 1
  /\ UNCHANGED blocks

\* clear()
Clear ==
  /\ resets < MaxResets
  /\ blocks' = <<>> /\ index' = 0 /\ current' = 0 /\ total' = 0
  /\ live' = {} /\ asked' = <<>> /\ before' = <<>> /\ held' = 0 /\ resets' = resets + 1

Next == Allocate \/ Reset \/ Clear

Spec == Init /\ [][Next]_vars

-------------------------------------------------------------------------------

\* Two callers never hold the same byte, what they hold is aligned and inside a block;
\* and a caller that asks again for what it asked for before the reset gets it without
\* another block ("reuse memory without freeing").
ArenaReusesSafely ==
  /\ \A a \in live :
       /\ a.from % a.alignment = 0
       /\ blocks[a.block].base <= a.from
       /\ a.from + a.size <= blocks[a.block].base + blocks[a.block].size
       /\ \A b \in live \ {a} :
            a.block = b.block => a.from + a.size <= b.from \/ b.from + b.size <= a.from
  /\ total = SumFunctionOnSet([a \in live |-> a.size], live)
  /\ IsPrefix(asked, before) => Len(blocks) = held
===============================================================================
