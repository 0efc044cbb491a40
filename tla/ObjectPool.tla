------------------------------ MODULE ObjectPool ------------------------------
(***************************************************************************)
(* core/memory_pool.hpp, ObjectPool and ThreadLocalPool: one pool for each *)
(* thread, each a list of free objects that grows by a block at a time.    *)
(* An object is given back to the pool of the thread that gives it back,   *)
(* whichever pool it came from.                                            *)
(***************************************************************************)
EXTENDS Integers, Sequences, FiniteSets, FiniteSetsExt, SequencesExt

CONSTANTS
  Threads,
  BlockSize,
  SizeValues,  \* the values of a size_t, which counts modulo their number
  MaxBlocks    \* bound: the blocks the system has memory for

\* What the constants have to be; the runs that instantiate the module assume it.
\* A size_t can count the objects there is memory for.
PoolAssumption ==
  /\ BlockSize \in Nat \ {0} /\ MaxBlocks \in Nat
  /\ SizeValues \in Nat \ {0} /\ MaxBlocks * BlockSize < SizeValues

VARIABLES
  free,        \* free_list_ of each pool, its head first
  capacity, allocated,
  blocks,      \* the blocks of all the pools
  live         \* the objects callers hold

vars == <<free, capacity, allocated, blocks, live>>

Wrap(n) == n % SizeValues

\* The objects of the n blocks after the first m, as grow() links them, called n times:
\* the last object of the last block is the head.
BlocksAfter(m, n) == [i \in 1..(n * BlockSize) |-> (m + n) * BlockSize - i + 1]

Init ==
  /\ free = [t \in Threads |-> <<>>]
  /\ capacity = [t \in Threads |-> 0] /\ allocated = [t \in Threads |-> 0]
  /\ blocks = 0 /\ live = {}

\* reserve()
Reserve(t, count) ==
  LET missing == (count - capacity[t] + BlockSize - 1) \div BlockSize IN
  /\ capacity[t] < count /\ blocks + missing <= MaxBlocks
  /\ free' = [free EXCEPT ![t] = BlocksAfter(blocks, missing) \o @]
  /\ capacity' = [capacity EXCEPT ![t] = @ + missing * BlockSize]
  /\ blocks' = blocks + missing
  /\ UNCHANGED <<allocated, live>>

\* Mutant: an empty pool that grows starts its count anew.
Allocate_Recounts(t) ==
  LET grows == free[t] = <<>>
      f     == IF grows THEN BlocksAfter(blocks, 1) ELSE free[t]
  IN  /\ grows => blocks < MaxBlocks
      /\ blocks' = blocks + (IF grows THEN 1 ELSE 0)
      /\ capacity' = [capacity EXCEPT ![t] = @ + (IF grows THEN BlockSize ELSE 0)]
      /\ free' = [free EXCEPT ![t] = Tail(f)]
      /\ allocated' = [allocated EXCEPT ![t] = IF grows THEN 1 ELSE Wrap(@ + 1)]
      /\ live' = live \cup {Head(f)}

\* allocate(), which grows a pool that has run out.
Allocate(t) ==
  LET grows == free[t] = <<>>
      f     == IF grows THEN BlocksAfter(blocks, 1) ELSE free[t]
  IN  /\ grows => blocks < MaxBlocks
      /\ blocks' = blocks + (IF grows THEN 1 ELSE 0)
      /\ capacity' = [capacity EXCEPT ![t] = @ + (IF grows THEN BlockSize ELSE 0)]
      /\ free' = [free EXCEPT ![t] = Tail(f)]
      /\ allocated' = [allocated EXCEPT ![t] = Wrap(@ + 1)]
      /\ live' = live \cup {Head(f)}

\* deallocate(), by any thread that has come by the object.
Deallocate(t, object) ==
  /\ live' = live \ {object}
  /\ free' = [free EXCEPT ![t] = <<object>> \o @]
  /\ allocated' = [allocated EXCEPT ![t] = Wrap(@ - 1)]
  /\ UNCHANGED <<capacity, blocks>>

Next == \E t \in Threads :
          \/ \E count \in 1..(BlockSize + 1) : Reserve(t, count)
          \/ Allocate(t)
          \/ \E object \in live : Deallocate(t, object)

Spec == Init /\ [][Next]_vars

-------------------------------------------------------------------------------

\* available()
Available(t) == Wrap(capacity[t] - allocated[t])

\* However objects wander between threads, each is in one place: held by a caller, or
\* once in one free list. And available() tells what the list holds, although the
\* count of allocated objects goes below zero and around.
ObjectsAccountedFor ==
  /\ \A t \in Threads : IsInjective(free[t]) /\ Available(t) = Len(free[t])
  /\ \A t, u \in Threads : t # u => ToSet(free[t]) \cap ToSet(free[u]) = {}
  /\ \A t \in Threads : ToSet(free[t]) \cap live = {}
  /\ live \cup UNION {ToSet(free[t]) : t \in Threads} = 1..(blocks * BlockSize)
===============================================================================
