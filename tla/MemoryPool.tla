----------------------------- MODULE MemoryPool -----------------------------
(***************************************************************************)
(* One MemoryPool (src/memory/memoryPool.cc) and the threads that take     *)
(* objects of one size from it and give them back.                         *)
(*                                                                         *)
(* mutexForFreeList_ and mutexForBlock_ protect different parts, but       *)
(* allocateNewBlock also stores to freeList_, under the second one only.   *)
(* So each access to freeList_ is a step; the block section, whose other   *)
(* variables nobody else touches, is one step.  The free list, linked      *)
(* through the slots themselves, is the sequence of their addresses.       *)
(***************************************************************************)
EXTENDS Integers, SequencesExt

CONSTANTS Threads,
          Size,           \* size of the objects, in bytes
          BlockSize_,
          Blocks,         \* addresses operator new may return
          SizeModulus,    \* size_t is computed modulo this power of two
          MaxOwned        \* bound on the objects of one thread

SLOT_BASE_SIZE == 8
MAX_SLOT_SIZE == 512
MEMORY_POOL_NUM == 64

ASSUME SizeAssumption == Size \in 1 .. MAX_SLOT_SIZE
ASSUME SizeModulusAssumption == SizeModulus \in Nat \ {0}
ASSUME MaxOwnedAssumption == MaxOwned \in Nat

\* HashBucket: the pool for a size, and the slot size of a pool.
PoolIndex(size) == (size + 7) \div SLOT_BASE_SIZE - 1
PoolSlotSize(index) == (index + 1) * SLOT_BASE_SIZE

SlotSize_ == PoolSlotSize(PoolIndex(Size))

\* sizeof(Slot*), the link to the next block at the start of a block.
Header == 8

\* A block has room for its link, any padding and one slot.
ASSUME BlockSizeAssumption == BlockSize_ \in Nat /\ BlockSize_ >= Header + 2 * SlotSize_
\* operator new returns distinct blocks that do not overlap.
ASSUME BlocksAssumption ==
  /\ Blocks \subseteq Nat \ {0}
  /\ \A b, c \in Blocks : b < c => b + BlockSize_ <= c

VARIABLES
  freeList_,
  curSlot_, lastSlot_,
  blocks,         \* the blocks linked from firstBlock_
  lockFree,       \* who holds mutexForFreeList_, a set
  pc,             \* thread -> where it is
  local,          \* thread -> the free list it is about to store, or has read
  owned,          \* thread -> the slots it has
  crashed         \* a null pointer was dereferenced

vars == <<freeList_, curSlot_, lastSlot_, blocks, lockFree, pc, local, owned, crashed>>
blockVars == <<curSlot_, lastSlot_, blocks>>

\* list: allocate has seen a free list.  pop: it has the lock and the first
\* slot.  block: it goes to the block.  push: deallocate has linked its slot.
PCs == {"idle", "list", "pop", "block", "push"}

Init ==
  /\ freeList_ = <<>>
  /\ curSlot_ = 0
  /\ lastSlot_ = 0
  /\ blocks = {}
  /\ lockFree = {}
  /\ pc = [t \in Threads |-> "idle"]
  /\ local = [t \in Threads |-> <<>>]
  /\ owned = [t \in Threads |-> {}]
  /\ crashed = FALSE

Goto(t, from, to) == pc[t] = from /\ pc' = [pc EXCEPT ![t] = to]

\* allocate(): the test of freeList_ outside the lock.
Allocate(t) ==
  /\ Cardinality(owned[t]) < MaxOwned
  /\ Goto(t, "idle", IF freeList_ # <<>> THEN "list" ELSE "block")
  /\ UNCHANGED <<freeList_, lockFree, local, owned, crashed>>
  /\ UNCHANGED blockVars

\* The lock and the second test; temp = freeList_.
LockFreeList(t) ==
  /\ lockFree = {}
  /\ IF freeList_ # <<>>
       THEN /\ Goto(t, "list", "pop")
            /\ lockFree' = {t}
            /\ local' = [local EXCEPT ![t] = freeList_]
       ELSE /\ Goto(t, "list", "block")
            /\ UNCHANGED <<lockFree, local>>
  /\ UNCHANGED <<freeList_, owned, crashed>>
  /\ UNCHANGED blockVars

\* Mutant: the slot is not taken off the list.
PopKeepsHead(t) ==
  /\ Goto(t, "pop", "idle")
  /\ lockFree' = {}
  /\ owned' = [owned EXCEPT ![t] = @ \cup {Head(local[t])}]
  /\ local' = [local EXCEPT ![t] = <<>>]
  /\ UNCHANGED <<freeList_, crashed>>
  /\ UNCHANGED blockVars

\* freeList_ = freeList_->next.  The compiler may read freeList_ again, and then
\* finds null if allocateNewBlock has cleared it meanwhile.
Pop(t) ==
  /\ Goto(t, "pop", "idle")
  /\ lockFree' = {}
  /\ \/ /\ freeList_' = Tail(local[t])
        /\ owned' = [owned EXCEPT ![t] = @ \cup {Head(local[t])}]
        /\ UNCHANGED crashed
     \/ /\ freeList_ = <<>>
        /\ crashed' = TRUE
        /\ UNCHANGED <<freeList_, owned>>
  /\ local' = [local EXCEPT ![t] = <<>>]
  /\ UNCHANGED blockVars

\* padPointer in unsigned arithmetic.
PadPointer(p, align) == ((align - p) % SizeModulus) % align

\* Mutant: the slot size is not subtracted.
LastSlotTooFar(new) == new + BlockSize_ + 1

\* allocateNewBlock: where the slots of a new block begin, and the first address
\* at which no further slot fits.
FirstSlot(new) == new + Header + PadPointer(new + Header, SlotSize_)
LastSlot(new) == new + BlockSize_ - SlotSize_ + 1

\* The section of mutexForBlock_: the next slot of the block, or the first one
\* of a new block, for which allocateNewBlock also clears freeList_.
TakeFromBlock(t) ==
  /\ Goto(t, "block", "idle")
  /\ \/ /\ curSlot_ < lastSlot_
        /\ owned' = [owned EXCEPT ![t] = @ \cup {curSlot_}]
        /\ curSlot_' = curSlot_ + SlotSize_
        /\ UNCHANGED <<freeList_, lastSlot_, blocks>>
     \/ /\ curSlot_ >= lastSlot_
        /\ \E new \in Blocks \ blocks :
             /\ blocks' = blocks \cup {new}
             /\ lastSlot_' = LastSlot(new)
             /\ owned' = [owned EXCEPT ![t] = @ \cup {FirstSlot(new)}]
             /\ curSlot_' = FirstSlot(new) + SlotSize_
        /\ freeList_' = <<>>
  /\ UNCHANGED <<lockFree, local, crashed>>

\* deallocate(): under the lock the slot is linked in front of freeList_ ...
Deallocate(t, slot) ==
  /\ Goto(t, "idle", "push")
  /\ lockFree = {}
  /\ lockFree' = {t}
  /\ slot \in owned[t]
  /\ owned' = [owned EXCEPT ![t] = @ \ {slot}]
  /\ local' = [local EXCEPT ![t] = <<slot>> \o freeList_]
  /\ UNCHANGED <<freeList_, crashed>>
  /\ UNCHANGED blockVars

\* ... and becomes its head.
Push(t) ==
  /\ Goto(t, "push", "idle")
  /\ lockFree' = {}
  /\ freeList_' = local[t]
  /\ local' = [local EXCEPT ![t] = <<>>]
  /\ UNCHANGED <<owned, crashed>>
  /\ UNCHANGED blockVars

Step(t) ==
  \/ Allocate(t) \/ LockFreeList(t) \/ Pop(t) \/ TakeFromBlock(t)
  \/ (\E slot \in owned[t] : Deallocate(t, slot)) \/ Push(t)

Next == ~crashed /\ \E t \in Threads : Step(t)

Spec == Init /\ [][Next]_vars

-----------------------------------------------------------------------------
(* Properties.                                                             *)

Slots == UNION {owned[t] : t \in Threads}

\* No slot has two owners, and none is owned and free at the same time, although
\* the two mutexes do not exclude each other and freeList_ is cleared under the
\* wrong one.
OneOwner ==
  /\ \A t, u \in Threads : t # u => owned[t] \cap owned[u] = {}
  /\ Slots \cap ToSet(freeList_) = {}
  /\ \A t \in Threads : pc[t] = "push" => Slots \cap ToSet(local[t]) = {}

\* The objects that are in use lie inside the pool's blocks, behind the link
\* word, and do not overlap.
ObjectsFit ==
  /\ \A s \in Slots : \E b \in blocks : b + Header <= s /\ s + Size <= b + BlockSize_
  /\ \A s, u \in Slots : s < u => s + Size <= u
=============================================================================
