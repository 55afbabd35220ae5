------------------------- MODULE MemoryPool_proofs -------------------------
(***************************************************************************)
(* MemoryPool, for any number of threads, any size of object and of block, *)
(* and any blocks that operator new may return.                            *)
(***************************************************************************)
EXTENDS MemoryPool, ListLemmas

-----------------------------------------------------------------------------
(* The arithmetic of slots and blocks.                                     *)

\* The pool that HashBucket picks has slots that the object fits in.
LEMMA SlotSizeFits == SlotSize_ \in Nat /\ Size \in Nat /\ Size <= SlotSize_ /\ 1 <= Size
BY SizeAssumption DEF SlotSize_, PoolSlotSize, PoolIndex, SLOT_BASE_SIZE, MAX_SLOT_SIZE

LEMMA ModRange ==
  ASSUME NEW x \in Int, NEW n \in Nat, n > 0
  PROVE  x % n \in Nat /\ x % n < n
OBVIOUS

\* The padding is less than a slot, even where the subtraction wraps.
LEMMA PadRange ==
  ASSUME NEW p \in Nat
  PROVE  PadPointer(p, SlotSize_) \in Nat /\ PadPointer(p, SlotSize_) < SlotSize_
<1> DEFINE q == (SlotSize_ - p) % SizeModulus
<1>1. SlotSize_ \in Nat /\ SlotSize_ > 0
  BY SlotSizeFits
<1>2. q \in Int
  BY <1>1, SizeModulusAssumption, ModRange
<1> HIDE DEF q
<1>3. q % SlotSize_ \in Nat /\ q % SlotSize_ < SlotSize_
  BY <1>1, <1>2, ModRange
<1> QED
  BY <1>3 DEF PadPointer, q

\* In a new block the first slot fits behind the link word.
LEMMA FirstSlotFits ==
  ASSUME NEW b \in Blocks
  PROVE  /\ b \in Nat /\ FirstSlot(b) \in Nat /\ LastSlot(b) \in Nat
         /\ b + Header <= FirstSlot(b) /\ FirstSlot(b) + SlotSize_ <= b + BlockSize_
         /\ LastSlot(b) + SlotSize_ = b + BlockSize_ + 1
<1>1. b \in Nat /\ SlotSize_ \in Nat /\ BlockSize_ \in Nat /\ BlockSize_ >= 8 + 2 * SlotSize_
  BY BlocksAssumption, BlockSizeAssumption, SlotSizeFits DEF Header
<1> DEFINE pad == PadPointer(b + Header, SlotSize_)
<1>2. pad \in Nat /\ pad < SlotSize_
  BY <1>1, PadRange DEF Header
<1>3. FirstSlot(b) = b + 8 + pad /\ LastSlot(b) = b + BlockSize_ - SlotSize_ + 1
  BY DEF FirstSlot, LastSlot, Header
<1> HIDE DEF pad
<1> QED
  BY <1>1, <1>2, <1>3 DEF Header

-----------------------------------------------------------------------------
(* The inductive invariant.                                                *)

Types ==
  /\ freeList_ \in Seq(Nat)
  /\ curSlot_ \in Nat /\ lastSlot_ \in Nat
  /\ blocks \subseteq Blocks
  /\ lockFree \subseteq Threads
  /\ pc \in [Threads -> PCs]
  /\ local \in [Threads -> Seq(Nat)]
  /\ owned \in [Threads -> SUBSET Nat]

\* mutexForFreeList_: who is between its lock and its unlock, and that nobody
\* else has a copy of the free list.
LockInv ==
  /\ \A t \in Threads : t \in lockFree <=> pc[t] \in {"pop", "push"}
  /\ \A t, u \in lockFree : t = u
  /\ \A t \in Threads : pc[t] \notin {"pop", "push"} => local[t] = <<>>
  /\ \A t \in Threads : pc[t] = "pop" => local[t] # <<>>

\* Nothing is in two places; the copy of the free list that a popping thread
\* has may be all that is left of it.
OwnInv ==
  /\ \A t, u \in Threads : t # u => owned[t] \cap owned[u] = {}
  /\ \A t \in Threads : owned[t] \cap Elements(freeList_) = {}
  /\ \A t, u \in Threads : owned[t] \cap Elements(local[u]) = {}
  /\ Distinct(freeList_)
  /\ \A t \in Threads : Distinct(local[t])

\* Every slot that has ever been handed out and can be reached still.
Handed ==
  (UNION {owned[t] : t \in Threads}) \cup Elements(freeList_)
    \cup UNION {Elements(local[t]) : t \in Threads}

\* s is a slot inside block b, behind its link word.
Inside(s, b) == b + Header <= s /\ s + SlotSize_ <= b + BlockSize_

\* The slots lie in the blocks and do not overlap, and the rest of the block
\* that curSlot_ points into is free of them.
Layout(H) ==
  /\ \A s \in H : \E b \in blocks : Inside(s, b)
  /\ \A s, u \in H : s < u => s + SlotSize_ <= u
  /\ \/ curSlot_ >= lastSlot_
     \/ \E b \in blocks :
          /\ lastSlot_ = LastSlot(b) /\ b + Header <= curSlot_
          /\ \A s \in H : s + SlotSize_ <= curSlot_ \/ b + BlockSize_ <= s

PoolInv == Types /\ LockInv /\ OwnInv /\ Layout(Handed)

LEMMA PoolInit == Init => PoolInv
<1> SUFFICES ASSUME Init PROVE PoolInv
  OBVIOUS
<1>1. Elements(<<>>) = {} /\ Distinct(<<>>) /\ <<>> \in Seq(Nat)
  BY DEF Elements, Distinct
<1>2. \A t \in Threads : local[t] = <<>> /\ owned[t] = {} /\ pc[t] = "idle"
  BY DEF Init
<1>3. freeList_ = <<>> /\ lockFree = {}
  BY DEF Init
<1>4. Types
  BY <1>1, Zenon DEF Init, Types, PCs
<1>5. LockInv
  BY <1>2, <1>3 DEF LockInv
<1>6. OwnInv
  BY <1>1, <1>2, <1>3 DEF OwnInv
<1>7. Handed = {}
  BY <1>1, <1>2, <1>3 DEF Handed
<1>8. curSlot_ >= lastSlot_
  BY DEF Init
<1>9. Layout({})
  BY <1>8 DEF Layout
<1> QED
  BY <1>4, <1>5, <1>6, <1>7, <1>9 DEF PoolInv

\* Slots that go away, or only from one place to another, leave the layout.
LEMMA LayoutShrinks ==
  ASSUME Layout(Handed), UNCHANGED blockVars, Handed' \subseteq Handed
  PROVE  Layout(Handed)'
BY DEF Layout, blockVars, Inside, LastSlot

\* A thread that has found its slot in a block owns it alone.
LEMMA FreshIsOwned ==
  ASSUME PoolInv, NEW t \in Threads, NEW s \in Nat, s \notin Handed,
         pc[t] = "block", pc' = [pc EXCEPT ![t] = "idle"],
         owned' = [owned EXCEPT ![t] = @ \cup {s}],
         UNCHANGED <<lockFree, local>>, freeList_' = freeList_ \/ freeList_' = <<>>,
         curSlot_' \in Nat, lastSlot_' \in Nat, blocks' \subseteq Blocks
  PROVE  Types' /\ LockInv' /\ OwnInv' /\ Handed' \subseteq Handed \cup {s}
<1>1. Types /\ LockInv /\ OwnInv
  BY DEF PoolInv
<1>2. Elements(<<>>) = {} /\ Distinct(<<>>) /\ <<>> \in Seq(Nat)
  BY DEF Elements, Distinct
<1>3. Types'
  BY <1>1, <1>2 DEF Types, PCs
<1>4. LockInv'
  BY <1>1 DEF LockInv, Types
<1>5. \A u \in Threads : owned'[u] = IF u = t THEN owned[t] \cup {s} ELSE owned[u]
  BY <1>1 DEF Types
<1>6. /\ s \notin Elements(freeList_)
      /\ \A u \in Threads : s \notin owned[u] /\ s \notin Elements(local[u])
  BY DEF Handed
<1>7. Elements(freeList_') \subseteq Elements(freeList_) /\ Distinct(freeList_')
  BY <1>1, <1>2 DEF OwnInv
<1>8. OwnInv'
  <2>1. \A u, v \in Threads : u # v => owned'[u] \cap owned'[v] = {}
    BY <1>1, <1>5, <1>6 DEF OwnInv
  <2>2. \A u \in Threads : owned'[u] \cap Elements(freeList_') = {}
    BY <1>1, <1>5, <1>6, <1>7 DEF OwnInv
  <2>3. \A u, v \in Threads : owned'[u] \cap Elements(local[v]) = {}
    BY <1>1, <1>5, <1>6 DEF OwnInv
  <2> QED
    BY <1>1, <1>7, <2>1, <2>2, <2>3 DEF OwnInv
<1>9. Handed' \subseteq Handed \cup {s}
  BY <1>5, <1>7 DEF Handed
<1> QED
  BY <1>3, <1>4, <1>8, <1>9

\* The section of mutexForBlock_.
LEMMA TakeKeeps ==
  ASSUME PoolInv, NEW t \in Threads, TakeFromBlock(t)
  PROVE  PoolInv'
<1> DEFINE H == Handed
<1>1. Types /\ Layout(H)
  BY DEF PoolInv
<1>2. /\ SlotSize_ \in Nat /\ SlotSize_ >= 1 /\ BlockSize_ \in Nat /\ Header = 8
      /\ blocks \subseteq Blocks /\ curSlot_ \in Nat /\ lastSlot_ \in Nat
      /\ \A b \in Blocks : b \in Nat
  BY <1>1, SlotSizeFits, BlockSizeAssumption, BlocksAssumption DEF Types, Header
<1>3. \A s \in H : s \in Nat
  <2>1. Elements(freeList_) \subseteq Nat /\ \A u \in Threads : Elements(local[u]) \subseteq Nat
    BY <1>1, ElementsType DEF Types
  <2> QED
    BY <1>1, <2>1 DEF Types, Handed
<1>4. /\ pc[t] = "block" /\ pc' = [pc EXCEPT ![t] = "idle"]
      /\ UNCHANGED <<lockFree, local>>
  BY DEF TakeFromBlock, Goto
<1>5. ASSUME curSlot_ < lastSlot_,
             owned' = [owned EXCEPT ![t] = @ \cup {curSlot_}],
             curSlot_' = curSlot_ + SlotSize_,
             UNCHANGED <<freeList_, lastSlot_, blocks>>
      PROVE  PoolInv'
  <2>1. PICK b \in blocks :
          /\ lastSlot_ = LastSlot(b) /\ b + Header <= curSlot_
          /\ \A s \in H : s + SlotSize_ <= curSlot_ \/ b + BlockSize_ <= s
    BY <1>1, <1>2, <1>5 DEF Layout
  <2>2. b \in Nat /\ b + 8 <= curSlot_ /\ curSlot_ + SlotSize_ <= b + BlockSize_
    BY <1>2, <1>5, <2>1, FirstSlotFits
  <2>3. curSlot_ \notin H
    BY <1>2, <1>3, <2>1, <2>2
  <2>4. Types' /\ LockInv' /\ OwnInv' /\ H' \subseteq H \cup {curSlot_}
    <3>1. curSlot_' \in Nat /\ lastSlot_' \in Nat /\ blocks' \subseteq Blocks
      BY <1>2, <1>5
    <3> QED
      BY <1>2, <1>4, <1>5, <2>3, <3>1, FreshIsOwned
  <2> HIDE DEF H
  <2>5. \A s \in H' : \E c \in blocks' : Inside(s, c)
    BY <1>1, <1>2, <1>5, <2>2, <2>4 DEF Layout, Inside
  <2>6. \A s, u \in H' : s < u => s + SlotSize_ <= u
    <3> SUFFICES ASSUME NEW s \in H \cup {curSlot_}, NEW u \in H \cup {curSlot_}, s < u
                 PROVE  s + SlotSize_ <= u
      BY <2>4
    <3>1. CASE s \in H /\ u \in H
      BY <1>1, <3>1 DEF Layout
    <3>2. CASE s \in H /\ u = curSlot_
      BY <1>2, <1>3, <2>1, <2>2, <3>2
    <3>3. CASE s = curSlot_ /\ u \in H
      BY <1>2, <1>3, <2>1, <2>2, <3>3
    <3> QED
      BY <1>2, <3>1, <3>2, <3>3
  <2>7. /\ lastSlot_' = LastSlot(b) /\ b + Header <= curSlot_'
        /\ \A s \in H' : s + SlotSize_ <= curSlot_' \/ b + BlockSize_ <= s
    BY <1>2, <1>3, <1>5, <2>1, <2>2, <2>4
  <2>8. Layout(H)'
    BY <1>5, <2>5, <2>6, <2>7 DEF Layout, LastSlot
  <2> QED
    BY <2>4, <2>8 DEF PoolInv, H
<1>6. ASSUME NEW new \in Blocks \ blocks,
             blocks' = blocks \cup {new}, lastSlot_' = LastSlot(new),
             owned' = [owned EXCEPT ![t] = @ \cup {FirstSlot(new)}],
             curSlot_' = FirstSlot(new) + SlotSize_, freeList_' = <<>>
      PROVE  PoolInv'
  <2> DEFINE f == FirstSlot(new)
  <2>1. /\ new \in Nat /\ f \in Nat /\ LastSlot(new) \in Nat
        /\ new + 8 <= f /\ f + SlotSize_ <= new + BlockSize_
    BY <1>2, FirstSlotFits
  <2>2. blocks' \subseteq Blocks /\ curSlot_' \in Nat /\ lastSlot_' \in Nat
    BY <1>2, <1>6, <2>1
  <2> HIDE DEF f
  <2>3. \A s \in H : s + SlotSize_ <= new \/ new + BlockSize_ <= s
    <3> SUFFICES ASSUME NEW s \in H PROVE s + SlotSize_ <= new \/ new + BlockSize_ <= s
      OBVIOUS
    <3>1. PICK b \in blocks : b + 8 <= s /\ s + SlotSize_ <= b + BlockSize_
      BY <1>1, <1>2 DEF Layout, Inside
    <3>2. b \in Nat /\ b # new
      BY <1>2
    <3>3. b + BlockSize_ <= new \/ new + BlockSize_ <= b
      BY <1>2, <2>1, <3>2, BlocksAssumption
    <3> QED
      BY <1>2, <1>3, <2>1, <3>1, <3>2, <3>3
  <2>4. f \notin H
    BY <1>2, <1>3, <2>1, <2>3
  <2>5. Types' /\ LockInv' /\ OwnInv' /\ H' \subseteq H \cup {f}
    BY <1>4, <1>6, <2>1, <2>2, <2>4, FreshIsOwned DEF f
  <2> HIDE DEF H
  <2>6. \A s \in H' : \E c \in blocks' : Inside(s, c)
    BY <1>1, <1>2, <1>6, <2>1, <2>5 DEF Layout, Inside
  <2>7. \A s, u \in H' : s < u => s + SlotSize_ <= u
    <3> SUFFICES ASSUME NEW s \in H \cup {f}, NEW u \in H \cup {f}, s < u
                 PROVE  s + SlotSize_ <= u
      BY <2>5
    <3>1. CASE s \in H /\ u \in H
      BY <1>1, <3>1 DEF Layout
    <3>2. CASE s \in H /\ u = f
      BY <1>2, <1>3, <2>1, <2>3, <3>2
    <3>3. CASE s = f /\ u \in H
      BY <1>2, <1>3, <2>1, <2>3, <3>3
    <3> QED
      BY <2>1, <3>1, <3>2, <3>3
  <2>8. curSlot_' = f + SlotSize_
    BY <1>6 DEF f
  <2>9. /\ new \in blocks' /\ lastSlot_' = LastSlot(new) /\ new + Header <= curSlot_'
        /\ \A s \in H' : s + SlotSize_ <= curSlot_' \/ new + BlockSize_ <= s
    BY <1>2, <1>3, <1>6, <2>1, <2>3, <2>5, <2>8
  <2>10. Layout(H)'
    BY <2>6, <2>7, <2>9 DEF Layout, LastSlot
  <2> QED
    BY <2>5, <2>10 DEF PoolInv, H
<1> QED
  BY <1>5, <1>6 DEF TakeFromBlock

LEMMA StepKeeps == PoolInv /\ [Next]_vars => PoolInv'
<1> SUFFICES ASSUME PoolInv, Next PROVE PoolInv'
  <2>1. ASSUME PoolInv, UNCHANGED vars PROVE PoolInv'
    <3>1. Types' /\ LockInv' /\ OwnInv'
      BY <2>1 DEF PoolInv, Types, LockInv, OwnInv, Distinct, vars
    <3>2. Handed' = Handed /\ UNCHANGED blockVars
      BY <2>1 DEF Handed, vars, blockVars
    <3> QED
      BY <2>1, <3>1, <3>2, LayoutShrinks DEF PoolInv
  <2> SUFFICES ASSUME PoolInv, [Next]_vars PROVE PoolInv'
    OBVIOUS
  <2> QED
    BY <2>1
<1> PICK t \in Threads : Step(t)
  BY DEF Next
<1>0. Types /\ LockInv /\ OwnInv /\ Layout(Handed)
  BY DEF PoolInv
<1>1. /\ freeList_ \in Seq(Nat) /\ local[t] \in Seq(Nat) /\ owned[t] \subseteq Nat
      /\ pc \in [Threads -> PCs] /\ local \in [Threads -> Seq(Nat)]
      /\ owned \in [Threads -> SUBSET Nat]
  BY <1>0 DEF Types
<1>2. Elements(<<>>) = {} /\ Distinct(<<>>) /\ <<>> \in Seq(Nat)
  BY DEF Elements, Distinct
<1>3. CASE Allocate(t)
  <2>1. /\ UNCHANGED <<freeList_, lockFree, local, owned>> /\ UNCHANGED blockVars
        /\ pc[t] = "idle" /\ \E to \in {"list", "block"} : pc' = [pc EXCEPT ![t] = to]
    BY <1>3 DEF Allocate, Goto
  <2>2. Types'
    BY <1>0, <1>1, <2>1 DEF Types, PCs, blockVars
  <2>3. LockInv'
    BY <1>0, <1>1, <2>1 DEF LockInv
  <2>4. OwnInv'
    BY <1>0, <2>1 DEF OwnInv, Distinct
  <2>5. Handed' = Handed
    BY <2>1 DEF Handed
  <2> QED
    BY <1>0, <2>1, <2>2, <2>3, <2>4, <2>5, LayoutShrinks DEF PoolInv
<1>4. CASE LockFreeList(t)
  <2>1. CASE freeList_ = <<>>
    <3>1. /\ UNCHANGED <<freeList_, lockFree, local, owned>> /\ UNCHANGED blockVars
          /\ pc[t] = "list" /\ pc' = [pc EXCEPT ![t] = "block"]
      BY <1>4, <2>1 DEF LockFreeList, Goto
    <3>2. Types'
      BY <1>0, <1>1, <3>1 DEF Types, PCs, blockVars
    <3>3. LockInv'
      BY <1>0, <1>1, <3>1 DEF LockInv
    <3>4. OwnInv'
      BY <1>0, <3>1 DEF OwnInv, Distinct
    <3>5. Handed' = Handed
      BY <3>1 DEF Handed
    <3> QED
      BY <1>0, <3>1, <3>2, <3>3, <3>4, <3>5, LayoutShrinks DEF PoolInv
  <2>2. CASE freeList_ # <<>>
    <3>1. /\ UNCHANGED <<freeList_, owned>> /\ UNCHANGED blockVars
          /\ lockFree = {} /\ lockFree' = {t}
          /\ local' = [local EXCEPT ![t] = freeList_]
          /\ pc[t] = "list" /\ pc' = [pc EXCEPT ![t] = "pop"]
      BY <1>4, <2>2 DEF LockFreeList, Goto
    <3>2. Types'
      BY <1>0, <1>1, <3>1 DEF Types, PCs, blockVars
    <3>3. LockInv'
      BY <1>0, <1>1, <2>2, <3>1 DEF LockInv
    <3>4. \A u \in Threads : local'[u] = local[u] \/ local'[u] = freeList_
      BY <1>1, <3>1
    <3>5. OwnInv'
      <4>1. \A u, v \in Threads : owned[u] \cap Elements(local'[v]) = {}
        BY <1>0, <3>4 DEF OwnInv
      <4>2. \A u \in Threads : Distinct(local'[u])
        BY <1>0, <3>4 DEF OwnInv
      <4> QED
        BY <1>0, <3>1, <4>1, <4>2 DEF OwnInv, Distinct
    <3>6. Handed' \subseteq Handed
      BY <3>1, <3>4 DEF Handed
    <3> QED
      BY <1>0, <3>1, <3>2, <3>3, <3>5, <3>6, LayoutShrinks DEF PoolInv
  <2> QED
    BY <2>1, <2>2
<1>5. CASE Pop(t)
  <2> DEFINE l == local[t]
             h == Head(l)
             r == Tail(l)
  <2>1. /\ UNCHANGED blockVars /\ lockFree' = {}
        /\ local' = [local EXCEPT ![t] = <<>>]
        /\ pc[t] = "pop" /\ pc' = [pc EXCEPT ![t] = "idle"]
        /\ \/ freeList_' = r /\ owned' = [owned EXCEPT ![t] = @ \cup {h}]
           \/ freeList_' = freeList_ /\ owned' = owned
    BY <1>5 DEF Pop, Goto
  <2>2. l # <<>> /\ Distinct(l)
    BY <1>0, <2>1 DEF LockInv, OwnInv
  <2>3. Elements(l) = Elements(r) \cup {h} /\ h \in Nat /\ r \in Seq(Nat)
    BY <1>1, <2>2, TailSet
  <2>4. Distinct(r) /\ h \notin Elements(r)
    BY <1>1, <2>2, DistinctTail
  <2>5. LockInv'
    <3>1. \A u \in Threads : u # t => pc[u] \notin {"pop", "push"}
      BY <1>0, <2>1 DEF LockInv
    <3> QED
      BY <1>0, <1>1, <2>1, <3>1 DEF LockInv
  <2>6. \A u \in Threads : local'[u] = local[u] \/ local'[u] = <<>>
    BY <1>1, <2>1
  <2>7. \A u \in Threads : owned[u] \cap Elements(l) = {}
    BY <1>0 DEF OwnInv
  <2>8. \A u \in Threads : Distinct(local'[u]) /\ Elements(local'[u]) \subseteq Elements(local[u])
    BY <1>0, <1>2, <2>6 DEF OwnInv
  <2> HIDE DEF r, h
  <2>9. CASE freeList_' = r /\ owned' = [owned EXCEPT ![t] = @ \cup {h}]
    <3>1. Types'
      BY <1>0, <1>1, <1>2, <2>1, <2>3, <2>9 DEF Types, PCs, blockVars
    <3>2. /\ \A u \in Threads : u # t => owned'[u] = owned[u]
          /\ owned'[t] = owned[t] \cup {h}
      BY <1>1, <2>9
    <3>3. \A u, v \in Threads : u # v => owned'[u] \cap owned'[v] = {}
      BY <1>0, <2>3, <2>7, <3>2 DEF OwnInv
    <3>4. \A u \in Threads : owned'[u] \cap Elements(r) = {}
      BY <2>3, <2>4, <2>7, <3>2
    <3>5. \A v \in Threads : v # t => local'[v] = <<>>
      BY <1>0, <1>1, <2>1, <2>5 DEF LockInv
    <3>6. local'[t] = <<>>
      BY <1>1, <2>1
    <3>7. OwnInv'
      BY <1>2, <2>4, <2>8, <2>9, <3>3, <3>4, <3>5, <3>6 DEF OwnInv
    <3>8. Handed' \subseteq Handed
      <4>1. Elements(r) \subseteq Handed /\ h \in Handed
        BY <2>3 DEF Handed
      <4>2. \A u \in Threads : owned'[u] \subseteq Handed /\ Elements(local'[u]) \subseteq Handed
        BY <2>8, <3>2, <4>1 DEF Handed
      <4> QED
        BY <2>9, <4>1, <4>2 DEF Handed
    <3> QED
      BY <1>0, <2>1, <2>5, <3>1, <3>7, <3>8, LayoutShrinks DEF PoolInv
  <2>10. CASE freeList_' = freeList_ /\ owned' = owned
    <3>1. Types'
      BY <1>0, <1>1, <1>2, <2>1, <2>10 DEF Types, PCs, blockVars
    <3>2. OwnInv'
      BY <1>0, <2>8, <2>10 DEF OwnInv, Distinct
    <3>3. Handed' \subseteq Handed
      BY <2>8, <2>10 DEF Handed
    <3> QED
      BY <1>0, <2>1, <2>5, <3>1, <3>2, <3>3, LayoutShrinks DEF PoolInv
  <2> QED
    BY <2>1, <2>9, <2>10
<1>6. CASE \E slot \in owned[t] : Deallocate(t, slot)
  <2> PICK slot \in owned[t] : Deallocate(t, slot)
    BY <1>6
  <2> DEFINE n == <<slot>> \o freeList_
  <2>1. /\ UNCHANGED freeList_ /\ UNCHANGED blockVars /\ lockFree = {} /\ lockFree' = {t}
        /\ local' = [local EXCEPT ![t] = n]
        /\ owned' = [owned EXCEPT ![t] = @ \ {slot}]
        /\ pc[t] = "idle" /\ pc' = [pc EXCEPT ![t] = "push"]
    BY DEF Deallocate, Goto
  <2>2. slot \in Nat /\ slot \notin Elements(freeList_)
    BY <1>0, <1>1 DEF OwnInv
  <2>3. n \in Seq(Nat) /\ Elements(n) = Elements(freeList_) \cup {slot} /\ Distinct(n)
    BY <1>0, <1>1, <2>2, ConsIs DEF OwnInv
  <2> HIDE DEF n
  <2>4. Types'
    BY <1>0, <1>1, <2>1, <2>3 DEF Types, PCs, blockVars
  <2>5. LockInv'
    BY <1>0, <1>1, <2>1 DEF LockInv
  <2>6. \A u \in Threads : local'[u] = IF u = t THEN n ELSE local[u]
    BY <1>1, <2>1
  <2>7. \A u \in Threads : owned'[u] \subseteq owned[u] /\ slot \notin owned'[u]
    <3>1. \A u \in Threads : owned'[u] = IF u = t THEN owned[t] \ {slot} ELSE owned[u]
      BY <1>1, <2>1
    <3> QED
      BY <1>0, <3>1 DEF OwnInv
  <2>8. OwnInv'
    <3>1. \A u, v \in Threads : owned'[u] \cap Elements(local'[v]) = {}
      BY <1>0, <2>3, <2>6, <2>7 DEF OwnInv
    <3>2. \A u \in Threads : Distinct(local'[u])
      BY <1>0, <2>3, <2>6 DEF OwnInv
    <3> QED
      BY <1>0, <2>1, <2>7, <3>1, <3>2 DEF OwnInv, Distinct
  <2>9. Handed' \subseteq Handed
    BY <2>1, <2>3, <2>6, <2>7 DEF Handed
  <2> QED
    BY <1>0, <2>1, <2>4, <2>5, <2>8, <2>9, LayoutShrinks DEF PoolInv
<1>7. CASE Push(t)
  <2>1. /\ UNCHANGED owned /\ UNCHANGED blockVars /\ lockFree' = {}
        /\ local' = [local EXCEPT ![t] = <<>>] /\ freeList_' = local[t]
        /\ pc[t] = "push" /\ pc' = [pc EXCEPT ![t] = "idle"]
    BY <1>7 DEF Push, Goto
  <2>2. Types'
    BY <1>0, <1>1, <1>2, <2>1 DEF Types, PCs, blockVars
  <2>3. LockInv'
    <3>1. \A u \in Threads : u # t => pc[u] \notin {"pop", "push"}
      BY <1>0, <2>1 DEF LockInv
    <3> QED
      BY <1>0, <1>1, <2>1, <3>1 DEF LockInv
  <2>4. \A u \in Threads : local'[u] = local[u] \/ local'[u] = <<>>
    BY <1>1, <2>1
  <2>5. OwnInv'
    BY <1>0, <1>2, <2>1, <2>4 DEF OwnInv
  <2>6. Handed' \subseteq Handed
    BY <1>2, <2>1, <2>4 DEF Handed
  <2> QED
    BY <1>0, <2>1, <2>2, <2>3, <2>5, <2>6, LayoutShrinks DEF PoolInv
<1>8. CASE TakeFromBlock(t)
  BY <1>8, TakeKeeps
<1> QED
  BY <1>3, <1>4, <1>5, <1>6, <1>7, <1>8 DEF Step

LEMMA PoolInvariant == Spec => []PoolInv
BY PoolInit, StepKeeps, PTL DEF Spec

\* No slot is handed out twice, and none is owned and free: allocateNewBlock's
\* store to freeList_ under the wrong mutex loses free slots, but cannot make
\* one appear in two places (allocate, deallocate, allocateNewBlock).
THEOREM AlwaysOneOwner == Spec => []OneOwner
<1>1. PoolInv => OneOwner
  BY DEF PoolInv, OwnInv, OneOwner, Slots, ToSet, Elements
<1> QED
  BY <1>1, PoolInvariant, PTL

\* The objects in use do not overlap each other, the link word or the end of
\* their block, whatever padPointer adds (allocateNewBlock, HashBucket).
THEOREM ObjectsAlwaysFit == Spec => []ObjectsFit
<1>1. PoolInv => ObjectsFit
  <2> SUFFICES ASSUME PoolInv PROVE ObjectsFit
    OBVIOUS
  <2>1. SlotSize_ \in Nat /\ Size \in Nat /\ Size <= SlotSize_ /\ BlockSize_ \in Nat
    BY SlotSizeFits, BlockSizeAssumption
  <2>2. Slots \subseteq Handed /\ Slots \subseteq Nat
    BY DEF Slots, Handed, PoolInv, Types
  <2>3. blocks \subseteq Nat
    BY BlocksAssumption DEF PoolInv, Types
  <2>4. \A s \in Slots : \E b \in blocks : b + Header <= s /\ s + Size <= b + BlockSize_
    <3> SUFFICES ASSUME NEW s \in Slots
                 PROVE  \E b \in blocks : b + Header <= s /\ s + Size <= b + BlockSize_
      OBVIOUS
    <3>1. PICK b \in blocks : b + Header <= s /\ s + SlotSize_ <= b + BlockSize_
      BY <2>2 DEF PoolInv, Layout, Inside
    <3>2. s + Size <= b + BlockSize_
      BY <2>1, <2>2, <2>3, <3>1
    <3> QED
      BY <3>1, <3>2
  <2>5. \A s, u \in Slots : s < u => s + Size <= u
    <3> SUFFICES ASSUME NEW s \in Slots, NEW u \in Slots, s < u PROVE s + Size <= u
      OBVIOUS
    <3>1. s + SlotSize_ <= u
      BY <2>2 DEF PoolInv, Layout
    <3> QED
      BY <2>1, <2>2, <3>1
  <2> QED
    BY <2>4, <2>5 DEF ObjectsFit
<1> QED
  BY <1>1, PoolInvariant, PTL
=============================================================================
