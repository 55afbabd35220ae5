--------------------------- MODULE KHashLfuCache ---------------------------
(***************************************************************************)
(* KHashLfuCache (src/include/LFU.h): the keys are spread over sliceNum_   *)
(* KLfuCaches by their hash.  sliceNum_ = 1 is one plain KLfuCache.        *)
(* purge takes no lock; it is called here when no other call is running.   *)
(***************************************************************************)
EXTENDS KLfuCache

CONSTANTS capacity_,      \* of the whole cache
          sliceNum_,
          Hash,           \* Hash[k]: the hash value of a key
          MaxAccesses     \* bound on the number of calls

ASSUME CapacityAssumption == capacity_ \in Nat
ASSUME SliceAssumption == sliceNum_ \in Nat \ {0}
ASSUME HashAssumption == Hash \in [Keys -> Nat]
\* A key's frequency is at most the number of calls.
ASSUME AccessesAssumption == MaxAccesses \in 0 .. MaxFreq

VARIABLES lfuSliceCaches_,  \* slice -> its KLfuCache
          accesses          \* history: number of calls

vars == <<lfuSliceCaches_, accesses>>

Slices == 0 .. sliceNum_ - 1
SliceIndex(k) == Hash[k] % sliceNum_
SliceSize == (capacity_ + sliceNum_ - 1) \div sliceNum_

Init ==
  /\ lfuSliceCaches_ = [s \in Slices |-> NewCache]
  /\ accesses = 0

Call == accesses < MaxAccesses /\ accesses' = accesses + 1

PutKey(k) ==
  /\ Call
  /\ \E c \in Put(lfuSliceCaches_[SliceIndex(k)], k, SliceSize) :
       lfuSliceCaches_' = [lfuSliceCaches_ EXCEPT ![SliceIndex(k)] = c]

GetKey(k) ==
  /\ Call
  /\ \E c \in Get(lfuSliceCaches_[SliceIndex(k)], k) :
       lfuSliceCaches_' = [lfuSliceCaches_ EXCEPT ![SliceIndex(k)] = c]

PurgeAll ==
  /\ Call
  /\ lfuSliceCaches_' = [s \in Slices |-> Purge(lfuSliceCaches_[s])]

Next == (\E k \in Keys : PutKey(k) \/ GetKey(k)) \/ PurgeAll

Spec == Init /\ [][Next]_vars

-----------------------------------------------------------------------------
(* Properties.                                                             *)

\* minFreq_ is the least frequency of a cached key, however hits, evictions,
\* ageing and purges alternate, so kickOut finds a node in that list.
MinFreqCurrent ==
  \A s \in Slices : LET c == lfuSliceCaches_[s] IN
    Cached(c) # {} => c.minFreq = Min({c.freq[k] : k \in Cached(c)})

\* nodeMap_ and the frequency lists describe the same nodes: every cached key is
\* once in the list of its frequency, and the lists hold nothing else.
ListsHoldTheNodes ==
  \A s \in Slices : LET c == lfuSliceCaches_[s] IN
    /\ \A k \in Cached(c) : c.freq[k] \in Freqs
    /\ \A f \in Freqs : /\ ToSet(c.list[f]) = {k \in Cached(c) : c.freq[k] = f}
                        /\ IsInjective(c.list[f])

Evicted(s) == Cached(lfuSliceCaches_[s]) \ Cached(lfuSliceCaches_'[s])

\* A put that evicts takes one key, the one that has been longest at the least
\* frequency of its slice, and only from a full slice.
EvictsLeastFrequent ==
  [][\A s \in Slices : LET c == lfuSliceCaches_[s] IN
       Evicted(s) # {} /\ Cached(lfuSliceCaches_'[s]) # {} =>
         /\ Cardinality(Cached(c)) = SliceSize
         /\ Evicted(s) = {Head(c.list[Min({c.freq[k] : k \in Cached(c)})])}]_vars
=============================================================================
