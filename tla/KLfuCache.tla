----------------------------- MODULE KLfuCache -----------------------------
(***************************************************************************)
(* KLfuCache (src/include/LFU.h): a cache that evicts the least frequently *)
(* used key, with ageing.  Every operation but purge runs under mutex_, so *)
(* each is one step on the record                                          *)
(*   freq     nodeMap_: cached key -> its node's freq                      *)
(*   list     freqToFreqList_: frequency -> the keys of its FreqList, the  *)
(*            oldest first (a list that does not exist is empty)           *)
(*   minFreq  minFreq_                                                     *)
(*   total    curTotalNum_                                                 *)
(* Values are left out, and curAverageNum_, which is computed anew before  *)
(* each use.  An operator gives the record after the member function, or   *)
(* the set of possible ones where the order of the hash map decides.       *)
(***************************************************************************)
EXTENDS Integers, Sequences, FiniteSets, SequencesExt

CONSTANTS Keys,
          maxAverageNum_,     \* average frequency above which nodes are aged
          INT8_MAX,           \* the value minFreq_ starts from
          MaxFreq             \* bound on the frequencies

ASSUME IntAssumption == INT8_MAX \in Nat \ {0} /\ maxAverageNum_ \in Nat
ASSUME MaxFreqAssumption == MaxFreq \in Nat /\ MaxFreq >= INT8_MAX

\* updateMinFreq looks for frequencies below INT8_MAX only.  The code's 127 is
\* enough for a maximal average of 2 to 250; below 2 ageing subtracts 0 and the
\* frequencies grow for ever.  main.cc uses the default, 10.
ASSUME AgeingInRange ==
  2 <= maxAverageNum_ /\ maxAverageNum_ + 1 - maxAverageNum_ \div 2 < INT8_MAX

Freqs == 1 .. MaxFreq

Cached(c) == DOMAIN c.freq

NewCache == [freq |-> <<>>, list |-> [f \in Freqs |-> <<>>], minFreq |-> INT8_MAX, total |-> 0]

\* FreqList: a node joins at the end; it is unlinked where it is.
AddNode(list, k) == Append(list, k)
RemoveNode(list, k) == RemoveFirst(list, k)

RemoveFromFreqList(c, k) == [c EXCEPT !.list[c.freq[k]] = RemoveNode(@, k)]
AddToFreqList(c, k) == [c EXCEPT !.list[c.freq[k]] = AddNode(@, k)]

SetFreq(c, k, f) ==
  [c EXCEPT !.freq = [j \in DOMAIN @ \cup {k} |-> IF j = k THEN f ELSE @[j]]]

\* The least frequency below INT8_MAX whose list is not empty.
UpdateMinFreq(c) ==
  LET used == {f \in Freqs : f < INT8_MAX /\ c.list[f] # <<>>}
  IN  [c EXCEPT !.minFreq = IF used = {} THEN 1 ELSE Min(used)]

\* A node's frequency after ageing.
Aged(freq) == Max({1, freq - maxAverageNum_ \div 2})

\* The lists after every node has left its list and joined that of its new
\* frequency, in the order of the hash map: each list can have any order.
Relisted(freq) ==
  LET used == {freq[k] : k \in DOMAIN freq}
      Orders(f) == SetToSeqs({k \in DOMAIN freq : freq[k] = f})
      lists == {l \in [used -> UNION {Orders(f) : f \in used}] : \A f \in used : l[f] \in Orders(f)}
  IN  {[f \in Freqs |-> IF f \in used THEN l[f] ELSE <<>>] : l \in lists}

\* handleOverMaxAverageNum
HandleOverMaxAverageNum(c) ==
  LET aged == [k \in Cached(c) |-> Aged(c.freq[k])]
  IN  {UpdateMinFreq([c EXCEPT !.freq = aged, !.list = l]) : l \in Relisted(aged)}

\* addFreqNum: one more access; the nodes are aged if the average is too high.
AddFreqNum(c) ==
  LET counted == [c EXCEPT !.total = @ + 1]
  IN  IF counted.total \div Cardinality(Cached(c)) > maxAverageNum_
        THEN HandleOverMaxAverageNum(counted)
        ELSE {counted}

\* Mutant: the minimum is not raised when its list becomes empty.
GetInternalKeepsMin(c, k) ==
  AddFreqNum(AddToFreqList(SetFreq(RemoveFromFreqList(c, k), k, c.freq[k] + 1), k))

\* getInternal: the node moves to the next list, and minFreq_ with it if that
\* leaves the list of the minimum empty.
GetInternal(c, k) ==
  LET moved == AddToFreqList(SetFreq(RemoveFromFreqList(c, k), k, c.freq[k] + 1), k)
      old == c.freq[k]
  IN  AddFreqNum([moved EXCEPT !.minFreq =
                    IF old = @ /\ moved.list[old] = <<>> THEN @ + 1 ELSE @])

DecreaseFreqNum(c, num) == [c EXCEPT !.total = @ - num]

\* Mutant: the newest node of the list is taken instead of the oldest.
KickOutNewest(c) ==
  LET list == c.list[c.minFreq]
  IN  IF list = <<>>
        THEN DecreaseFreqNum(c, 1)
        ELSE LET k == Last(list)
             IN  DecreaseFreqNum([RemoveFromFreqList(c, k) EXCEPT
                                    !.freq = [j \in Cached(c) \ {k} |-> @[j]]], c.freq[k])

\* kickOut: the first node of minFreq_'s list.  An empty list would give its
\* dummy tail node, whose frequency is 1 and whose key is no cached key.
KickOut(c) ==
  LET list == c.list[c.minFreq]
  IN  IF list = <<>>
        THEN DecreaseFreqNum(c, 1)
        ELSE LET k == Head(list)
             IN  DecreaseFreqNum([RemoveFromFreqList(c, k) EXCEPT
                                    !.freq = [j \in Cached(c) \ {k} |-> @[j]]], c.freq[k])

\* putInternal: make room, insert with frequency 1.
PutInternal(c, k, capacity_) ==
  LET room == IF Cardinality(Cached(c)) = capacity_ THEN KickOut(c) ELSE c
  IN  {[r EXCEPT !.minFreq = 1] : r \in AddFreqNum(AddToFreqList(SetFreq(room, k, 1), k))}

Put(c, k, capacity_) ==
  CASE capacity_ = 0 -> {c}
    [] capacity_ # 0 /\ k \in Cached(c) -> GetInternal(c, k)
    [] capacity_ # 0 /\ k \notin Cached(c) -> PutInternal(c, k, capacity_)

Get(c, k) == IF k \in Cached(c) THEN GetInternal(c, k) ELSE {c}

\* Mutant: purge forgets the frequency lists.
PurgeNodesOnly(c) == [c EXCEPT !.freq = <<>>]

\* purge leaves minFreq_ and curTotalNum_ as they are.
Purge(c) == [c EXCEPT !.freq = <<>>, !.list = [f \in Freqs |-> <<>>]]
=============================================================================
