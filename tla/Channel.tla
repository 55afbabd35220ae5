------------------------------ MODULE Channel ------------------------------
(***************************************************************************)
(* A Channel (src/include/Channel.h) as EPollPoller sees it, as a record:  *)
(*   events      events_, what the owner wants to hear of                  *)
(*   index       index_, the poller's mark                                 *)
(*   mapped      EPollPoller's channels_ holds a pointer to the Channel    *)
(*   registered  the descriptor is in the kernel's epoll set               *)
(*   mask        the events it is registered for                           *)
(* Each operator is the record after the member function of that name.     *)
(***************************************************************************)

Events == {"IN", "OUT", "ET"}       \* IN stands for EPOLLIN | EPOLLPRI
Indexes == {"kNew", "kAdded", "kDeleted"}

ChannelType ==
  [events : SUBSET Events, index : Indexes, mapped : BOOLEAN,
   registered : BOOLEAN, mask : SUBSET Events]

NewChannel ==
  [events |-> {}, index |-> "kNew", mapped |-> FALSE, registered |-> FALSE, mask |-> {}]

IsNoneEvent(ch) == ch.events = {}
IsWriting(ch) == "OUT" \in ch.events
IsReading(ch) == "IN" \in ch.events

\* EPollPoller::update: EPOLL_CTL_ADD and EPOLL_CTL_MOD leave the descriptor
\* registered for events(), EPOLL_CTL_DEL takes it out of the set.
CtlSet(ch) == [ch EXCEPT !.registered = TRUE, !.mask = ch.events]
CtlDel(ch) == [ch EXCEPT !.registered = FALSE, !.mask = {}]

\* EPollPoller::updateChannel.  A channel that is not registered is added
\* whatever its events are; a registered one without events is deleted.
Update(ch) ==
  CASE ch.index = "kNew"     -> [CtlSet(ch) EXCEPT !.index = "kAdded", !.mapped = TRUE]
    [] ch.index = "kDeleted" -> [CtlSet(ch) EXCEPT !.index = "kAdded"]
    [] ch.index = "kAdded" /\ IsNoneEvent(ch)  -> [CtlDel(ch) EXCEPT !.index = "kDeleted"]
    [] ch.index = "kAdded" /\ ~IsNoneEvent(ch) -> CtlSet(ch)

\* Mutant: removeChannel leaves a registered descriptor in the epoll set.
RemoveWithoutDel(ch) == [ch EXCEPT !.index = "kNew", !.mapped = FALSE]

\* EPollPoller::removeChannel.
Remove(ch) ==
  LET gone == IF ch.index = "kAdded" THEN CtlDel(ch) ELSE ch
  IN  [gone EXCEPT !.index = "kNew", !.mapped = FALSE]

EnableET(ch) == [ch EXCEPT !.events = @ \cup {"ET"}]        \* no update()
EnableReading(ch)  == Update([ch EXCEPT !.events = @ \cup {"IN"}])
DisableReading(ch) == Update([ch EXCEPT !.events = @ \ {"IN"}])
EnableWriting(ch)  == Update([ch EXCEPT !.events = @ \cup {"OUT"}])
DisableWriting(ch) == Update([ch EXCEPT !.events = @ \ {"OUT"}])
DisableAll(ch)     == Update([ch EXCEPT !.events = {}])

\* The poller's marks agree with the kernel: EPOLL_CTL_ADD is issued only for
\* a descriptor that is not in the set, MOD and DEL only for one that is.
ChannelOK(ch) ==
  /\ ch.registered <=> ch.index = "kAdded"
  /\ ch.mapped <=> ch.index # "kNew"
  /\ ~ch.registered => ch.mask = {}
=============================================================================
